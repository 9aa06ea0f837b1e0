----------------------------- MODULE FsDevProofs -----------------------------
(* Theorems about an endpoint (modules EndpointRegister, PacketMemory and    *)
(* FsDev), for all four kinds of endpoints and for any number of packets,    *)
(* configurations and halts. The first part is about the accesses to the     *)
(* register: however the peripheral changes it between the driver's reading  *)
(* and writing it, an operation changes what it is for and nothing else. The *)
(* second part is about the packets, the toggles and the driver's picture of *)
(* the register, first for the double-buffered endpoints, from set-up to     *)
(* use, then for the single-buffered ones, endpoint 0 last.                  *)
EXTENDS FsDev, TLAPS

----------------------------------------------------------------------------
(* A write to the register. *)

\* Each bit is of one kind.
LEMMA Kinds ==
    /\ RegisterBits = RwBits \cup ToggledBits \cup CtrBits \cup {"SETUP"}
    /\ RwBits \cap ToggledBits = {} /\ RwBits \cap CtrBits = {} /\ "SETUP" \notin RwBits
    /\ ToggledBits \cap CtrBits = {} /\ "SETUP" \notin ToggledBits /\ "SETUP" \notin CtrBits
<1>1. RegisterBits = RwBits \cup ToggledBits \cup CtrBits \cup {"SETUP"}
  BY DEF RegisterBits
<1>2. RwBits \cap ToggledBits = {} /\ RwBits \cap CtrBits = {} /\ "SETUP" \notin RwBits
  BY DEF RwBits, ToggledBits, CtrBits, StatRx, StatTx
<1>3. ToggledBits \cap CtrBits = {} /\ "SETUP" \notin ToggledBits /\ "SETUP" \notin CtrBits
  BY DEF ToggledBits, CtrBits, StatRx, StatTx
<1> QED BY <1>1, <1>2, <1>3

\* The operations that set bits which a write toggles: it is enough that the value
\* read is still right for the bits of the mask, and for the type; that may fail for
\* the bits X, the result of which is then left open.
LEMMA ToggleEffect ==
    ASSUME NEW r \in SUBSET RegisterBits, NEW read, NEW op, NEW X,
           op.name = "toggle_bits", op.val \subseteq op.mask, op.mask \subseteq ToggledBits,
           read \cap RwBits = r \cap RwBits,
           (read \cap op.mask) \ X = (r \cap op.mask) \ X
    PROVE  Written(r, ValueToWrite(op, read)) \ X = Intended(op, r) \ X
<1> DEFINE v == Xor((read \cap (RwBits \cup op.mask)) \cup CtrBits, op.val)
<1>1. ValueToWrite(op, read) = v
  BY DEF ValueToWrite
<1>2. Intended(op, r) = (r \ op.mask) \cup op.val
  BY DEF Intended
<1>3. ASSUME NEW x \in RwBits PROVE x \in Written(r, v) <=> x \in r
  BY <1>3, Kinds DEF Written, Xor
<1>4. ASSUME NEW x \in CtrBits PROVE x \in Written(r, v) <=> x \in r
  BY <1>4, Kinds DEF Written, Xor
<1>5. ASSUME NEW x, x \notin RwBits, x \notin CtrBits, x \notin ToggledBits
      PROVE  x \in Written(r, v) <=> x \in r
  BY <1>5, Kinds DEF Written, Xor
<1>6. ASSUME NEW x \in ToggledBits, x \notin X
      PROVE  x \in Written(r, v) <=> x \in (r \ op.mask) \cup op.val
  <2>1. x \in Written(r, v) <=> ~(x \in r <=> x \in v)
    BY <1>6, Kinds DEF Written, Xor
  <2>2. x \in v <=> ~(x \in read /\ x \in op.mask <=> x \in op.val)
    BY <1>6, Kinds DEF Xor
  <2>3. x \in op.mask => (x \in read <=> x \in r)
    BY <1>6
  <2> QED BY <2>1, <2>2, <2>3
<1>7. ASSUME NEW x, x \notin ToggledBits
      PROVE  x \in Written(r, v) <=> x \in (r \ op.mask) \cup op.val
  BY <1>3, <1>4, <1>5, <1>7
<1> HIDE DEF v
<1> QED BY <1>1, <1>2, <1>6, <1>7

\* Clearing a flag: it is enough that the type read is still right.
LEMMA ClearEffect ==
    ASSUME NEW r \in SUBSET RegisterBits, NEW read, NEW op,
           op.name = "ctr_clear", op.val = {}, op.mask \subseteq CtrBits,
           read \cap RwBits = r \cap RwBits
    PROVE  Written(r, ValueToWrite(op, read)) = Intended(op, r)
<1> DEFINE v == (read \cap RwBits) \cup (CtrBits \ op.mask)
<1>1. ValueToWrite(op, read) = v
  BY DEF ValueToWrite
<1>2. Intended(op, r) = r \ op.mask
  BY DEF Intended
<1>3. ASSUME NEW x \in RwBits PROVE x \in Written(r, v) <=> x \in r \ op.mask
  BY <1>3, Kinds DEF Written, Xor
<1>4. ASSUME NEW x \in CtrBits PROVE x \in Written(r, v) <=> x \in r \ op.mask
  BY <1>4, Kinds DEF Written, Xor
<1>5. ASSUME NEW x, x \notin RwBits, x \notin CtrBits
      PROVE  x \in Written(r, v) <=> x \in r \ op.mask
  BY <1>5, Kinds DEF Written, Xor
<1> HIDE DEF v
<1> QED BY <1>1, <1>2, <1>3, <1>4, <1>5

\* Setting the type.
LEMMA SetAllEffect ==
    ASSUME NEW r \in SUBSET RegisterBits, NEW read, NEW op,
           op.name = "set_all_rw_bits", op.mask = RwBits, op.val \subseteq RwBits
    PROVE  Written(r, ValueToWrite(op, read)) = Intended(op, r)
<1> DEFINE v == CtrBits \cup op.val
<1>1. ValueToWrite(op, read) = v
  BY DEF ValueToWrite
<1>2. Intended(op, r) = (r \ RwBits) \cup op.val
  BY DEF Intended
<1>3. ASSUME NEW x \in RwBits PROVE x \in Written(r, v) <=> x \in (r \ RwBits) \cup op.val
  BY <1>3, Kinds DEF Written, Xor
<1>4. ASSUME NEW x \in CtrBits PROVE x \in Written(r, v) <=> x \in (r \ RwBits) \cup op.val
  BY <1>4, Kinds DEF Written, Xor
<1>5. ASSUME NEW x, x \notin RwBits, x \notin CtrBits
      PROVE  x \in Written(r, v) <=> x \in (r \ RwBits) \cup op.val
  BY <1>5, Kinds DEF Written, Xor
<1> HIDE DEF v
<1> QED BY <1>1, <1>2, <1>3, <1>4, <1>5

\* Giving a buffer: nothing is read, the type of a bulk endpoint is written.
LEMMA BufferEffect ==
    ASSUME NEW r \in SUBSET RegisterBits, NEW read, NEW op,
           op.name = "sw_buf_toggle", op.mask \subseteq ToggledBits,
           r \cap RwBits = {"KIND", "EA"}
    PROVE  Written(r, ValueToWrite(op, read)) = Intended(op, r)
<1> DEFINE v == {"KIND", "EA"} \cup CtrBits \cup op.mask
<1>1. ValueToWrite(op, read) = v
  BY DEF ValueToWrite
<1>2. Intended(op, r) = Xor(r, op.mask)
  BY DEF Intended
<1>3. {"KIND", "EA"} \subseteq RwBits
  BY DEF RwBits
<1>4. ASSUME NEW x \in RwBits PROVE x \in Written(r, v) <=> x \in Xor(r, op.mask)
  BY <1>4, Kinds DEF Written, Xor
<1>5. ASSUME NEW x \in CtrBits PROVE x \in Written(r, v) <=> x \in Xor(r, op.mask)
  BY <1>5, Kinds DEF Written, Xor
<1>6. ASSUME NEW x \in ToggledBits PROVE x \in Written(r, v) <=> x \in Xor(r, op.mask)
  BY <1>3, <1>6, Kinds DEF Written, Xor
<1>7. ASSUME NEW x, x \notin RwBits, x \notin CtrBits, x \notin ToggledBits
      PROVE  x \in Written(r, v) <=> x \in Xor(r, op.mask)
  BY <1>7, Kinds DEF Written, Xor
<1> HIDE DEF v
<1> QED BY <1>1, <1>2, <1>4, <1>5, <1>6, <1>7

----------------------------------------------------------------------------
(* Sequences. *)

Elements(s) == {s[i] : i \in DOMAIN s}

LEMMA ConsFacts ==
    ASSUME NEW S, NEW a \in S, NEW s \in Seq(S)
    PROVE  /\ <<a>> \o s \in Seq(S) /\ <<a>> \o s # <<>>
           /\ Head(<<a>> \o s) = a /\ Tail(<<a>> \o s) = s
           /\ Elements(<<a>> \o s) = {a} \cup Elements(s)
<1> DEFINE t == <<a>> \o s
<1>1. /\ t \in Seq(S) /\ Len(t) = Len(s) + 1 /\ t[1] = a
      /\ \A i \in 1 .. Len(s) : t[i + 1] = s[i]
  OBVIOUS
<1>2. Len(s) \in Nat /\ DOMAIN s = 1 .. Len(s) /\ DOMAIN t = 1 .. Len(t)
  BY <1>1
<1> HIDE DEF t
<1>3. t # <<>>
  BY <1>1, <1>2
<1>4. Head(t) = a
  BY <1>1, <1>3
<1>5. Tail(t) = s
  <2>1. Tail(t) \in Seq(S) /\ Len(Tail(t)) = Len(s)
    BY <1>1, <1>2, <1>3
  <2>2. \A i \in 1 .. Len(s) : Tail(t)[i] = s[i]
    BY <1>1, <1>2, <1>3
  <2> QED BY <2>1, <2>2
<1>6. Elements(t) = {a} \cup Elements(s)
  <2>1. ASSUME NEW x \in Elements(t) PROVE x \in {a} \cup Elements(s)
    <3>1. PICK i \in 1 .. Len(t) : x = t[i]
      BY <1>2, <2>1 DEF Elements
    <3>2. CASE i = 1
      BY <1>1, <3>1, <3>2
    <3>3. CASE i # 1
      <4>1. i - 1 \in 1 .. Len(s) /\ t[(i - 1) + 1] = s[i - 1] /\ (i - 1) + 1 = i
        BY <1>1, <1>2, <3>1, <3>3
      <4> QED BY <1>2, <3>1, <4>1 DEF Elements
    <3> QED BY <3>2, <3>3
  <2>2. a \in Elements(t)
    <3>1. 1 \in DOMAIN t
      BY <1>1, <1>2
    <3> QED BY <1>1, <3>1 DEF Elements
  <2>3. ASSUME NEW x \in Elements(s) PROVE x \in Elements(t)
    <3>1. PICK i \in 1 .. Len(s) : x = s[i]
      BY <1>2, <2>3 DEF Elements
    <3>2. i + 1 \in DOMAIN t
      <4>1. Len(t) = Len(s) + 1 /\ DOMAIN t = 1 .. Len(t) /\ Len(s) \in Nat
        BY <1>1, <1>2
      <4> QED BY <3>1, <4>1
    <3>3. t[i + 1] = x
      <4>1. \A k \in 1 .. Len(s) : t[k + 1] = s[k]
        BY <1>1
      <4> QED BY <3>1, <4>1
    <3> QED BY <3>2, <3>3 DEF Elements
  <2> QED BY <2>1, <2>2, <2>3
<1> QED BY <1>1, <1>3, <1>4, <1>5, <1>6 DEF t

LEMMA HeadTailFacts ==
    ASSUME NEW S, NEW s \in Seq(S), s # <<>>
    PROVE  /\ Head(s) \in S /\ Tail(s) \in Seq(S) /\ Tail(s) # s
           /\ Elements(s) = {Head(s)} \cup Elements(Tail(s))
<1>1. Head(s) \in S /\ Tail(s) \in Seq(S)
  OBVIOUS
<1>2. Len(Tail(s)) = Len(s) - 1 /\ Len(s) \in Nat
  OBVIOUS
<1>3. Tail(s) # s
  <2> DEFINE n == Len(s)
             m == Len(Tail(s))
  <2>1. n \in Nat /\ m = n - 1
    BY <1>2
  <2> HIDE DEF n, m
  <2>2. m # n
    BY <2>1
  <2> QED BY <2>2, Zenon DEF n, m
<1>4. s = <<Head(s)>> \o Tail(s)
  <2>1. s \in Seq(S) /\ <<Head(s)>> \o Tail(s) \in Seq(S)
    BY <1>1
  <2>2. Len(<<Head(s)>> \o Tail(s)) = Len(s)
    BY <1>1, <1>2
  <2>3. \A i \in 1 .. Len(s) : s[i] = (<<Head(s)>> \o Tail(s))[i]
    BY <1>1, <1>2
  <2> QED BY <2>1, <2>2, <2>3
<1>5. Elements(<<Head(s)>> \o Tail(s)) = {Head(s)} \cup Elements(Tail(s))
  <2> DEFINE h == Head(s)
             t == Tail(s)
  <2>1. h \in S /\ t \in Seq(S)
    BY <1>1
  <2> HIDE DEF h, t
  <2>2. Elements(<<h>> \o t) = {h} \cup Elements(t)
    BY <2>1, ConsFacts
  <2> QED BY <2>2 DEF h, t
<1>6. PICK q : q = <<Head(s)>> \o Tail(s)
  OBVIOUS
<1>7. Elements(s) = {Head(s)} \cup Elements(Tail(s))
  <2>1. s = q
    BY <1>4, <1>6
  <2>2. Elements(q) = {Head(s)} \cup Elements(Tail(s))
    BY <1>5, <1>6
  <2> DEFINE e == {Head(s)} \cup Elements(Tail(s))
  <2> HIDE DEF e
  <2>3. Elements(q) = e
    BY <2>2 DEF e
  <2>4. Elements(s) = e
    BY <2>1, <2>3
  <2> QED BY <2>4 DEF e
<1> QED BY <1>1, <1>3, <1>7

LEMMA SameSequence ==
    ASSUME NEW S, NEW x \in Seq(S), NEW y \in Seq(S), NEW n \in Nat,
           Len(x) = n, Len(y) = n, \A i \in 1 .. n : x[i] = y[i]
    PROVE  x = y
OBVIOUS

LEMMA EmptyFacts ==
    ASSUME NEW S, NEW s \in Seq(S)
    PROVE  <<>> \in Seq(S) /\ <<>> \o s = s /\ s \o <<>> = s /\ Elements(<<>>) = {}
BY DEF Elements

----------------------------------------------------------------------------
(* The operations, and types as far as the accesses are concerned. *)

Names == {"toggle_bits", "ctr_clear", "set_all_rw_bits", "sw_buf_toggle", "setup", "out", "in"}
Operations ==
    [name : Names, reads : BOOLEAN, val : SUBSET RegisterBits, mask : SUBSET RegisterBits]

Typed ==
    /\ role \in {"bulk_out", "bulk_in", "interrupt_in", "control"}
    /\ reg \in SUBSET RegisterBits
    /\ masked \in BOOLEAN
    /\ todo \in Seq(Operations)
    /\ ep_outstanig_rx_acks \in Nat

\* The inductive invariant.
RegisterInv == Typed /\ AccessInv

LEMMA BitFacts ==
    /\ StatRx \subseteq RegisterBits /\ StatTx \subseteq RegisterBits
    /\ StatRx \subseteq ToggledBits /\ StatTx \subseteq ToggledBits
    /\ {"DTOG_RX"} \subseteq ToggledBits /\ {"DTOG_TX"} \subseteq ToggledBits
    /\ {"CTR_RX"} \subseteq CtrBits /\ {"CTR_TX"} \subseteq CtrBits
    /\ RwBits \subseteq RegisterBits /\ ToggledBits \subseteq RegisterBits
    /\ CtrBits \subseteq RegisterBits /\ "SETUP" \in RegisterBits
    /\ StatRx \cap StatTx = {} /\ StatRx # {} /\ StatTx # {}
BY DEF RegisterBits, RwBits, ToggledBits, CtrBits, StatRx, StatTx

LEMMA TypeBitsFacts ==
    ASSUME role \in {"bulk_out", "bulk_in", "interrupt_in", "control"}
    PROVE  /\ TypeBits(role) \subseteq RwBits /\ TypeBits(role) # {}
           /\ IsDbl => TypeBits(role) = {"KIND", "EA"}
           /\ "KIND" \in TypeBits(role) => IsDbl
BY DEF TypeBits, EpType, RwBits, IsDbl

LEMMA CallFacts ==
    ASSUME NEW what \in {"setup", "out", "in"}
    PROVE  /\ Call(what) \in Operations /\ Call(what).name = what
           /\ ~Call(what).reads /\ Call(what).mask = {}
BY DEF Call, Operations, Names

LEMMA StatusFacts ==
    ASSUME NEW status \in {"disabled", "stall", "nak", "valid"}
    PROVE  /\ RxStatus(status) \subseteq StatRx /\ TxStatus(status) \subseteq StatTx
           /\ status # "valid" => RxStatus(status) # StatRx /\ TxStatus(status) # StatTx
           /\ RxStatus("valid") = StatRx /\ TxStatus("valid") = StatTx
BY DEF RxStatus, TxStatus, StatRx, StatTx

LEMMA ToggleFacts ==
    ASSUME NEW mask \in {StatRx, StatTx, {"DTOG_RX"}, {"DTOG_TX"}}, NEW val \in SUBSET mask,
           NEW op, op = ToggleBits(val, mask)
    PROVE  /\ op \in Operations /\ op.name = "toggle_bits" /\ op.reads
           /\ op.val = val /\ op.mask = mask
<1>1. mask \in SUBSET RegisterBits /\ val \in SUBSET RegisterBits
  BY BitFacts, Kinds
<1> QED BY <1>1 DEF ToggleBits, Operations, Names

LEMMA ClearFacts ==
    /\ CtrRxClear \in Operations /\ CtrRxClear.name = "ctr_clear" /\ CtrRxClear.reads
    /\ CtrRxClear.val = {} /\ CtrRxClear.mask = {"CTR_RX"}
    /\ CtrTxClear \in Operations /\ CtrTxClear.name = "ctr_clear" /\ CtrTxClear.reads
    /\ CtrTxClear.val = {} /\ CtrTxClear.mask = {"CTR_TX"}
<1>1. {"CTR_RX"} \in SUBSET RegisterBits /\ {"CTR_TX"} \in SUBSET RegisterBits
  BY BitFacts
<1> QED BY <1>1 DEF CtrRxClear, CtrTxClear, Operations, Names

LEMMA SetAllFacts ==
    ASSUME NEW val \in SUBSET RwBits
    PROVE  /\ SetAllRwBits(val) \in Operations
           /\ SetAllRwBits(val).name = "set_all_rw_bits" /\ ~SetAllRwBits(val).reads
           /\ SetAllRwBits(val).val = val /\ SetAllRwBits(val).mask = RwBits
<1>1. RwBits \in SUBSET RegisterBits /\ val \in SUBSET RegisterBits
  BY BitFacts
<1> QED BY <1>1 DEF SetAllRwBits, Operations, Names

LEMMA BufferFacts ==
    ASSUME NEW bit \in {SW_BUF_RX, SW_BUF_TX}
    PROVE  /\ SwBufToggle(bit) \in Operations
           /\ SwBufToggle(bit).name = "sw_buf_toggle" /\ ~SwBufToggle(bit).reads
           /\ SwBufToggle(bit).val = {} /\ SwBufToggle(bit).mask = {bit}
<1>1. {bit} \in SUBSET RegisterBits
  BY BitFacts DEF SW_BUF_RX, SW_BUF_TX
<1> QED BY <1>1 DEF SwBufToggle, Operations, Names

\* The operations that fit go on fitting as long as the endpoint has its type.
LEMMA FitKept ==
    ASSUME role' = role,
           reg \cap RwBits = TypeBits(role) => reg' \cap RwBits = TypeBits(role),
           NEW op, Fits(op)
    PROVE  Fits(op)'
BY DEF Fits, IsDbl

LEMMA VisibleFacts ==
    ASSUME Typed
    PROVE  /\ Visible \cap RwBits = reg \cap RwBits
           /\ Visible \ (StatRx \cup StatTx) = reg \ (StatRx \cup StatTx)
           /\ ~masked => Visible = reg
<1>1. "STAT_RX0" \in StatRx /\ "STAT_TX0" \in StatTx
  BY DEF StatRx, StatTx
<1>2. \A x \in RwBits : x \notin StatRx /\ x \notin StatTx
  BY BitFacts, Kinds
<1> QED BY <1>1, <1>2 DEF Visible

----------------------------------------------------------------------------
(* Every write has the effect intended. *)

LEMMA WriteEffect ==
    ASSUME RegisterInv, WriteRegister,
           NEW op, op = Head(todo), NEW X, X = IF masked THEN StatRx \cup StatTx ELSE {}
    PROVE  /\ op \in Operations /\ op \in Pending /\ Fits(op) /\ op.mask # {}
           /\ todo' = Tail(todo) /\ latch' = NotRead
           /\ reg' \ X = Intended(op, reg) \ X
<1>1. todo # <<>> /\ todo \in Seq(Operations) /\ op.mask # {}
  BY DEF WriteRegister, IsRegisterOp, RegisterInv, Typed
<1>2. op \in Operations /\ op \in Elements(todo)
  BY <1>1, HeadTailFacts
<1>3. op \in Pending
  BY <1>2 DEF Elements, Pending
<1>4. Fits(op)
  BY <1>3 DEF RegisterInv, AccessInv, OperationsFit
<1>5. /\ op.reads => latch # NotRead
      /\ reg' = Written(reg, ValueToWrite(op, latch))
      /\ todo' = Tail(todo) /\ latch' = NotRead
  BY DEF WriteRegister
<1>6. reg \in SUBSET RegisterBits /\ Typed
  BY DEF RegisterInv, Typed
<1>7. op.reads => /\ latch \cap RwBits = reg \cap RwBits
                  /\ op.name = "toggle_bits" => latch \cap op.mask = Visible \cap op.mask
  BY <1>5 DEF RegisterInv, AccessInv, LatchIsGood
<1>8. reg' \ X = Intended(op, reg) \ X
  <2>1. CASE op.name = "toggle_bits"
    <3>1. op.reads /\ op.val \subseteq op.mask /\ op.mask \subseteq ToggledBits
      BY <1>4, <2>1, BitFacts DEF Fits
    <3>2. (latch \cap op.mask) \ X = (reg \cap op.mask) \ X
      BY <1>6, <1>7, <2>1, <3>1, VisibleFacts
    <3> QED BY <1>5, <1>6, <1>7, <2>1, <3>1, <3>2, ToggleEffect
  <2>2. CASE op.name = "ctr_clear"
    <3>1. op.reads /\ op.val = {} /\ op.mask \subseteq CtrBits
      BY <1>4, <2>2, BitFacts DEF Fits
    <3>2. Written(reg, ValueToWrite(op, latch)) = Intended(op, reg)
      BY <1>6, <1>7, <2>2, <3>1, ClearEffect
    <3> QED BY <1>5, <3>2
  <2>3. CASE op.name = "set_all_rw_bits"
    <3>1. op.mask = RwBits /\ op.val \subseteq RwBits
      BY <1>4, <1>6, <2>3, TypeBitsFacts DEF Fits, Typed
    <3>2. Written(reg, ValueToWrite(op, latch)) = Intended(op, reg)
      BY <1>6, <2>3, <3>1, SetAllEffect
    <3> QED BY <1>5, <3>2
  <2>4. CASE op.name = "sw_buf_toggle"
    <3>1. op.mask \subseteq ToggledBits
      BY <1>4, <2>4, BitFacts DEF Fits, SW_BUF_RX, SW_BUF_TX
    <3>2. reg \cap RwBits = {"KIND", "EA"}
      BY <1>4, <1>6, <2>4, TypeBitsFacts DEF Fits, Typed
    <3>3. Written(reg, ValueToWrite(op, latch)) = Intended(op, reg)
      BY <1>6, <2>4, <3>1, <3>2, BufferEffect
    <3> QED BY <1>5, <3>3
  <2> QED BY <1>1, <1>4, <2>1, <2>2, <2>3, <2>4 DEF Fits
<1> QED BY <1>1, <1>2, <1>3, <1>4, <1>5, <1>8

----------------------------------------------------------------------------
(* What the operations and the peripheral leave as it was. *)

\* The bits that matter, in q after the status or a toggle is set in r, and after a flag
\* is cleared.
StatusSet(r, q, mask, val) ==
    /\ "CTR_RX" \in q <=> "CTR_RX" \in r
    /\ "CTR_TX" \in q <=> "CTR_TX" \in r
    /\ "SETUP" \in q <=> "SETUP" \in r
    /\ mask # StatTx => (StatTx \subseteq q <=> StatTx \subseteq r)
    /\ mask # StatRx => (StatRx \subseteq q <=> StatRx \subseteq r)
    /\ mask = StatTx => (StatTx \subseteq q <=> val = StatTx)
    /\ mask = StatRx => (StatRx \subseteq q <=> val = StatRx)
FlagCleared(r, q, mask) ==
    /\ "CTR_RX" \in q <=> "CTR_RX" \in r /\ mask # {"CTR_RX"}
    /\ "CTR_TX" \in q <=> "CTR_TX" \in r /\ mask # {"CTR_TX"}
    /\ "SETUP" \in q <=> "SETUP" \in r
    /\ StatTx \subseteq q <=> StatTx \subseteq r
    /\ StatRx \subseteq q <=> StatRx \subseteq r

LEMMA AfterToggle ==
    ASSUME NEW r, NEW mask \in {StatRx, StatTx, {"DTOG_RX"}, {"DTOG_TX"}},
           NEW val \in SUBSET mask
    PROVE  StatusSet(r, (r \ mask) \cup val, mask, val)
<1>1. CASE mask = StatRx
  BY <1>1 DEF StatRx, StatTx, StatusSet
<1>2. CASE mask = StatTx
  BY <1>2 DEF StatRx, StatTx, StatusSet
<1>3. CASE mask = {"DTOG_RX"}
  BY <1>3 DEF StatRx, StatTx, StatusSet
<1>4. CASE mask = {"DTOG_TX"}
  BY <1>4 DEF StatRx, StatTx, StatusSet
<1> QED BY <1>1, <1>2, <1>3, <1>4

LEMMA AfterClear ==
    ASSUME NEW r, NEW mask \in {{"CTR_RX"}, {"CTR_TX"}}
    PROVE  FlagCleared(r, r \ mask, mask)
BY DEF StatRx, StatTx, FlagCleared

\* A write in general.
LEMMA WriteKeeps ==
    ASSUME RegisterInv, WriteRegister, NEW op, op = Head(todo)
    PROVE  /\ reg' \in SUBSET RegisterBits
           /\ reg' \cap RwBits = IF op.name = "set_all_rw_bits" THEN TypeBits(role)
                                                            ELSE reg \cap RwBits
           /\ reg' \cap CtrBits \subseteq reg \cap CtrBits
           /\ "SETUP" \in reg' <=> "SETUP" \in reg
           /\ ~masked => reg' = Intended(op, reg)
<1> DEFINE X == IF masked THEN StatRx \cup StatTx ELSE {}
<1>1. /\ Fits(op) /\ op.mask # {}
      /\ reg' \ X = Intended(op, reg) \ X
  BY WriteEffect
<1>2. \A x \in X : x \in ToggledBits
  BY BitFacts
<1>3. reg \in SUBSET RegisterBits /\ reg' = Written(reg, ValueToWrite(op, latch))
  BY DEF RegisterInv, Typed, WriteRegister
<1>4. reg' \in SUBSET RegisterBits
  <2>1. \A v : Written(reg, v) \subseteq RegisterBits
    BY <1>3, Kinds DEF Written, Xor
  <2> QED BY <1>3, <2>1
<1>5. \A x : x \notin ToggledBits => (x \in reg' <=> x \in Intended(op, reg))
  BY <1>1, <1>2
<1>6. \/ /\ op.name = "toggle_bits" /\ op.mask \subseteq ToggledBits
         /\ op.val \subseteq op.mask
      \/ op.name = "ctr_clear" /\ op.mask \subseteq CtrBits /\ op.val = {}
      \/ op.name = "set_all_rw_bits" /\ op.mask = RwBits /\ op.val = TypeBits(role)
      \/ op.name = "sw_buf_toggle" /\ op.mask \subseteq ToggledBits
  BY <1>1, BitFacts DEF Fits, SW_BUF_RX, SW_BUF_TX
<1>7. TypeBits(role) \subseteq RwBits
  BY TypeBitsFacts DEF RegisterInv, Typed
<1>8. \A x : x \notin ToggledBits =>
         (x \in reg' <=> CASE op.name = "set_all_rw_bits" /\ x \in RwBits -> x \in TypeBits(role)
                           [] op.name = "ctr_clear" /\ x \in CtrBits -> x \in reg /\ x \notin op.mask
                           [] OTHER -> x \in reg)
  BY <1>5, <1>6, <1>7, Kinds DEF Intended, Xor
<1>9. reg' \cap RwBits = IF op.name = "set_all_rw_bits" THEN TypeBits(role) ELSE reg \cap RwBits
  BY <1>7, <1>8, Kinds
<1>10. reg' \cap CtrBits \subseteq reg \cap CtrBits
  BY <1>8, Kinds
<1>11. "SETUP" \in reg' <=> "SETUP" \in reg
  BY <1>8, Kinds
<1>12. ~masked => reg' = Intended(op, reg)
  BY <1>1
<1> QED BY <1>4, <1>9, <1>10, <1>11, <1>12

LEMMA SentKept ==
    ASSUME NEW ops, SentPending(ops), ep_state_tx' = ep_state_tx,
           StatTx \subseteq reg' <=> StatTx \subseteq reg,
           "CTR_TX" \in reg' <=> "CTR_TX" \in reg
    PROVE  SentPending(ops)'
BY DEF SentPending

LEMMA PairConcat ==
    ASSUME NEW a \in Operations, NEW b \in Operations, NEW s \in Seq(Operations)
    PROVE  /\ <<a, b>> \in Seq(Operations) /\ <<a, b>> = <<a>> \o <<b>>
           /\ <<a, b>> \o s = <<a>> \o (<<b>> \o s)
<1>1. <<a>> \in Seq(Operations) /\ <<b>> \in Seq(Operations) /\ <<a, b>> \in Seq(Operations)
  OBVIOUS
<1>2. <<a, b>> = <<a>> \o <<b>>
  <2> DEFINE x == <<a, b>>
             y == <<a>> \o <<b>>
  <2>1. x \in Seq(Operations) /\ y \in Seq(Operations) /\ 2 \in Nat /\ Len(x) = 2 /\ Len(y) = 2
    BY <1>1
  <2>2. \A i \in 1 .. 2 : x[i] = y[i]
    OBVIOUS
  <2> HIDE DEF x, y
  <2>3. x = y
    BY <2>1, <2>2, SameSequence
  <2> QED BY <2>3 DEF x, y
<1>3. (<<a>> \o <<b>>) \o s = <<a>> \o (<<b>> \o s)
  OBVIOUS
<1> QED BY <1>1, <1>2, <1>3

LEMMA TripleConcat ==
    ASSUME NEW a \in Operations, NEW b \in Operations, NEW c \in Operations, NEW s \in Seq(Operations)
    PROVE  <<a, b, c>> \o s = <<a>> \o (<<b, c>> \o s)
<1> DEFINE x == <<a, b, c>>
           q == <<b, c>>
           y == <<a>> \o q
<1>1. <<a>> \in Seq(Operations) /\ q \in Seq(Operations) /\ x \in Seq(Operations)
  OBVIOUS
<1>2. x = y
  <2>1. x[1] = y[1] /\ x[2] = y[2] /\ x[3] = y[3]
    OBVIOUS
  <2>2. y \in Seq(Operations) /\ 3 \in Nat /\ Len(x) = 3 /\ Len(y) = 3
    BY <1>1
  <2> HIDE DEF x, y
  <2>3. \A i \in 1 .. 3 : x[i] = y[i]
    BY <2>1
  <2> QED BY <1>1, <2>2, <2>3, SameSequence
<1> HIDE DEF q, x
<1>3. (<<a>> \o q) \o s = <<a>> \o (q \o s)
  BY <1>1
<1> QED BY <1>1, <1>2, <1>3 DEF q, x

\* Heads and tails of what there is to do.
LEMMA Shapes ==
    ASSUME NEW a \in Operations, NEW b \in Operations, NEW c \in Operations,
           NEW s \in Seq(Operations)
    PROVE  /\ Head(<<a>> \o s) = a /\ Tail(<<a>> \o s) = s
           /\ Head(<<a, b>> \o s) = a /\ Tail(<<a, b>> \o s) = <<b>> \o s
           /\ Head(<<a, b, c>> \o s) = a /\ Tail(<<a, b, c>> \o s) = <<b, c>> \o s
           /\ Head(<<a>>) = a /\ Tail(<<a>>) = <<>>
           /\ Head(<<a, b>>) = a /\ Tail(<<a, b>>) = <<b>>
<1>1. Head(<<a>> \o s) = a /\ Tail(<<a>> \o s) = s
  BY ConsFacts
<1>2. Head(<<a, b>> \o s) = a /\ Tail(<<a, b>> \o s) = <<b>> \o s
  <2>1. <<b>> \o s \in Seq(Operations)
    BY ConsFacts
  <2>2. <<a, b>> \o s = <<a>> \o (<<b>> \o s)
    BY PairConcat
  <2> QED BY <2>1, <2>2, ConsFacts
<1>3. Head(<<a, b, c>> \o s) = a /\ Tail(<<a, b, c>> \o s) = <<b, c>> \o s
  <2>1. <<b, c>> \o s \in Seq(Operations)
    <3>1. <<c>> \o s \in Seq(Operations)
      BY ConsFacts
    <3>2. <<b, c>> \o s = <<b>> \o (<<c>> \o s)
      BY PairConcat
    <3> QED BY <3>1, <3>2, ConsFacts
  <2>2. <<a, b, c>> \o s = <<a>> \o (<<b, c>> \o s)
    BY TripleConcat
  <2> QED BY <2>1, <2>2, ConsFacts
<1>4. Head(<<a>>) = a /\ Tail(<<a>>) = <<>>
  OBVIOUS
<1>5. Head(<<a, b>>) = a /\ Tail(<<a, b>>) = <<b>>
  OBVIOUS
<1> QED BY <1>1, <1>2, <1>3, <1>4, <1>5

----------------------------------------------------------------------------
(* A write at a single-buffered endpoint in use.                             *)

\* What may be left to do about a packet sent.
Rest == {<<>>, <<CtrTxClear, Call("in")>>, <<Call("in")>>}

LEMMA RestFacts ==
    ASSUME NEW ops \in Rest
    PROVE  /\ ops \in Seq(Operations)
           /\ <<>> \in Rest /\ <<Call("in")>> \in Rest /\ <<CtrTxClear, Call("in")>> \in Rest
<1>1. CtrTxClear \in Operations /\ Call("in") \in Operations
  BY ClearFacts, CallFacts
<1>2. <<CtrTxClear, Call("in")>> \in Seq(Operations)
  BY <1>1, EmptyFacts, PairConcat
<1>3. <<Call("in")>> \in Seq(Operations) /\ <<>> \in Seq(Operations)
  BY <1>1
<1> QED BY <1>2, <1>3 DEF Rest

\* The operations on the status, as operations.
LEMMA StatusOps ==
    ASSUME NEW status \in {"disabled", "stall", "nak", "valid"}
    PROVE  /\ StatTxSet(status) \in Operations /\ StatTxSet(status).name = "toggle_bits"
           /\ StatTxSet(status).reads
           /\ StatTxSet(status).mask = StatTx /\ StatTxSet(status).val = TxStatus(status)
           /\ StatRxSet(status) \in Operations /\ StatRxSet(status).name = "toggle_bits"
           /\ StatRxSet(status).reads
           /\ StatRxSet(status).mask = StatRx /\ StatRxSet(status).val = RxStatus(status)
<1>1. RxStatus(status) \in SUBSET StatRx /\ TxStatus(status) \in SUBSET StatTx
  BY StatusFacts
<1>2. StatTxSet(status) = ToggleBits(TxStatus(status), StatTx)
  BY DEF StatTxSet
<1>3. StatRxSet(status) = ToggleBits(RxStatus(status), StatRx)
  BY DEF StatRxSet
<1>4. /\ StatTxSet(status) \in Operations /\ StatTxSet(status).name = "toggle_bits"
      /\ StatTxSet(status).reads
      /\ StatTxSet(status).mask = StatTx /\ StatTxSet(status).val = TxStatus(status)
  BY <1>1, <1>2, ToggleFacts
<1>5. /\ StatRxSet(status) \in Operations /\ StatRxSet(status).name = "toggle_bits"
      /\ StatRxSet(status).reads
      /\ StatRxSet(status).mask = StatRx /\ StatRxSet(status).val = RxStatus(status)
  BY <1>1, <1>3, ToggleFacts
<1> QED BY <1>4, <1>5

LEMMA SingleAccess ==
    ASSUME RegisterInv, ~IsDbl, WriteRegister, NEW op, op = Head(todo)
    PROVE  /\ op.mask # {} /\ todo # <<>> /\ todo' = Tail(todo)
           /\ ep_state_tx' = ep_state_tx /\ role' = role /\ host_stage' = host_stage
           /\ op.name = "toggle_bits" => StatusSet(reg, reg', op.mask, op.val)
           /\ op.name = "ctr_clear" => FlagCleared(reg, reg', op.mask)
<1>1. ~masked
  BY DEF RegisterInv, AccessInv, EndpointTyped
<1>2. /\ Fits(op) /\ op.mask # {} /\ todo' = Tail(todo)
  BY WriteEffect
<1>3. reg' = Intended(op, reg)
  BY <1>1, WriteKeeps
<1>4. /\ todo # <<>> /\ ep_state_tx' = ep_state_tx /\ role' = role /\ host_stage' = host_stage
  BY DEF WriteRegister, driverVars, hostVars
<1>5. ASSUME op.name = "toggle_bits" PROVE StatusSet(reg, reg', op.mask, op.val)
  <2>1. /\ op.mask \in {StatRx, StatTx, {"DTOG_RX"}, {"DTOG_TX"}}
        /\ op.val \in SUBSET op.mask
    BY <1>2, <1>5 DEF Fits
  <2>2. reg' = (reg \ op.mask) \cup op.val
    BY <1>3, <1>5 DEF Intended
  <2> DEFINE m == op.mask
             v == op.val
  <2>3. m \in {StatRx, StatTx, {"DTOG_RX"}, {"DTOG_TX"}} /\ v \in SUBSET m
        /\ reg' = (reg \ m) \cup v
    BY <2>1, <2>2
  <2> HIDE DEF m, v
  <2>4. StatusSet(reg, reg', m, v)
    BY <2>3, AfterToggle
  <2> QED BY <2>4 DEF m, v
<1>6. ASSUME op.name = "ctr_clear" PROVE FlagCleared(reg, reg', op.mask)
  <2>1. op.mask \in {{"CTR_RX"}, {"CTR_TX"}} /\ op.val = {}
    BY <1>2, <1>6 DEF Fits
  <2>2. reg' = reg \ op.mask
    BY <1>3, <1>6, <2>1 DEF Intended
  <2> DEFINE m == op.mask
  <2>3. m \in {{"CTR_RX"}, {"CTR_TX"}} /\ reg' = reg \ m
    BY <2>1, <2>2
  <2> HIDE DEF m
  <2>4. FlagCleared(reg, reg', m)
    BY <2>3, AfterClear
  <2> QED BY <2>4 DEF m
<1> QED BY <1>2, <1>4, <1>5, <1>6

\* A single-buffered endpoint stays in use.
InUse == \E ops \in Rest : ReceivedPending(ops) /\ SentPending(ops)

LEMMA RestKept ==
    ASSUME NEW ops \in Rest, ReceivedPending(ops)', SentPending(ops)'
    PROVE  InUse'
BY DEF InUse, Rest, ReceivedPending, SentPending, Submitting

\* A packet being submitted, or the rest of what there is to do after one is received.
LEMMA WriteSubmitting ==
    ASSUME RegisterInv, ~IsDbl, WriteRegister, Submitting
    PROVE  InUse' /\ "CTR_RX" \notin reg'
<1> DEFINE op == Head(todo)
           a == StatTxSet("valid")
           b == StatRxSet("valid")
<1>1. /\ a \in Operations /\ a.name = "toggle_bits" /\ a.mask = StatTx /\ a.val = StatTx
      /\ b \in Operations
  BY StatusOps, StatusFacts
<1>2. /\ todo' = Tail(todo) /\ ep_state_tx' = ep_state_tx
      /\ op.name = "toggle_bits" => StatusSet(reg, reg', op.mask, op.val)
  BY SingleAccess
<1>3. /\ Head(<<a>>) = a /\ Tail(<<a>>) = <<>>
      /\ Head(<<a, b>>) = a /\ Tail(<<a, b>>) = <<b>>
      /\ <<b>> \o <<>> = <<b>>
  BY <1>1, Shapes, EmptyFacts
<1>4. op = a /\ ep_state_tx = sgl_buf_1_pkt /\ "CTR_TX" \notin reg
  BY <1>3 DEF Submitting
<1>5. StatusSet(reg, reg', StatTx, StatTx)
  BY <1>1, <1>2, <1>4
<1>6. SentPending(<<>>)'
  BY <1>2, <1>4, <1>5 DEF SentPending, StatusSet
<1>7. /\ "CTR_RX" \notin reg
      /\ \/ todo' = <<>>
         \/ todo' = <<b>> /\ ~(StatRx \subseteq reg)
  <2>1. CASE todo = <<a>> /\ role = "interrupt_in"
    BY <1>2, <1>3, <2>1 DEF RegisterInv, AccessInv, EndpointTyped
  <2>2. CASE todo = <<a, b>> /\ "CTR_RX" \notin reg /\ ~(StatRx \subseteq reg)
    BY <1>2, <1>3, <2>2
  <2> QED BY <2>1, <2>2 DEF Submitting
<1>8. StatTx # StatRx
  BY DEF StatTx, StatRx
<1>9. "CTR_RX" \notin reg' /\ (StatRx \subseteq reg' <=> StatRx \subseteq reg)
  BY <1>5, <1>7, <1>8 DEF StatusSet
<1> HIDE DEF a, op
<1>10. ReceivedPending(<<>>)'
  <2>1. CASE todo' = <<>>
    BY <1>9, <2>1 DEF ReceivedPending
  <2>2. CASE todo' = <<b>> /\ ~(StatRx \subseteq reg)
    BY <1>3, <1>9, <2>2 DEF ReceivedPending
  <2> QED BY <1>7, <2>1, <2>2
<1> QED BY <1>6, <1>9, <1>10, RestKept DEF Rest

LEMMA WritePending ==
    ASSUME RegisterInv, ~IsDbl, WriteRegister,
           {"CTR_RX", "SETUP"} \subseteq reg => ~(StatTx \subseteq reg),
           NEW ops \in Rest, ReceivedPending(ops), SentPending(ops)
    PROVE  /\ InUse'
           /\ {"CTR_RX", "SETUP"} \subseteq reg' => ~(StatTx \subseteq reg')
<1> DEFINE op == Head(todo)
<1>1. /\ op.mask # {} /\ todo # <<>> /\ todo' = Tail(todo) /\ ep_state_tx' = ep_state_tx
      /\ op.name = "toggle_bits" => StatusSet(reg, reg', op.mask, op.val)
      /\ op.name = "ctr_clear" => FlagCleared(reg, reg', op.mask)
  BY SingleAccess
<1>2. ops \in Seq(Operations)
  BY RestFacts
<1>3. StatTx # StatRx /\ {"CTR_RX"} # {"CTR_TX"}
  BY DEF StatTx, StatRx
<1> HIDE DEF op
<1>4. CASE todo = ops /\ ("CTR_RX" \in reg => ~(StatRx \subseteq reg))
  <2> DEFINE a == CtrTxClear
             b == Call("in")
  <2>1. /\ a \in Operations /\ a.name = "ctr_clear" /\ a.mask = {"CTR_TX"}
        /\ b \in Operations /\ b.mask = {}
    BY ClearFacts, CallFacts
  <2>2. /\ Head(<<a, b>>) = a /\ Tail(<<a, b>>) = <<b>> /\ Head(<<b>>) = b
    BY <2>1, Shapes
  <2>3. todo = <<a, b>>
    BY <1>1, <1>4, <2>1, <2>2 DEF Rest, op
  <2>4. FlagCleared(reg, reg', {"CTR_TX"}) /\ todo' = <<b>>
    BY <1>1, <2>1, <2>2, <2>3 DEF op
  <2>5. ops # <<>> /\ ops # <<b>>
    BY <1>1, <1>4, <2>1, <2>2 DEF op
  <2>6. ep_state_tx = sgl_buf_1_pkt /\ ~(StatTx \subseteq reg)
    BY <2>5 DEF SentPending
  <2>7. SentPending(<<b>>)'
    BY <1>1, <2>4, <2>6 DEF FlagCleared, SentPending
  <2>8. ReceivedPending(<<b>>)'
    BY <1>3, <1>4, <2>4 DEF FlagCleared, ReceivedPending
  <2>9. ~(StatTx \subseteq reg')
    BY <2>4, <2>6 DEF FlagCleared
  <2> QED BY <2>7, <2>8, <2>9, RestKept DEF Rest
<1>5. CASE /\ "CTR_RX" \in reg /\ ~(StatRx \subseteq reg)
           /\ \/ todo = <<CtrRxClear, Call("setup")>> \o ops /\ "SETUP" \in reg
              \/ todo = <<CtrRxClear, Call("out")>> \o ops
  <2> DEFINE a == CtrRxClear
             b == Call("setup")
             c == Call("out")
  <2>1. /\ a \in Operations /\ a.name = "ctr_clear" /\ a.mask = {"CTR_RX"}
        /\ b \in Operations /\ c \in Operations
    BY ClearFacts, CallFacts
  <2>2. /\ Head(<<a, b>> \o ops) = a /\ Tail(<<a, b>> \o ops) = <<b>> \o ops
        /\ Head(<<a, c>> \o ops) = a /\ Tail(<<a, c>> \o ops) = <<c>> \o ops
    <3> HIDE DEF a, b, c
    <3>1. Head(<<a, b>> \o ops) = a /\ Tail(<<a, b>> \o ops) = <<b>> \o ops
      BY <1>2, <2>1, Shapes
    <3>2. Head(<<a, c>> \o ops) = a /\ Tail(<<a, c>> \o ops) = <<c>> \o ops
      BY <1>2, <2>1, Shapes
    <3> QED BY <3>1, <3>2
  <2>3. op = a /\ ((todo' = <<b>> \o ops /\ "SETUP" \in reg) \/ todo' = <<c>> \o ops)
    BY <1>1, <1>5, <2>2 DEF op
  <2>4. FlagCleared(reg, reg', {"CTR_RX"})
    BY <1>1, <2>1, <2>3
  <2>5. /\ "CTR_RX" \notin reg' /\ ~(StatRx \subseteq reg')
        /\ StatTx \subseteq reg' <=> StatTx \subseteq reg
        /\ "CTR_TX" \in reg' <=> "CTR_TX" \in reg
    BY <1>3, <1>5, <2>4 DEF FlagCleared
  <2>6. SentPending(ops)'
    BY <1>1, <2>5, SentKept
  <2>7. ReceivedPending(ops)'
    <3>1. CASE todo' = <<b>> \o ops /\ "SETUP" \in reg
      BY <1>5, <2>5, <3>1 DEF ReceivedPending
    <3>2. CASE todo' = <<c>> \o ops
      BY <2>5, <3>2 DEF ReceivedPending
    <3> QED BY <2>3, <3>1, <3>2
  <2> QED BY <2>5, <2>6, <2>7, RestKept
<1>6. ASSUME NEW what \in {"setup", "out"}, todo = <<Call(what)>> \o ops
      PROVE  FALSE
  <2>1. Call(what) \in Operations /\ Call(what).mask = {}
    BY CallFacts
  <2>2. op = Call(what)
    BY <1>2, <1>6, <2>1, Shapes DEF op
  <2> QED BY <1>1, <2>1, <2>2
<1> DEFINE st == StatTxSet("stall")
           sr == StatRxSet("stall")
           vr == StatRxSet("valid")
<1>7. /\ st \in Operations /\ st.name = "toggle_bits"
      /\ st.mask = StatTx /\ st.val # StatTx
      /\ sr \in Operations /\ sr.name = "toggle_bits"
      /\ sr.mask = StatRx /\ sr.val # StatRx
      /\ vr \in Operations /\ vr.name = "toggle_bits"
      /\ vr.mask = StatRx /\ vr.val = StatRx
  BY StatusOps, StatusFacts
<1>8. /\ Head(<<st, sr, vr>> \o ops) = st /\ Tail(<<st, sr, vr>> \o ops) = <<sr, vr>> \o ops
      /\ Head(<<sr, vr>> \o ops) = sr /\ Tail(<<sr, vr>> \o ops) = <<vr>> \o ops
      /\ Head(<<vr>> \o ops) = vr /\ Tail(<<vr>> \o ops) = ops
  <2> HIDE DEF st, sr, vr
  <2>1. Head(<<st, sr, vr>> \o ops) = st /\ Tail(<<st, sr, vr>> \o ops) = <<sr, vr>> \o ops
    BY <1>2, <1>7, Shapes
  <2>2. Head(<<sr, vr>> \o ops) = sr /\ Tail(<<sr, vr>> \o ops) = <<vr>> \o ops
    BY <1>2, <1>7, Shapes
  <2>3. Head(<<vr>> \o ops) = vr /\ Tail(<<vr>> \o ops) = ops
    BY <1>2, <1>7, Shapes
  <2> QED BY <2>1, <2>2, <2>3
<1>9. CASE /\ "CTR_RX" \notin reg /\ ~(StatRx \subseteq reg)
           /\ todo = <<st, sr, vr>> \o ops /\ ~(StatTx \subseteq reg)
  <2>1. op = st /\ todo' = <<sr, vr>> \o ops
    BY <1>1, <1>8, <1>9 DEF op
  <2>2. StatusSet(reg, reg', StatTx, st.val)
    BY <1>1, <1>7, <2>1
  <2>3. /\ "CTR_RX" \notin reg' /\ ~(StatRx \subseteq reg') /\ ~(StatTx \subseteq reg')
        /\ "CTR_TX" \in reg' <=> "CTR_TX" \in reg
    BY <1>3, <1>7, <1>9, <2>2 DEF StatusSet
  <2>4. SentPending(ops)'
    BY <1>1, <1>9, <2>3, SentKept
  <2>5. ReceivedPending(ops)'
    BY <2>1, <2>3 DEF ReceivedPending
  <2> QED BY <2>3, <2>4, <2>5, RestKept
<1>10. CASE /\ "CTR_RX" \notin reg /\ ~(StatRx \subseteq reg)
            /\ todo = <<sr, vr>> \o ops
  <2>1. op = sr /\ todo' = <<vr>> \o ops
    BY <1>1, <1>8, <1>10 DEF op
  <2>2. StatusSet(reg, reg', StatRx, sr.val)
    BY <1>1, <1>7, <2>1
  <2>3. /\ "CTR_RX" \notin reg' /\ ~(StatRx \subseteq reg')
        /\ StatTx \subseteq reg' <=> StatTx \subseteq reg
        /\ "CTR_TX" \in reg' <=> "CTR_TX" \in reg
    BY <1>3, <1>7, <1>10, <2>2 DEF StatusSet
  <2>4. SentPending(ops)'
    BY <1>1, <2>3, SentKept
  <2>5. ReceivedPending(ops)'
    BY <2>1, <2>3 DEF ReceivedPending
  <2> QED BY <2>3, <2>4, <2>5, RestKept
<1>11. CASE /\ "CTR_RX" \notin reg /\ ~(StatRx \subseteq reg)
            /\ todo = <<vr>> \o ops
  <2>1. op = vr /\ todo' = ops
    BY <1>1, <1>8, <1>11 DEF op
  <2>2. StatusSet(reg, reg', StatRx, StatRx)
    BY <1>1, <1>7, <2>1
  <2>3. /\ "CTR_RX" \notin reg'
        /\ StatTx \subseteq reg' <=> StatTx \subseteq reg
        /\ "CTR_TX" \in reg' <=> "CTR_TX" \in reg
    BY <1>3, <1>11, <2>2 DEF StatusSet
  <2>4. SentPending(ops)'
    BY <1>1, <2>3, SentKept
  <2>5. ReceivedPending(ops)'
    BY <2>1, <2>3 DEF ReceivedPending
  <2> QED BY <2>3, <2>4, <2>5, RestKept
<1> QED BY <1>4, <1>5, <1>6, <1>9, <1>10, <1>11 DEF ReceivedPending

LEMMA SingleWrite ==
    ASSUME RegisterInv, WriteRegister
    PROVE  SingleBuffered'
<1> SUFFICES ASSUME ~IsDbl, host_stage # "quiet" PROVE SingleBuffered'
  <2>1. role' = role /\ host_stage' = host_stage
    BY DEF WriteRegister, hostVars
  <2> QED BY <2>1 DEF SingleBuffered, IsDbl
<1>1. SingleBuffered
  BY DEF RegisterInv, AccessInv
<1>2. InUse' /\ ({"CTR_RX", "SETUP"} \subseteq reg' => ~(StatTx \subseteq reg'))
  <2>1. CASE Submitting
    BY <2>1, WriteSubmitting
  <2>2. CASE \E ops \in Rest : ReceivedPending(ops) /\ SentPending(ops)
    <3>1. PICK ops \in Rest : ReceivedPending(ops) /\ SentPending(ops)
      BY <2>2
    <3> QED BY <1>1, <3>1, WritePending DEF SingleBuffered
  <2> QED BY <1>1, <2>1, <2>2 DEF SingleBuffered, Rest
<1> QED BY <1>2 DEF SingleBuffered, InUse, Rest

----------------------------------------------------------------------------
(* The invariant is kept by a write.                                         *)

LEMMA PendingFacts ==
    ASSUME Typed, todo # <<>>, todo' = Tail(todo)
    PROVE  /\ Head(todo) \in Operations /\ todo' \in Seq(Operations)
           /\ Head(todo) \in Pending /\ Pending = {Head(todo)} \cup Pending'
           /\ todo' # todo
<1>1. todo \in Seq(Operations)
  BY DEF Typed
<1>2. /\ Head(todo) \in Operations /\ Tail(todo) \in Seq(Operations)
      /\ Elements(todo) = {Head(todo)} \cup Elements(Tail(todo)) /\ Tail(todo) # todo
  BY <1>1, HeadTailFacts
<1>3. Pending = Elements(todo) /\ Pending' = Elements(todo')
  BY DEF Pending, Elements
<1> QED BY <1>2, <1>3

LEMMA WriteInv ==
    ASSUME RegisterInv, WriteRegister
    PROVE  RegisterInv'
<1> DEFINE op == Head(todo)
<1>1. Typed /\ OperationsFit /\ EndpointTyped /\ QuietSetup
  BY DEF RegisterInv, AccessInv
<1>2. /\ Fits(op) /\ op.mask # {} /\ todo' = Tail(todo) /\ latch' = NotRead
  BY WriteEffect
<1>3. /\ reg' \in SUBSET RegisterBits
      /\ reg' \cap RwBits = IF op.name = "set_all_rw_bits" THEN TypeBits(role)
                                                       ELSE reg \cap RwBits
      /\ reg' \cap CtrBits \subseteq reg \cap CtrBits
      /\ "SETUP" \in reg' <=> "SETUP" \in reg
      /\ ~masked => reg' = Intended(op, reg)
  BY WriteKeeps
<1>4. /\ todo # <<>> /\ role' = role /\ host_stage' = host_stage /\ ep_state_tx' = ep_state_tx
      /\ ep_outstanig_rx_acks' = ep_outstanig_rx_acks
      /\ masked' = MaskedAfterWrite(reg', ValueToWrite(op, latch))
  BY DEF WriteRegister, driverVars, hostVars
<1>5. op \in Operations /\ todo' \in Seq(Operations) /\ Pending = {op} \cup Pending'
  BY <1>1, <1>2, <1>4, PendingFacts
<1>6. /\ TypeBits(role) \subseteq RwBits /\ TypeBits(role) # {}
      /\ "KIND" \in TypeBits(role) => IsDbl
  BY <1>1, TypeBitsFacts DEF Typed
<1>7. masked' \in BOOLEAN /\ (masked' => "KIND" \in reg')
  BY <1>1, <1>4 DEF MaskedAfterWrite, NoFreeBuffer, Valid, Typed
<1> HIDE DEF op
<1>8. Typed'
  BY <1>1, <1>3, <1>4, <1>5, <1>7 DEF Typed
<1>9. OperationsFit'
  <2> SUFFICES ASSUME NEW p \in Pending' PROVE Fits(p)'
    BY DEF OperationsFit
  <2>1. Fits(p)
    BY <1>1, <1>5 DEF OperationsFit
  <2> QED BY <1>3, <1>4, <2>1, FitKept
<1>10. EndpointTyped'
  <2>1. reg' \cap RwBits \in {{}, TypeBits(role)}
    BY <1>1, <1>3 DEF EndpointTyped
  <2>2. reg' \cap RwBits # TypeBits(role) =>
           host_stage = "quiet" /\ \E p \in Pending' : p.name = "set_all_rw_bits"
    BY <1>1, <1>3, <1>5 DEF EndpointTyped
  <2>3. masked' => IsDbl
    <3>1. "KIND" \in RwBits
      BY DEF RwBits
    <3> QED BY <1>6, <1>7, <2>1, <3>1
  <2>4. "CTR_RX" \in reg' => "CTR_RX" \in reg
    BY <1>3 DEF CtrBits
  <2> QED BY <1>1, <1>3, <1>4, <2>1, <2>2, <2>3, <2>4 DEF EndpointTyped, IsDbl
<1>11. LatchIsGood'
  BY <1>2 DEF LatchIsGood, NotRead
<1>12. QuietSetup'
  <2>1. ASSUME IsDbl, host_stage # "quiet"
        PROVE  \A p \in Pending' : p.name # "toggle_bits"
    BY <1>1, <1>5, <2>1 DEF QuietSetup
  <2>2. ASSUME host_stage = "quiet"
        PROVE  reg' \cap CtrBits = {} /\ \A p \in Pending' : p.mask # {}
    BY <1>1, <1>3, <1>5, <2>2 DEF QuietSetup
  <2>3. ASSUME host_stage = "quiet", ~IsDbl
        PROVE  /\ ep_state_tx' = sgl_buf_0_pkts
               /\ \A p \in Pending' : p.mask = StatTx => p.val # StatTx
    BY <1>1, <1>4, <1>5, <2>3 DEF QuietSetup
  <2>4. ASSUME host_stage = "quiet", ~IsDbl, StatTx \subseteq reg'
        PROVE  \E p \in Pending' : p.mask = StatTx
    <3>1. /\ op.name = "toggle_bits" => StatusSet(reg, reg', op.mask, op.val)
          /\ op.name = "ctr_clear" => FlagCleared(reg, reg', op.mask)
      BY <2>4, SingleAccess DEF op
    <3>2. op.mask # StatTx
      <4> SUFFICES ASSUME op.mask = StatTx PROVE FALSE
        OBVIOUS
      <4>1. op.val # StatTx
        BY <1>1, <1>5, <2>4 DEF QuietSetup
      <4>2. op.name = "toggle_bits"
        <5>1. StatTx # {"CTR_RX"} /\ StatTx # {"CTR_TX"} /\ StatTx # RwBits
          BY DEF StatTx, RwBits
        <5> QED BY <1>2, <2>4, <5>1 DEF Fits
      <4> QED BY <2>4, <3>1, <4>1, <4>2 DEF StatusSet
    <3>3. StatTx \subseteq reg
      <4>1. CASE op.name = "toggle_bits"
        BY <2>4, <3>1, <3>2, <4>1 DEF StatusSet
      <4>2. CASE op.name = "ctr_clear"
        BY <2>4, <3>1, <4>2 DEF FlagCleared
      <4>3. CASE op.name = "set_all_rw_bits"
        <5>1. reg' = (reg \ RwBits) \cup TypeBits(role)
          <6>1. ~masked
            BY <1>1, <2>4 DEF EndpointTyped
          <6> QED BY <1>2, <1>3, <4>3, <6>1 DEF Fits, Intended
        <5>2. StatTx \cap RwBits = {}
          BY BitFacts, Kinds
        <5> QED BY <1>6, <2>4, <5>1, <5>2
      <4> QED BY <1>2, <2>4, <4>1, <4>2, <4>3 DEF Fits
    <3>4. \E p \in Pending : p.mask = StatTx
      BY <1>1, <2>4, <3>3 DEF QuietSetup
    <3> QED BY <1>5, <3>2, <3>4
  <2> QED BY <1>4, <2>1, <2>2, <2>3, <2>4 DEF QuietSetup, IsDbl
<1> QED BY <1>8, <1>9, <1>10, <1>11, <1>12, SingleWrite DEF RegisterInv, AccessInv

----------------------------------------------------------------------------
(* The invariant is kept by the driver's other steps.                        *)

\* Reading the register.
LEMMA ReadInv ==
    ASSUME RegisterInv, ReadRegister
    PROVE  RegisterInv'
<1>1. /\ todo # <<>> /\ Head(todo).reads /\ latch' = Visible
      /\ UNCHANGED <<role, reg, masked, todo, ep_state_tx, ep_outstanig_rx_acks, host_stage>>
  BY DEF ReadRegister, driverVars, hostVars
<1>2. Typed /\ OperationsFit /\ EndpointTyped /\ QuietSetup /\ SingleBuffered
  BY DEF RegisterInv, AccessInv
<1>3. Typed'
  BY <1>1, <1>2 DEF Typed
<1>4. Pending' = Pending /\ IsDbl' = IsDbl /\ Visible' = Visible
  BY <1>1 DEF Pending, IsDbl, Visible
<1>5. OperationsFit'
  BY <1>1, <1>2, <1>4, FitKept DEF OperationsFit
<1>6. EndpointTyped'
  BY <1>1, <1>2, <1>4 DEF EndpointTyped
<1>7. QuietSetup'
  BY <1>1, <1>2, <1>4 DEF QuietSetup
<1>8. SingleBuffered'
  BY <1>1, <1>2, <1>4 DEF SingleBuffered, Submitting, ReceivedPending, SentPending
<1>9. LatchIsGood'
  <2>1. Visible \cap RwBits = reg \cap RwBits
    BY <1>2, VisibleFacts
  <2> QED BY <1>1, <1>4, <2>1 DEF LatchIsGood
<1> QED BY <1>3, <1>5, <1>6, <1>7, <1>8, <1>9 DEF RegisterInv, AccessInv

\* A step that does not access the register, between two operations, and what it has to
\* show of the operations to come.
DriverStep ==
    /\ UNCHANGED <<role, reg, masked, latch>>
    /\ latch = NotRead
    /\ reg \cap RwBits = TypeBits(role)
    /\ todo' \in Seq(Operations) /\ ep_outstanig_rx_acks' \in Nat
    /\ role # "control" => host_stage' \in {"quiet", "idle"}

LEMMA StepInv ==
    ASSUME RegisterInv, DriverStep,
           \A op \in Pending' : Fits(op), QuietSetup', SingleBuffered'
    PROVE  RegisterInv'
<1>1. Typed /\ EndpointTyped
  BY DEF RegisterInv, AccessInv
<1>2. Typed'
  BY <1>1 DEF Typed, DriverStep
<1>3. OperationsFit'
  BY FitKept DEF OperationsFit, DriverStep
<1>4. EndpointTyped'
  BY <1>1 DEF EndpointTyped, DriverStep, IsDbl
<1>5. LatchIsGood'
  BY DEF LatchIsGood, DriverStep
<1> QED BY <1>2, <1>3, <1>4, <1>5 DEF RegisterInv, AccessInv

\* Nothing is under way.
LEMMA NothingToDo ==
    ASSUME RegisterInv, todo = <<>>
    PROVE  /\ Pending = {} /\ latch = NotRead /\ reg \cap RwBits = TypeBits(role)
           /\ ~IsDbl /\ host_stage # "quiet" =>
                 ("CTR_RX" \in reg => ~(StatRx \subseteq reg)) /\ SentPending(<<>>)
<1>1. Typed /\ EndpointTyped /\ LatchIsGood /\ SingleBuffered
  BY DEF RegisterInv, AccessInv
<1>2. Pending = {}
  BY DEF Pending
<1>3. latch = NotRead /\ reg \cap RwBits = TypeBits(role)
  BY <1>1, <1>2 DEF LatchIsGood, EndpointTyped
<1>4. ASSUME ~IsDbl, host_stage # "quiet"
      PROVE  ("CTR_RX" \in reg => ~(StatRx \subseteq reg)) /\ SentPending(<<>>)
  <2>1. ~Submitting
    BY DEF Submitting
  <2>2. PICK ops \in Rest : ReceivedPending(ops) /\ SentPending(ops)
    BY <1>1, <1>4, <2>1 DEF SingleBuffered, Rest
  <2>3. /\ \A a \in Operations : <<a>> \o ops # <<>>
        /\ \A a, b \in Operations : <<a, b>> \o ops # <<>>
    BY RestFacts, ConsFacts, PairConcat
  <2>4. \A a, b, c \in Operations : <<a, b, c>> \o ops # <<>>
    BY RestFacts, ConsFacts, PairConcat, TripleConcat
  <2>5. /\ Call("setup") \in Operations /\ Call("out") \in Operations
        /\ CtrRxClear \in Operations /\ StatTxSet("stall") \in Operations
        /\ StatRxSet("stall") \in Operations /\ StatRxSet("valid") \in Operations
    BY CallFacts, ClearFacts, StatusOps
  <2>6. todo = ops /\ ("CTR_RX" \in reg => ~(StatRx \subseteq reg))
    BY <2>2, <2>3, <2>4, <2>5 DEF ReceivedPending
  <2> QED BY <2>2, <2>6
<1> QED BY <1>2, <1>3, <1>4

\* A callback is next.
LEMMA CallNext ==
    ASSUME RegisterInv, NEW what \in {"setup", "out", "in"}, NextIs(what)
    PROVE  /\ latch = NotRead /\ host_stage # "quiet" /\ reg \cap RwBits = TypeBits(role)
           /\ Tail(todo) \in Seq(Operations) /\ todo # <<>>
           /\ \A op \in Elements(Tail(todo)) : op \in Pending /\ Fits(op)
           /\ IsDbl => what # "setup"
<1>1. Typed /\ OperationsFit /\ EndpointTyped /\ LatchIsGood /\ QuietSetup
  BY DEF RegisterInv, AccessInv
<1>2. todo # <<>> /\ todo \in Seq(Operations) /\ Head(todo).name = what
  BY <1>1 DEF NextIs, Typed
<1>3. /\ Tail(todo) \in Seq(Operations)
      /\ Elements(todo) = {Head(todo)} \cup Elements(Tail(todo))
  BY <1>2, HeadTailFacts
<1>4. Elements(todo) = Pending
  BY DEF Elements, Pending
<1>5. \A op \in Elements(todo) : Fits(op)
  BY <1>1, <1>4 DEF OperationsFit
<1>6. Fits(Head(todo)) /\ Head(todo) \in Pending
  BY <1>3, <1>4, <1>5
<1>7. Head(todo).mask = {} /\ ~Head(todo).reads /\ (IsDbl => what # "setup")
  BY <1>2, <1>6 DEF Fits
<1>8. latch = NotRead
  BY <1>1, <1>7 DEF LatchIsGood
<1>9. host_stage # "quiet"
  BY <1>1, <1>6, <1>7 DEF QuietSetup
<1>10. reg \cap RwBits = TypeBits(role)
  BY <1>1, <1>9 DEF EndpointTyped
<1> QED BY <1>2, <1>3, <1>4, <1>5, <1>7, <1>8, <1>9, <1>10

\* What is left after it at a single-buffered endpoint.
LEMMA CallSingle ==
    ASSUME RegisterInv, ~IsDbl, NEW what \in {"setup", "out", "in"}, NextIs(what)
    PROVE  \E ops \in Rest :
              /\ SentPending(ops)
              /\ \/ /\ what \in {"setup", "out"} /\ Tail(todo) = ops
                    /\ "CTR_RX" \notin reg /\ ~(StatRx \subseteq reg)
                    /\ what = "setup" => ~(StatTx \subseteq reg)
                 \/ /\ what = "in" /\ ops = <<Call("in")>> /\ Tail(todo) = <<>>
                    /\ "CTR_RX" \in reg => ~(StatRx \subseteq reg)
<1> DEFINE vt == StatTxSet("valid")
           st == StatTxSet("stall")
           sr == StatRxSet("stall")
           vr == StatRxSet("valid")
           cr == CtrRxClear
           ct == CtrTxClear
<1>1. SingleBuffered /\ host_stage # "quiet" /\ todo # <<>>
  BY CallNext DEF RegisterInv, AccessInv
<1>2. Head(todo).name = what
  BY DEF NextIs
<1>3. /\ vt \in Operations /\ vt.name = "toggle_bits"
      /\ st \in Operations /\ st.name = "toggle_bits"
      /\ sr \in Operations /\ sr.name = "toggle_bits"
      /\ vr \in Operations /\ vr.name = "toggle_bits"
      /\ cr \in Operations /\ cr.name = "ctr_clear"
      /\ ct \in Operations /\ ct.name = "ctr_clear"
  BY StatusOps, ClearFacts
<1>4. \A w \in {"setup", "out", "in"} : Call(w) \in Operations /\ Call(w).name = w
  BY CallFacts
<1>5. what # "toggle_bits" /\ what # "ctr_clear"
  OBVIOUS
<1>6. ~Submitting
  <2>1. /\ todo = <<vt>> => Head(todo) = vt
        /\ todo = <<vt, vr>> => Head(todo) = vt
    <3> HIDE DEF vt, vr
    <3> QED BY <1>3, Shapes
  <2> QED BY <1>2, <1>3, <1>5, <2>1 DEF Submitting
<1>7. PICK ops \in Rest : ReceivedPending(ops) /\ SentPending(ops)
  BY <1>1, <1>6 DEF SingleBuffered, Rest
<1>8. ops \in Seq(Operations)
  BY RestFacts
<1>9. CASE todo = ops /\ ("CTR_RX" \in reg => ~(StatRx \subseteq reg))
  <2> DEFINE b == Call("in")
  <2>1. b \in Operations /\ b.name = "in"
    BY <1>4
  <2>2. Head(<<ct, b>>) = ct /\ Head(<<b>>) = b /\ Tail(<<b>>) = <<>>
    <3> HIDE DEF ct, b
    <3> QED BY <1>3, <2>1, Shapes
  <2>3. ops = <<b>>
    BY <1>1, <1>2, <1>3, <1>5, <1>9, <2>2 DEF Rest
  <2>4. what = "in" /\ Tail(todo) = <<>>
    BY <1>2, <1>9, <2>1, <2>2, <2>3
  <2> QED BY <1>7, <1>9, <2>3, <2>4
<1>10. ASSUME NEW w \in {"setup", "out"}, todo = <<Call(w)>> \o ops,
              "CTR_RX" \notin reg, ~(StatRx \subseteq reg),
              w = "setup" => ~(StatTx \subseteq reg)
       PROVE  /\ what \in {"setup", "out"} /\ Tail(todo) = ops
              /\ what = "setup" => ~(StatTx \subseteq reg)
  <2>1. Head(<<Call(w)>> \o ops) = Call(w) /\ Tail(<<Call(w)>> \o ops) = ops
    BY <1>4, <1>8, Shapes
  <2> QED BY <1>2, <1>4, <1>10, <2>1
<1>11. ASSUME NEW w \in {"setup", "out"}, todo = <<cr, Call(w)>> \o ops
       PROVE  FALSE
  <2> DEFINE b == Call(w)
  <2>1. Head(<<cr, b>> \o ops) = cr
    <3>1. b \in Operations
      BY <1>4
    <3> HIDE DEF cr, b
    <3> QED BY <1>3, <1>8, <3>1, Shapes
  <2> QED BY <1>2, <1>3, <1>5, <1>11, <2>1
<1>12. todo # <<st, sr, vr>> \o ops /\ todo # <<sr, vr>> \o ops /\ todo # <<vr>> \o ops
  <2>1. Head(<<st, sr, vr>> \o ops) = st
    <3> HIDE DEF st, sr, vr
    <3> QED BY <1>3, <1>8, Shapes
  <2>2. Head(<<sr, vr>> \o ops) = sr
    <3> HIDE DEF st, sr, vr
    <3> QED BY <1>3, <1>8, Shapes
  <2>3. Head(<<vr>> \o ops) = vr
    <3> HIDE DEF st, sr, vr
    <3> QED BY <1>3, <1>8, Shapes
  <2> QED BY <1>2, <1>3, <1>5, <2>1, <2>2, <2>3
<1>13. CASE ~(StatRx \subseteq reg) /\ "CTR_RX" \notin reg
            /\ ((todo = <<Call("setup")>> \o ops /\ ~(StatTx \subseteq reg))
                \/ todo = <<Call("out")>> \o ops)
  <2>1. /\ what \in {"setup", "out"} /\ Tail(todo) = ops
        /\ what = "setup" => ~(StatTx \subseteq reg)
    BY <1>10, <1>13
  <2> QED BY <1>7, <1>13, <2>1
<1> QED BY <1>7, <1>9, <1>11, <1>12, <1>13 DEF ReceivedPending

\* A few operations, and operations before others.
LEMMA TupleFacts ==
    ASSUME NEW a \in Operations, NEW b \in Operations
    PROVE  /\ <<a>> \in Seq(Operations) /\ Elements(<<a>>) = {a}
           /\ <<a, b>> \in Seq(Operations) /\ Elements(<<a, b>>) = {a, b}
<1>1. <<a>> \in Seq(Operations) /\ Elements(<<a>>) = {a}
  BY DEF Elements
<1>2. <<a, b>> \in Seq(Operations) /\ Elements(<<a, b>>) = {a, b}
  BY DEF Elements
<1> QED BY <1>1, <1>2

LEMMA PairBefore ==
    ASSUME NEW a \in Operations, NEW b \in Operations, NEW s \in Seq(Operations)
    PROVE  /\ <<a, b>> \o s \in Seq(Operations)
           /\ Elements(<<a, b>> \o s) = {a, b} \cup Elements(s)
<1>1. /\ <<a>> \o s \in Seq(Operations) /\ Elements(<<a>> \o s) = {a} \cup Elements(s)
      /\ <<b>> \o s \in Seq(Operations) /\ Elements(<<b>> \o s) = {b} \cup Elements(s)
  BY ConsFacts
<1>2. /\ <<a>> \o (<<b>> \o s) \in Seq(Operations)
      /\ Elements(<<a>> \o (<<b>> \o s)) = {a} \cup Elements(<<b>> \o s)
  <2> DEFINE q == <<b>> \o s
  <2>1. q \in Seq(Operations)
    BY <1>1
  <2> HIDE DEF q
  <2>2. <<a>> \o q \in Seq(Operations) /\ Elements(<<a>> \o q) = {a} \cup Elements(q)
    BY <2>1, ConsFacts
  <2> QED BY <2>2 DEF q
<1>3. <<a, b>> \o s = <<a>> \o (<<b>> \o s)
  BY PairConcat
<1> QED BY <1>1, <1>2, <1>3

LEMMA ElementsPrimed ==
    Pending' = Elements(todo')
BY DEF Pending, Elements

\* In use, no status is set at a double-buffered endpoint: what is left over a step.
LEMMA UsedPending ==
    ASSUME RegisterInv, host_stage # "quiet", host_stage' # "quiet", role' = role,
           IsDbl => \A op \in Pending' : op \in Pending \/ op.name # "toggle_bits"
    PROVE  QuietSetup'
BY DEF RegisterInv, AccessInv, QuietSetup, IsDbl

\* The callback for a packet sent.
LEMMA HandleInInv ==
    ASSUME RegisterInv, HandleIn
    PROVE  RegisterInv'
<1>1. /\ NextIs("in") /\ todo' = Tail(todo)
      /\ ep_state_tx' = IF ep_state_tx \in {sgl_buf_0_pkts, dbl_buf_en_0_pkts}
                        THEN ep_state_tx ELSE ep_state_tx - 1
      /\ UNCHANGED <<role, reg, masked, latch, ep_outstanig_rx_acks, host_stage>>
  BY DEF HandleIn, hostVars
<1>2. Typed
  BY DEF RegisterInv
<1>3. /\ latch = NotRead /\ host_stage # "quiet" /\ reg \cap RwBits = TypeBits(role)
      /\ Tail(todo) \in Seq(Operations)
      /\ \A op \in Elements(Tail(todo)) : op \in Pending /\ Fits(op)
  BY <1>1, CallNext
<1>4. DriverStep
  BY <1>1, <1>2, <1>3 DEF DriverStep, Typed, RegisterInv, AccessInv, EndpointTyped
<1>5. \A op \in Pending' : op \in Pending /\ Fits(op)
  BY <1>1, <1>3, ElementsPrimed
<1>6. QuietSetup'
  BY <1>1, <1>3, <1>5, UsedPending
<1>7. SingleBuffered'
  <2> SUFFICES ASSUME ~IsDbl PROVE SingleBuffered'
    BY <1>1 DEF SingleBuffered, IsDbl
  <2>1. /\ SentPending(<<Call("in")>>) /\ Tail(todo) = <<>>
        /\ "CTR_RX" \in reg => ~(StatRx \subseteq reg)
    BY <1>1, CallSingle
  <2>2. <<Call("in")>> # <<>> /\ <<Call("in")>> # <<CtrTxClear, Call("in")>>
    OBVIOUS
  <2>3. ep_state_tx = sgl_buf_1_pkt /\ ~(StatTx \subseteq reg) /\ "CTR_TX" \notin reg
    BY <2>1, <2>2 DEF SentPending
  <2>4. ep_state_tx' = sgl_buf_0_pkts
    BY <1>1, <2>3 DEF sgl_buf_0_pkts, sgl_buf_1_pkt, dbl_buf_en_0_pkts
  <2>5. SentPending(<<>>)'
    BY <1>1, <2>3, <2>4 DEF SentPending
  <2>6. ReceivedPending(<<>>)'
    BY <1>1, <2>1 DEF ReceivedPending
  <2>7. InUse'
    BY <2>5, <2>6, RestKept DEF Rest
  <2> QED BY <1>1, <2>3, <2>7 DEF SingleBuffered, InUse, Rest
<1> QED BY <1>4, <1>5, <1>6, <1>7, StepInv

\* The callback for a packet of a double-buffered OUT endpoint.
LEMMA HandleBulkOutInv ==
    ASSUME RegisterInv, NEW pause \in BOOLEAN, HandleBulkOut(pause)
    PROVE  RegisterInv'
<1> DEFINE give == SwBufToggle(SW_BUF_RX)
<1>1. /\ NextIs("out") /\ role = "bulk_out"
      /\ todo' = <<>> \o Tail(todo) \/ todo' = <<give>> \o Tail(todo)
      /\ ep_outstanig_rx_acks' \in {ep_outstanig_rx_acks + 0, ep_outstanig_rx_acks + 1}
      /\ UNCHANGED <<role, reg, masked, latch, host_stage>>
  BY DEF HandleBulkOut, hostVars
<1>2. Typed /\ IsDbl
  BY <1>1 DEF RegisterInv, IsDbl
<1>3. /\ latch = NotRead /\ host_stage # "quiet" /\ reg \cap RwBits = TypeBits(role)
      /\ Tail(todo) \in Seq(Operations)
      /\ \A op \in Elements(Tail(todo)) : op \in Pending /\ Fits(op)
  BY <1>1, CallNext
<1>4. /\ give \in Operations /\ give.name = "sw_buf_toggle" /\ ~give.reads
      /\ give.val = {} /\ give.mask = {SW_BUF_RX}
  BY BufferFacts
<1>5. Fits(give)
  BY <1>2, <1>3, <1>4 DEF Fits
<1> HIDE DEF give
<1>6. todo' \in Seq(Operations) /\ Elements(todo') \subseteq {give} \cup Elements(Tail(todo))
  <2> DEFINE s == Tail(todo)
  <2>1. s \in Seq(Operations)
    BY <1>3
  <2> HIDE DEF s
  <2>2. <<>> \o s = s
    BY <2>1, EmptyFacts
  <2>3. <<give>> \o s \in Seq(Operations) /\ Elements(<<give>> \o s) = {give} \cup Elements(s)
    BY <1>4, <2>1, ConsFacts
  <2>4. todo' = s \/ todo' = <<give>> \o s
    BY <1>1, <2>2 DEF s
  <2>5. todo' \in Seq(Operations) /\ Elements(todo') \subseteq {give} \cup Elements(s)
    BY <2>1, <2>3, <2>4
  <2> QED BY <2>5 DEF s
<1>7. DriverStep
  <2>1. ep_outstanig_rx_acks' \in Nat
    BY <1>1, <1>2 DEF Typed
  <2> QED BY <1>1, <1>2, <1>3, <1>6, <2>1
          DEF DriverStep, RegisterInv, AccessInv, EndpointTyped
<1>8. \A op \in Pending' : Fits(op) /\ (op \in Pending \/ op.name # "toggle_bits")
  BY <1>3, <1>4, <1>5, <1>6, ElementsPrimed
<1>9. QuietSetup'
  BY <1>1, <1>3, <1>8, UsedPending
<1>10. SingleBuffered'
  BY <1>1, <1>2 DEF SingleBuffered, IsDbl
<1> QED BY <1>7, <1>8, <1>9, <1>10, StepInv

LEMMA StatusFit ==
    ASSUME NEW status \in {"disabled", "stall", "nak", "valid"}
    PROVE  Fits(StatTxSet(status)) /\ Fits(StatRxSet(status))
<1> DEFINE t == StatTxSet(status)
           r == StatRxSet(status)
<1>1. /\ t.name = "toggle_bits" /\ t.reads /\ t.mask = StatTx /\ t.val = TxStatus(status)
      /\ r.name = "toggle_bits" /\ r.reads /\ r.mask = StatRx /\ r.val = RxStatus(status)
  BY StatusOps
<1>2. RxStatus(status) \subseteq StatRx /\ TxStatus(status) \subseteq StatTx
  BY StatusFacts
<1> HIDE DEF t, r
<1>3. Fits(t) /\ Fits(r)
  BY <1>1, <1>2 DEF Fits
<1> QED BY <1>3 DEF t, r

\* What a handler of endpoint 0 leaves to do.
LEMMA JoinedOne ==
    ASSUME NEW a
    PROVE  <<>> \o <<a>> = <<a>>
OBVIOUS

LEMMA JoinedTwo ==
    ASSUME NEW a, NEW b
    PROVE  <<a>> \o <<b>> = <<a, b>>
<1> DEFINE x == <<a>> \o <<b>>
           y == <<a, b>>
           S == {a, b}
<1>1. x[1] = y[1] /\ x[2] = y[2]
  OBVIOUS
<1>2. <<a>> \in Seq(S) /\ <<b>> \in Seq(S) /\ y \in Seq(S) /\ Len(y) = 2
  OBVIOUS
<1>3. x \in Seq(S) /\ Len(x) = 2
  BY <1>2
<1> HIDE DEF x, y, S
<1>4. \A i \in 1 .. 2 : x[i] = y[i]
  BY <1>1
<1>5. x = y
  BY <1>2, <1>3, <1>4, 2 \in Nat, SameSequence
<1> QED BY <1>5 DEF x, y

LEMMA JoinedThree ==
    ASSUME NEW a, NEW b, NEW c
    PROVE  <<a, b>> \o <<c>> = <<a, b, c>>
<1> DEFINE x == <<a, b>> \o <<c>>
           y == <<a, b, c>>
           S == {a, b, c}
<1>1. x[1] = y[1] /\ x[2] = y[2] /\ x[3] = y[3]
  OBVIOUS
<1>2. <<a, b>> \in Seq(S) /\ <<c>> \in Seq(S) /\ y \in Seq(S) /\ Len(y) = 3
  OBVIOUS
<1>3. x \in Seq(S) /\ Len(x) = 3
  BY <1>2
<1> HIDE DEF x, y, S
<1>4. \A i \in 1 .. 3 : x[i] = y[i]
  BY <1>1
<1>5. x = y
  BY <1>2, <1>3, <1>4, 3 \in Nat, SameSequence
<1> QED BY <1>5 DEF x, y

LEMMA TripleBefore ==
    ASSUME NEW a \in Operations, NEW b \in Operations, NEW c \in Operations,
           NEW s \in Seq(Operations)
    PROVE  /\ <<a, b, c>> \o s \in Seq(Operations)
           /\ Elements(<<a, b, c>> \o s) = {a, b, c} \cup Elements(s)
<1> DEFINE q == <<b, c>> \o s
<1>1. q \in Seq(Operations) /\ Elements(q) = {b, c} \cup Elements(s)
  BY PairBefore
<1>2. <<a, b, c>> \o s = <<a>> \o q
  BY TripleConcat
<1> HIDE DEF q
<1>3. <<a>> \o q \in Seq(Operations) /\ Elements(<<a>> \o q) = {a} \cup Elements(q)
  BY <1>1, ConsFacts
<1> QED BY <1>1, <1>2, <1>3

\* A packet received on endpoint 0 is answered, or a request refused, and receiving is
\* enabled again.
Response(what) ==
    /\ UNCHANGED <<role, reg, masked, latch, ep_outstanig_rx_acks, host_stage>>
    /\ \/ /\ CanTransmit /\ ep_state_tx' = sgl_buf_1_pkt
          /\ todo' = <<StatTxSet("valid")>> \o <<StatRxSet("valid")>> \o Tail(todo)
       \/ /\ ep_state_tx' = ep_state_tx
          /\ todo' = <<>> \o <<StatRxSet("valid")>> \o Tail(todo)
       \/ /\ ep_state_tx' = ep_state_tx /\ what = "setup"
          /\ todo' = <<StatTxSet("stall"), StatRxSet("stall")>> \o <<StatRxSet("valid")>>
                     \o Tail(todo)

LEMMA ResponseInv ==
    ASSUME RegisterInv, ~IsDbl, NEW what \in {"setup", "out"}, NextIs(what), Response(what)
    PROVE  RegisterInv'
<1> DEFINE vt == StatTxSet("valid")
           st == StatTxSet("stall")
           sr == StatRxSet("stall")
           vr == StatRxSet("valid")
           s == Tail(todo)
<1>1. UNCHANGED <<role, reg, masked, latch, ep_outstanig_rx_acks, host_stage>> /\ Typed
  BY DEF Response, RegisterInv
<1>2. /\ latch = NotRead /\ host_stage # "quiet" /\ reg \cap RwBits = TypeBits(role)
      /\ s \in Seq(Operations)
      /\ \A op \in Elements(s) : op \in Pending /\ Fits(op)
  BY CallNext
<1>3. PICK ops \in Rest :
         /\ SentPending(ops) /\ s = ops
         /\ "CTR_RX" \notin reg /\ ~(StatRx \subseteq reg)
         /\ what = "setup" => ~(StatTx \subseteq reg)
  BY CallSingle
<1>4. /\ vt \in Operations /\ st \in Operations /\ sr \in Operations /\ vr \in Operations
      /\ Fits(vt) /\ Fits(st) /\ Fits(sr) /\ Fits(vr)
  BY StatusOps, StatusFit
<1>5. \/ /\ CanTransmit /\ ep_state_tx' = sgl_buf_1_pkt
         /\ todo' = <<vt, vr>> \o s
      \/ /\ ep_state_tx' = ep_state_tx
         /\ todo' = <<vr>> \o s
      \/ /\ ep_state_tx' = ep_state_tx /\ what = "setup"
         /\ todo' = <<st, sr, vr>> \o s
  <2>1. /\ <<>> \o <<vr>> \o s = <<vr>> \o s
        /\ <<vt>> \o <<vr>> \o s = <<vt, vr>> \o s
        /\ <<st, sr>> \o <<vr>> \o s = <<st, sr, vr>> \o s
    <3> HIDE DEF vt, st, sr, vr, s
    <3>1. <<>> \o <<vr>> = <<vr>>
      BY JoinedOne
    <3>2. <<vt>> \o <<vr>> = <<vt, vr>>
      BY JoinedTwo
    <3>3. <<st, sr>> \o <<vr>> = <<st, sr, vr>>
      BY JoinedThree
    <3> QED BY <3>1, <3>2, <3>3
  <2> QED BY <2>1 DEF Response
<1>6. /\ todo' \in Seq(Operations)
      /\ Elements(todo') \subseteq {vt, st, sr, vr} \cup Elements(s)
  <2> HIDE DEF vt, st, sr, vr, s
  <2>1. /\ <<vr>> \o s \in Seq(Operations)
        /\ Elements(<<vr>> \o s) = {vr} \cup Elements(s)
    BY <1>2, <1>4, ConsFacts
  <2>2. /\ <<vt, vr>> \o s \in Seq(Operations)
        /\ Elements(<<vt, vr>> \o s) = {vt, vr} \cup Elements(s)
    BY <1>2, <1>4, PairBefore
  <2>3. /\ <<st, sr, vr>> \o s \in Seq(Operations)
        /\ Elements(<<st, sr, vr>> \o s) = {st, sr, vr} \cup Elements(s)
    BY <1>2, <1>4, TripleBefore
  <2> QED BY <1>5, <2>1, <2>2, <2>3
<1>7. DriverStep
  BY <1>1, <1>2, <1>6 DEF DriverStep, Typed, RegisterInv, AccessInv, EndpointTyped
<1>8. \A op \in Pending' : Fits(op)
  <2> HIDE DEF vt, st, sr, vr, s
  <2> QED BY <1>2, <1>4, <1>6, ElementsPrimed
<1>9. QuietSetup'
  BY <1>1, <1>2, UsedPending
<1>10. SingleBuffered'
  <2>1. CASE CanTransmit /\ ep_state_tx' = sgl_buf_1_pkt /\ todo' = <<vt, vr>> \o s
    <3>1. ops = <<>> /\ ~(StatTx \subseteq reg) /\ "CTR_TX" \notin reg
      BY <1>3, <2>1 DEF SentPending, CanTransmit
    <3>2. todo' = <<vt, vr>>
      <4>1. \A x \in Seq(Operations) : x \o <<>> = x
        OBVIOUS
      <4>2. <<vt, vr>> \in Seq(Operations)
        <5> HIDE DEF vt, vr
        <5> QED BY <1>4, <4>1, EmptyFacts, PairBefore
      <4>3. <<vt, vr>> \o <<>> = <<vt, vr>>
        <5> HIDE DEF vt, vr
        <5> QED BY <4>1, <4>2
      <4> QED BY <1>3, <2>1, <3>1, <4>3
    <3>3. Submitting'
      BY <1>1, <1>3, <2>1, <3>1, <3>2 DEF Submitting
    <3> QED BY <1>1, <1>3, <3>3 DEF SingleBuffered
  <2>2. CASE ep_state_tx' = ep_state_tx
    <3>1. SentPending(ops)'
      BY <1>1, <1>3, <2>2, SentKept
    <3>2. CASE todo' = <<vr>> \o s
      <4>1. ReceivedPending(ops)'
        BY <1>1, <1>3, <3>2 DEF ReceivedPending
      <4> QED BY <1>1, <1>3, <3>1, <4>1, RestKept DEF SingleBuffered, InUse, Rest
    <3>3. CASE what = "setup" /\ todo' = <<st, sr, vr>> \o s
      <4>1. ReceivedPending(ops)'
        BY <1>1, <1>3, <3>3 DEF ReceivedPending
      <4> QED BY <1>1, <1>3, <3>1, <4>1, RestKept DEF SingleBuffered, InUse, Rest
    <3>4. CASE CanTransmit /\ ep_state_tx' = sgl_buf_1_pkt /\ todo' = <<vt, vr>> \o s
      BY <2>1, <3>4
    <3> QED BY <1>5, <3>2, <3>3, <3>4
  <2> QED BY <1>5, <2>1, <2>2
<1> QED BY <1>7, <1>8, <1>9, <1>10, StepInv

LEMMA HandleSetupInv ==
    ASSUME RegisterInv, HandleSetup
    PROVE  RegisterInv'
<1>1. NextIs("setup")
  BY DEF HandleSetup
<1>2. ~IsDbl
  BY <1>1, CallNext
<1>3. UNCHANGED <<role, reg, masked, latch, ep_outstanig_rx_acks, host_stage>>
  BY DEF HandleSetup, hostVars
<1>4. TransmitOps = <<StatTxSet("valid")>>
  BY <1>2 DEF TransmitOps
<1> DEFINE packet == CopyFromPma(pma[qsb_offset_rx], 8)
           replies == packet[2] = ReadRequest /\ CanTransmit
<1>5. /\ IF replies THEN SubmitReply(Packet(packet[1])) ELSE UNCHANGED <<pma, ep_state_tx>>
      /\ todo' = (CASE replies -> TransmitOps
                    [] packet[2] = RefusedRequest -> <<StatTxSet("stall"), StatRxSet("stall")>>
                    [] OTHER -> <<>>)
                 \o <<StatRxSet("valid")>> \o Tail(todo)
  BY DEF HandleSetup
<1>6. packet[2] = RefusedRequest => ~replies
  BY DEF RefusedRequest, ReadRequest
<1>7. Response("setup")
  <2>1. CASE replies
    <3>1. ep_state_tx' = sgl_buf_1_pkt /\ CanTransmit
      BY <1>5, <2>1 DEF SubmitReply
    <3>2. todo' = <<StatTxSet("valid")>> \o <<StatRxSet("valid")>> \o Tail(todo)
      BY <1>4, <1>5, <1>6, <2>1
    <3> QED BY <1>3, <3>1, <3>2 DEF Response
  <2>2. CASE ~replies /\ packet[2] = RefusedRequest
    <3>1. ep_state_tx' = ep_state_tx
      BY <1>5, <2>2
    <3>2. todo' = <<StatTxSet("stall"), StatRxSet("stall")>> \o <<StatRxSet("valid")>> \o Tail(todo)
      BY <1>5, <2>2
    <3> QED BY <1>3, <3>1, <3>2 DEF Response
  <2>3. CASE ~replies /\ packet[2] # RefusedRequest
    <3>1. ep_state_tx' = ep_state_tx
      BY <1>5, <2>3
    <3>2. todo' = <<>> \o <<StatRxSet("valid")>> \o Tail(todo)
      BY <1>5, <2>3
    <3> QED BY <1>3, <3>1, <3>2 DEF Response
  <2> QED BY <2>1, <2>2, <2>3
<1> QED BY <1>1, <1>2, <1>7, ResponseInv

LEMMA HandleControlOutInv ==
    ASSUME RegisterInv, HandleControlOut
    PROVE  RegisterInv'
<1>1. NextIs("out") /\ ~IsDbl
  BY DEF HandleControlOut, IsDbl
<1>2. UNCHANGED <<role, reg, masked, latch, ep_outstanig_rx_acks, host_stage>>
  BY DEF HandleControlOut, hostVars
<1>3. TransmitOps = <<StatTxSet("valid")>>
  BY <1>1 DEF TransmitOps
<1> DEFINE packet == CopyFromPma(pma[qsb_offset_rx], PACKET_SIZE)
           replies == packet # <<>> /\ CanTransmit
<1>4. /\ IF replies THEN SubmitReply(<<>>) ELSE UNCHANGED <<pma, ep_state_tx>>
      /\ todo' = (IF replies THEN TransmitOps ELSE <<>>) \o <<StatRxSet("valid")>> \o Tail(todo)
  BY DEF HandleControlOut
<1>5. Response("out")
  <2>1. CASE replies
    <3>1. ep_state_tx' = sgl_buf_1_pkt /\ CanTransmit
      BY <1>4, <2>1 DEF SubmitReply
    <3>2. todo' = <<StatTxSet("valid")>> \o <<StatRxSet("valid")>> \o Tail(todo)
      BY <1>3, <1>4, <2>1
    <3> QED BY <1>2, <3>1, <3>2 DEF Response
  <2>2. CASE ~replies
    <3>1. ep_state_tx' = ep_state_tx
      BY <1>4, <2>2
    <3>2. todo' = <<>> \o <<StatRxSet("valid")>> \o Tail(todo)
      BY <1>4, <2>2
    <3> QED BY <1>2, <3>1, <3>2 DEF Response
  <2> QED BY <2>1, <2>2
<1> QED BY <1>1, <1>5, ResponseInv

\* A packet is submitted from the main loop.
LEMMA TransmitInv ==
    ASSUME RegisterInv, Transmit
    PROVE  RegisterInv'
<1>1. /\ role \in {"bulk_in", "interrupt_in"} /\ todo = <<>> /\ host_stage = "idle"
      /\ CanTransmit /\ ep_state_tx' = ep_state_tx + 1 /\ todo' = TransmitOps
      /\ UNCHANGED <<role, reg, masked, latch, ep_outstanig_rx_acks, host_stage>>
  BY DEF Transmit, hostVars
<1>2. Typed /\ latch = NotRead /\ reg \cap RwBits = TypeBits(role) /\ Pending = {}
  BY <1>1, NothingToDo DEF RegisterInv
<1> DEFINE op == IF IsDbl THEN SwBufToggle(SW_BUF_TX) ELSE StatTxSet("valid")
<1>3. todo' = <<op>>
  BY <1>1 DEF TransmitOps
<1>4. op \in Operations /\ Fits(op) /\ (IsDbl => op.name # "toggle_bits")
  <2>1. CASE IsDbl
    <3> DEFINE give == SwBufToggle(SW_BUF_TX)
    <3>1. /\ give \in Operations /\ give.name = "sw_buf_toggle" /\ ~give.reads
          /\ give.val = {} /\ give.mask = {SW_BUF_TX}
      BY BufferFacts
    <3> HIDE DEF give
    <3>2. Fits(give)
      BY <1>2, <2>1, <3>1 DEF Fits
    <3> QED BY <2>1, <3>1, <3>2 DEF give
  <2>2. CASE ~IsDbl
    BY <2>2, StatusOps, StatusFit
  <2> QED BY <2>1, <2>2
<1> HIDE DEF op
<1>5. todo' \in Seq(Operations) /\ Elements(todo') = {op}
  BY <1>3, <1>4, TupleFacts
<1>6. DriverStep
  BY <1>1, <1>2, <1>5 DEF DriverStep, Typed
<1>7. \A p \in Pending' : Fits(p)
  BY <1>4, <1>5, ElementsPrimed
<1>8. QuietSetup'
  BY <1>1, <1>4, <1>5, ElementsPrimed, UsedPending
<1>9. SingleBuffered'
  <2> SUFFICES ASSUME ~IsDbl PROVE SingleBuffered'
    BY <1>1 DEF SingleBuffered, IsDbl
  <2>1. role = "interrupt_in" /\ todo' = <<StatTxSet("valid")>>
    BY <1>1, <1>3 DEF IsDbl, op
  <2>2. "CTR_RX" \notin reg
    BY <2>1 DEF RegisterInv, AccessInv, EndpointTyped
  <2>3. SentPending(<<>>) /\ <<>> # <<CtrTxClear, Call("in")>> /\ <<>> # <<Call("in")>>
    BY <1>1, NothingToDo
  <2>4. ep_state_tx = sgl_buf_0_pkts /\ ~(StatTx \subseteq reg) /\ "CTR_TX" \notin reg
    BY <1>1, <2>3 DEF SentPending, CanTransmit
  <2>5. ep_state_tx' = sgl_buf_1_pkt
    BY <1>1, <2>4 DEF sgl_buf_0_pkts, sgl_buf_1_pkt
  <2>6. Submitting'
    BY <1>1, <2>1, <2>4, <2>5 DEF Submitting
  <2> QED BY <1>1, <2>2, <2>6 DEF SingleBuffered
<1> QED BY <1>6, <1>7, <1>8, <1>9, StepInv

\* A paused endpoint gets its buffers back.
LEMMA UnpauseInv ==
    ASSUME RegisterInv, Unpause
    PROVE  RegisterInv'
<1> DEFINE give == SwBufToggle(SW_BUF_RX)
<1>1. /\ role = "bulk_out" /\ todo = <<>> /\ ep_outstanig_rx_acks' = 0
      /\ todo' = [i \in 1 .. ep_outstanig_rx_acks |-> give]
      /\ UNCHANGED <<role, reg, masked, latch, host_stage>>
  BY DEF Unpause, hostVars
<1>2. /\ Typed /\ latch = NotRead /\ reg \cap RwBits = TypeBits(role) /\ Pending = {}
      /\ ep_outstanig_rx_acks \in Nat /\ IsDbl
  BY <1>1, NothingToDo DEF RegisterInv, Typed, IsDbl
<1>3. /\ give \in Operations /\ give.name = "sw_buf_toggle" /\ ~give.reads
      /\ give.val = {} /\ give.mask = {SW_BUF_RX}
  BY BufferFacts
<1> HIDE DEF give
<1>4. Fits(give)
  BY <1>2, <1>3 DEF Fits
<1>5. todo' \in Seq(Operations)
  BY <1>1, <1>2, <1>3
<1>6. Elements(todo') \subseteq {give}
  BY <1>1 DEF Elements
<1>7. DriverStep
  BY <1>1, <1>2, <1>5 DEF DriverStep, RegisterInv, AccessInv, EndpointTyped
<1>8. \A p \in Pending' : p = give
  BY <1>6, ElementsPrimed
<1>9. \A p \in Pending' : Fits(p)
  BY <1>4, <1>8
<1>10. QuietSetup'
  BY <1>1, <1>2, <1>3, <1>8 DEF QuietSetup, IsDbl, RegisterInv, AccessInv
<1>11. SingleBuffered'
  BY <1>1, <1>2 DEF SingleBuffered, IsDbl
<1> QED BY <1>7, <1>9, <1>10, <1>11, StepInv

\* The flags are found raised.
LEMMA PollInv ==
    ASSUME RegisterInv, Poll
    PROVE  RegisterInv'
<1> DEFINE cr == CtrRxClear
           ct == CtrTxClear
           cs == Call("setup")
           co == Call("out")
           ci == Call("in")
           call == IF "SETUP" \in reg THEN cs ELSE co
           first == IF "CTR_RX" \in reg THEN <<cr, call>> ELSE <<>>
           second == IF "CTR_TX" \in reg THEN <<ct, ci>> ELSE <<>>
<1>1. /\ todo = <<>> /\ reg \cap CtrBits # {}
      /\ UNCHANGED <<role, reg, masked, latch, ep_state_tx, ep_outstanig_rx_acks, host_stage>>
  BY DEF Poll, driverVars, hostVars
<1>2. todo' = first \o second
  BY DEF Poll, HandlerOps
<1>3. /\ Typed /\ EndpointTyped /\ QuietSetup
      /\ latch = NotRead /\ reg \cap RwBits = TypeBits(role) /\ Pending = {}
  BY <1>1, NothingToDo DEF RegisterInv, AccessInv
<1>4. host_stage # "quiet"
  BY <1>1, <1>3 DEF QuietSetup
<1>5. /\ cr \in Operations /\ cr.name = "ctr_clear" /\ cr.reads /\ cr.val = {}
      /\ cr.mask = {"CTR_RX"}
      /\ ct \in Operations /\ ct.name = "ctr_clear" /\ ct.reads /\ ct.val = {}
      /\ ct.mask = {"CTR_TX"}
  BY ClearFacts
<1>6. /\ cs \in Operations /\ cs.name = "setup" /\ ~cs.reads /\ cs.mask = {}
      /\ co \in Operations /\ co.name = "out" /\ ~co.reads /\ co.mask = {}
      /\ ci \in Operations /\ ci.name = "in" /\ ~ci.reads /\ ci.mask = {}
  BY CallFacts
<1>7. IsDbl => "SETUP" \notin reg
  BY <1>3 DEF EndpointTyped, IsDbl
<1> HIDE DEF cr, ct, cs, co, ci
<1>8. Fits(cr) /\ Fits(ct) /\ Fits(co) /\ Fits(ci) /\ (~IsDbl => Fits(cs))
  BY <1>5, <1>6 DEF Fits
<1>9. call \in Operations /\ Fits(call) /\ call \in {cs, co}
  BY <1>6, <1>7, <1>8
<1> HIDE DEF call
<1>10. second \in Seq(Operations) /\ Elements(second) \subseteq {ct, ci}
  <2>1. /\ <<ct, ci>> \in Seq(Operations) /\ Elements(<<ct, ci>>) = {ct, ci}
    BY <1>5, <1>6, TupleFacts
  <2>2. <<>> \in Seq(Operations) /\ Elements(<<>>) = {}
    BY DEF Elements
  <2> QED BY <2>1, <2>2
<1>11. todo' \in Seq(Operations) /\ Elements(todo') \subseteq {cr, call, ct, ci}
  <2> DEFINE s == second
  <2>1. s \in Seq(Operations) /\ Elements(s) \subseteq {ct, ci}
    BY <1>10
  <2> HIDE DEF second, s
  <2>2. /\ <<cr, call>> \o s \in Seq(Operations)
        /\ Elements(<<cr, call>> \o s) = {cr, call} \cup Elements(s)
    BY <1>5, <1>9, <2>1, PairBefore
  <2>3. <<>> \o s = s
    BY <2>1, EmptyFacts
  <2>4. todo' = <<cr, call>> \o s \/ todo' = <<>> \o s
    BY <1>2 DEF s
  <2> QED BY <2>1, <2>2, <2>3, <2>4
<1>12. DriverStep
  BY <1>1, <1>3, <1>11 DEF DriverStep, Typed, EndpointTyped
<1>13. \A p \in Pending' : Fits(p)
  BY <1>8, <1>9, <1>11, ElementsPrimed
<1>14. QuietSetup'
  <2>1. \A p \in Pending' : p.name # "toggle_bits"
    BY <1>5, <1>6, <1>9, <1>11, ElementsPrimed
  <2> QED BY <1>1, <1>4, <2>1, UsedPending
<1>15. SingleBuffered'
  <2> SUFFICES ASSUME ~IsDbl PROVE SingleBuffered'
    BY <1>1 DEF SingleBuffered, IsDbl
  <2>1. ("CTR_RX" \in reg => ~(StatRx \subseteq reg)) /\ SentPending(<<>>)
    BY <1>1, <1>4, NothingToDo
  <2>2. {"CTR_RX", "SETUP"} \subseteq reg => ~(StatTx \subseteq reg)
    BY <1>4 DEF RegisterInv, AccessInv, SingleBuffered
  <2>3. second \in Rest
    BY DEF Rest, ct, ci
  <2>4. SentPending(second)
    <3>1. CASE "CTR_TX" \in reg
      <4>1. <<>> # <<CtrTxClear, Call("in")>> /\ <<>> # <<Call("in")>>
        OBVIOUS
      <4>2. ep_state_tx = sgl_buf_1_pkt /\ ~(StatTx \subseteq reg)
        BY <2>1, <3>1, <4>1 DEF SentPending
      <4> QED BY <3>1, <4>2 DEF SentPending, ct, ci
    <3>2. CASE "CTR_TX" \notin reg
      BY <2>1, <3>2
    <3> QED BY <3>1, <3>2
  <2>5. PICK ops \in Rest : ops = second
    BY <2>3
  <2>6. SentPending(ops)'
    BY <1>1, <2>4, <2>5, SentKept
  <2>7. /\ "CTR_RX" \in reg => todo' = <<cr, call>> \o ops
        /\ "CTR_RX" \notin reg => todo' = ops
    <3>1. <<>> \o ops = ops
      BY <2>5, <1>10, EmptyFacts
    <3> QED BY <1>2, <2>5, <3>1
  <2>8. ReceivedPending(ops)'
    <3>1. CASE "CTR_RX" \notin reg
      BY <1>1, <2>7, <3>1 DEF ReceivedPending
    <3>2. CASE "CTR_RX" \in reg /\ "SETUP" \in reg
      <4>1. todo' = <<CtrRxClear, Call("setup")>> \o ops
        BY <2>7, <3>2 DEF call, cr, cs
      <4> QED BY <1>1, <2>1, <3>2, <4>1 DEF ReceivedPending
    <3>3. CASE "CTR_RX" \in reg /\ "SETUP" \notin reg
      <4>1. todo' = <<CtrRxClear, Call("out")>> \o ops
        BY <2>7, <3>3 DEF call, cr, co
      <4> QED BY <1>1, <2>1, <3>3, <4>1 DEF ReceivedPending
    <3> QED BY <3>1, <3>2, <3>3
  <2>9. InUse'
    BY <2>6, <2>8, RestKept
  <2> QED BY <1>1, <2>2, <2>9 DEF SingleBuffered, InUse, Rest
<1> QED BY <1>12, <1>13, <1>14, <1>15, StepInv

----------------------------------------------------------------------------
(* The endpoint is set up, and halted.                                       *)

\* Operations on the status and the toggles, the ones that let the host fetch what is not
\* there excepted.
SetupOperation(op) ==
    /\ op \in Operations /\ Fits(op) /\ op.mask # {}
    /\ op.mask = StatTx /\ op.val = StatTx => IsDbl

LEMMA SetupToggles ==
    ASSUME NEW op, op \in {DtogRxClear, DtogTxClear, SwBufRxSet, SwBufTxClear}
    PROVE  SetupOperation(op)
<1>1. PICK bit \in {"DTOG_RX", "DTOG_TX"} : op = ToggleBits({}, {bit}) \/ op = ToggleBits({bit}, {bit})
  <2> DEFINE one(bit) == op = ToggleBits({}, {bit}) \/ op = ToggleBits({bit}, {bit})
  <2>1. op \in {DtogRxClear, SwBufTxClear} => one("DTOG_RX") \/ one("DTOG_TX")
    BY DEF DtogRxClear, SwBufTxClear, SW_BUF_TX
  <2>2. op \in {DtogTxClear, SwBufRxSet} => one("DTOG_RX") \/ one("DTOG_TX")
    BY DEF DtogTxClear, SwBufRxSet, SW_BUF_RX
  <2> HIDE DEF one
  <2>3. \E bit \in {"DTOG_RX", "DTOG_TX"} : one(bit)
    BY <2>1, <2>2
  <2> QED BY <2>3 DEF one
<1> DEFINE m == {bit}
<1>2. PICK val \in SUBSET m : op = ToggleBits(val, m)
  BY <1>1
<1>3. m \in {StatRx, StatTx, {"DTOG_RX"}, {"DTOG_TX"}} /\ m # {} /\ m # StatTx
  BY DEF StatTx
<1> HIDE DEF m
<1>4. /\ op \in Operations /\ op.name = "toggle_bits" /\ op.reads
      /\ op.val = val /\ op.mask = m
  <2>1. ToggleBits(val, m) \in Operations
    BY <1>3, ToggleFacts
  <2> QED BY <1>2, <2>1 DEF ToggleBits
<1>5. Fits(op)
  <2>1. op.mask \in {StatRx, StatTx, {"DTOG_RX"}, {"DTOG_TX"}} /\ op.val \subseteq op.mask
    BY <1>3, <1>4
  <2> QED BY <1>4, <2>1 DEF Fits
<1> QED BY <1>3, <1>4, <1>5 DEF SetupOperation

LEMMA SetupStatus ==
    ASSUME NEW status \in {"disabled", "stall", "nak", "valid"}
    PROVE  /\ SetupOperation(StatRxSet(status))
           /\ status # "valid" \/ IsDbl => SetupOperation(StatTxSet(status))
<1> DEFINE t == StatTxSet(status)
           r == StatRxSet(status)
<1>1. t \in Operations /\ t.mask = StatTx /\ t.val = TxStatus(status) /\ Fits(t)
  BY StatusOps, StatusFit
<1>2. r \in Operations /\ r.mask = StatRx /\ Fits(r)
  BY StatusOps, StatusFit
<1>3. StatTx # {} /\ StatRx # {} /\ StatRx # StatTx
  BY DEF StatRx, StatTx
<1>4. status # "valid" => TxStatus(status) # StatTx
  BY StatusFacts
<1> HIDE DEF t, r
<1>5. SetupOperation(r)
  BY <1>2, <1>3 DEF SetupOperation
<1>6. status # "valid" \/ IsDbl => SetupOperation(t)
  BY <1>1, <1>3, <1>4 DEF SetupOperation
<1> QED BY <1>5, <1>6 DEF t, r

LEMMA TripleFacts ==
    ASSUME NEW a \in Operations, NEW b \in Operations, NEW c \in Operations
    PROVE  <<a, b, c>> \in Seq(Operations) /\ Elements(<<a, b, c>>) = {a, b, c}
BY DEF Elements

LEMMA QuadFacts ==
    ASSUME NEW a \in Operations, NEW b \in Operations, NEW c \in Operations, NEW d \in Operations
    PROVE  <<a, b, c, d>> \in Seq(Operations) /\ Elements(<<a, b, c, d>>) = {a, b, c, d}
BY DEF Elements

\* What an endpoint is set up with.
LEMMA SetupFacts ==
    ASSUME role \in {"bulk_out", "bulk_in", "interrupt_in", "control"}
    PROVE  /\ SetupOps(role) \in Seq(Operations)
           /\ \A op \in Elements(SetupOps(role)) : SetupOperation(op)
           /\ \E op \in Elements(SetupOps(role)) : op.name = "set_all_rw_bits"
           /\ ~IsDbl => \E op \in Elements(SetupOps(role)) : op.mask = StatTx
<1> DEFINE rc == DtogRxClear
           tc == DtogTxClear
           rs == SwBufRxSet
           ts == SwBufTxClear
           rv == StatRxSet("valid")
           tv == StatTxSet("valid")
           tn == StatTxSet("nak")
           all == SetAllRwBits(TypeBits(role))
           s == EpSetupOps(role)
<1>1. SetupOperation(rc) /\ SetupOperation(tc) /\ SetupOperation(rs) /\ SetupOperation(ts)
  BY SetupToggles
<1>2. SetupOperation(rv) /\ SetupOperation(tn) /\ (IsDbl => SetupOperation(tv)) /\ tn.mask = StatTx
  BY SetupStatus, StatusOps
<1>3. SetupOperation(all) /\ all.name = "set_all_rw_bits"
  <2>1. TypeBits(role) \in SUBSET RwBits
    BY TypeBitsFacts
  <2>2. /\ all \in Operations /\ all.name = "set_all_rw_bits" /\ ~all.reads
        /\ all.val = TypeBits(role) /\ all.mask = RwBits
    BY <2>1, SetAllFacts
  <2>3. RwBits # {} /\ RwBits # StatTx
    BY DEF RwBits, StatTx
  <2> HIDE DEF all
  <2> QED BY <2>2, <2>3 DEF SetupOperation, Fits
<1>4. /\ s \in Seq(Operations) /\ \A op \in Elements(s) : SetupOperation(op)
      /\ ~IsDbl => tn \in Elements(s)
  <2>1. CASE role = "bulk_out"
    <3>1. s = <<rc, rs, rv>> /\ IsDbl
      BY <2>1 DEF EpSetupOps, IsDbl
    <3> HIDE DEF rc, rs, rv, tn, s
    <3>2. <<rc, rs, rv>> \in Seq(Operations) /\ Elements(<<rc, rs, rv>>) = {rc, rs, rv}
      BY <1>1, <1>2, TripleFacts DEF SetupOperation
    <3> QED BY <1>1, <1>2, <3>1, <3>2
  <2>2. CASE role = "bulk_in"
    <3>1. s = <<tc, ts, tv>> /\ IsDbl
      BY <2>2 DEF EpSetupOps, IsDbl
    <3> HIDE DEF tc, ts, tv, tn, s
    <3>2. <<tc, ts, tv>> \in Seq(Operations) /\ Elements(<<tc, ts, tv>>) = {tc, ts, tv}
      BY <1>1, <1>2, <3>1, TripleFacts DEF SetupOperation
    <3> QED BY <1>1, <1>2, <3>1, <3>2
  <2>3. CASE role = "interrupt_in"
    <3>1. s = <<tc, tn>>
      BY <2>3 DEF EpSetupOps
    <3> HIDE DEF tc, tn, s
    <3>2. <<tc, tn>> \in Seq(Operations) /\ Elements(<<tc, tn>>) = {tc, tn}
      BY <1>1, <1>2, TupleFacts DEF SetupOperation
    <3> QED BY <1>1, <1>2, <3>1, <3>2
  <2>4. CASE role = "control"
    <3>1. s = <<tc, tn, rc, rv>>
      BY <2>4 DEF EpSetupOps
    <3> HIDE DEF tc, tn, rc, rv, s
    <3>2. <<tc, tn, rc, rv>> \in Seq(Operations) /\ Elements(<<tc, tn, rc, rv>>) = {tc, tn, rc, rv}
      BY <1>1, <1>2, QuadFacts DEF SetupOperation
    <3> QED BY <1>1, <1>2, <3>1, <3>2
  <2> QED BY <2>1, <2>2, <2>3, <2>4
<1>5. SetupOps(role) = <<all>> \o s
  BY DEF SetupOps
<1> HIDE DEF all, s, tn
<1>6. all \in Operations
  BY <1>3 DEF SetupOperation
<1>7. <<all>> \o s \in Seq(Operations) /\ Elements(<<all>> \o s) = {all} \cup Elements(s)
  BY <1>4, <1>6, ConsFacts
<1> QED BY <1>2, <1>3, <1>4, <1>5, <1>7

LEMMA InitInv ==
    Init => RegisterInv
<1> SUFFICES ASSUME Init PROVE RegisterInv
  OBVIOUS
<1>1. /\ role \in {"bulk_out", "bulk_in", "interrupt_in", "control"}
      /\ reg = {} /\ masked = FALSE /\ latch = NotRead /\ todo = SetupOps(role)
      /\ ep_state_tx = TxStateAfterSetup(role) /\ ep_outstanig_rx_acks = 0
      /\ host_stage = "quiet"
  BY FsDevAssumption DEF Init
<1>2. /\ todo \in Seq(Operations)
      /\ \A op \in Pending : SetupOperation(op)
      /\ \E op \in Pending : op.name = "set_all_rw_bits"
  BY <1>1, SetupFacts DEF Elements, Pending
<1>3. Typed
  BY <1>1, <1>2 DEF Typed
<1>4. OperationsFit
  BY <1>2 DEF OperationsFit, SetupOperation
<1>5. EndpointTyped
  BY <1>1, <1>2 DEF EndpointTyped
<1>6. LatchIsGood
  BY <1>1 DEF LatchIsGood
<1>7. QuietSetup
  <2>1. ~IsDbl => ep_state_tx = sgl_buf_0_pkts
    BY <1>1 DEF IsDbl, TxStateAfterSetup
  <2>2. ~(StatTx \subseteq reg) /\ reg \cap CtrBits = {}
    BY <1>1, BitFacts
  <2>3. \A op \in Pending : op.mask # {} /\ (~IsDbl /\ op.mask = StatTx => op.val # StatTx)
    BY <1>2 DEF SetupOperation
  <2> QED BY <1>1, <2>1, <2>2, <2>3 DEF QuietSetup
<1>8. SingleBuffered
  BY <1>1 DEF SingleBuffered
<1> QED BY <1>3, <1>4, <1>5, <1>6, <1>7, <1>8 DEF RegisterInv, AccessInv

\* A request that sets up the endpoint, or halts it, begins; the host waits.
LEMMA QuietStep ==
    ASSUME RegisterInv, todo = <<>>, role' = role, UNCHANGED <<reg, masked, latch>>,
           host_stage' = "quiet", reg \cap CtrBits = {},
           todo' \in Seq(Operations), ep_outstanig_rx_acks' \in Nat,
           \A op \in Elements(todo') : SetupOperation(op),
           ~IsDbl => /\ ep_state_tx' = sgl_buf_0_pkts
                     /\ \E op \in Elements(todo') : op.mask = StatTx
    PROVE  RegisterInv'
<1>1. latch = NotRead /\ reg \cap RwBits = TypeBits(role)
  BY NothingToDo
<1>2. DriverStep
  BY <1>1 DEF DriverStep
<1>3. \A op \in Pending' : SetupOperation(op)
  BY ElementsPrimed
<1>4. \A op \in Pending' : Fits(op) /\ op.mask # {} /\ (~IsDbl /\ op.mask = StatTx => op.val # StatTx)
  BY <1>3 DEF SetupOperation
<1>5. ~IsDbl => \E op \in Pending' : op.mask = StatTx
  BY ElementsPrimed
<1>6. QuietSetup'
  BY <1>4, <1>5 DEF QuietSetup, IsDbl
<1>7. SingleBuffered'
  BY DEF SingleBuffered
<1> QED BY <1>2, <1>4, <1>6, <1>7, StepInv

LEMMA ReconfigureInv ==
    ASSUME RegisterInv, Reconfigure
    PROVE  RegisterInv'
<1> DEFINE td == StatTxSet("disabled")
           rd == StatRxSet("disabled")
<1>1. /\ todo = <<>> /\ reg \cap CtrBits = {} /\ host_stage' = "quiet"
      /\ todo' = <<td, rd>> \o SetupOps(role)
      /\ ep_state_tx' = TxStateAfterSetup(role) /\ ep_outstanig_rx_acks' = 0
      /\ UNCHANGED <<role, reg, masked, latch>>
  BY DEF Reconfigure
<1>2. role \in {"bulk_out", "bulk_in", "interrupt_in", "control"}
  BY DEF RegisterInv, Typed
<1>3. /\ td \in Operations /\ rd \in Operations
      /\ SetupOperation(td) /\ SetupOperation(rd)
  BY StatusOps, SetupStatus
<1> DEFINE s == SetupOps(role)
<1>4. /\ s \in Seq(Operations) /\ \A op \in Elements(s) : SetupOperation(op)
      /\ ~IsDbl => \E op \in Elements(s) : op.mask = StatTx
  BY <1>2, SetupFacts
<1> HIDE DEF td, rd, s
<1>5. <<td, rd>> \o s \in Seq(Operations) /\ Elements(<<td, rd>> \o s) = {td, rd} \cup Elements(s)
  BY <1>3, <1>4, PairBefore
<1>6. todo' = <<td, rd>> \o s
  BY <1>1 DEF s
<1>7. /\ todo' \in Seq(Operations) /\ \A op \in Elements(todo') : SetupOperation(op)
      /\ ~IsDbl => \E op \in Elements(todo') : op.mask = StatTx
  BY <1>3, <1>4, <1>5, <1>6
<1>8. ~IsDbl => ep_state_tx' = sgl_buf_0_pkts
  BY <1>1 DEF IsDbl, TxStateAfterSetup
<1>9. ep_outstanig_rx_acks' \in Nat
  BY <1>1
<1> QED BY <1>1, <1>7, <1>8, <1>9, QuietStep

LEMMA StallSetInv ==
    ASSUME RegisterInv, NEW stall \in BOOLEAN, StallSet(stall)
    PROVE  RegisterInv'
<1> DEFINE sl == StatTxSet("stall")
           nk == StatTxSet("nak")
           cl == DtogTxClear
<1>1. /\ todo = <<>> /\ reg \cap CtrBits = {} /\ host_stage' = "quiet"
      /\ todo' = <<sl>> \/ todo' = <<nk, cl>>
      /\ ep_state_tx = sgl_buf_0_pkts
      /\ UNCHANGED <<role, reg, masked, latch, ep_state_tx, ep_outstanig_rx_acks>>
  BY DEF StallSet, driverVars
<1>2. SetupOperation(sl) /\ SetupOperation(nk) /\ SetupOperation(cl)
  BY SetupStatus, SetupToggles
<1>3. sl.mask = StatTx /\ nk.mask = StatTx
  BY StatusOps
<1>4. ep_outstanig_rx_acks' \in Nat
  BY <1>1 DEF RegisterInv, Typed
<1> HIDE DEF sl, nk, cl
<1>5. sl \in Operations /\ nk \in Operations /\ cl \in Operations
  BY <1>2 DEF SetupOperation
<1>6. /\ <<sl>> \in Seq(Operations) /\ Elements(<<sl>>) = {sl}
      /\ <<nk, cl>> \in Seq(Operations) /\ Elements(<<nk, cl>>) = {nk, cl}
  BY <1>5, TupleFacts
<1>7. /\ todo' \in Seq(Operations) /\ \A op \in Elements(todo') : SetupOperation(op)
      /\ \E op \in Elements(todo') : op.mask = StatTx
  BY <1>1, <1>2, <1>3, <1>6
<1> QED BY <1>1, <1>4, <1>7, QuietStep

\* The request is over.
LEMMA HostResumesInv ==
    ASSUME RegisterInv, HostResumes
    PROVE  RegisterInv'
<1>1. /\ host_stage = "quiet" /\ todo = <<>> /\ host_stage' = "idle"
      /\ UNCHANGED <<role, reg, masked, todo, latch, ep_state_tx, ep_outstanig_rx_acks>>
  BY DEF HostResumes, driverVars
<1>2. /\ Typed /\ QuietSetup /\ latch = NotRead /\ reg \cap RwBits = TypeBits(role)
      /\ Pending = {} /\ Pending' = {}
  BY <1>1, NothingToDo DEF RegisterInv, AccessInv, Pending
<1>3. DriverStep
  BY <1>1, <1>2 DEF DriverStep, Typed
<1>4. QuietSetup'
  BY <1>1, <1>2 DEF QuietSetup
<1>5. SingleBuffered'
  <2> SUFFICES ASSUME ~IsDbl PROVE SingleBuffered'
    BY <1>1 DEF SingleBuffered, IsDbl
  <2>1. ep_state_tx = sgl_buf_0_pkts /\ ~(StatTx \subseteq reg) /\ reg \cap CtrBits = {}
    BY <1>1, <1>2 DEF QuietSetup
  <2>2. "CTR_RX" \notin reg /\ "CTR_TX" \notin reg
    BY <2>1 DEF CtrBits
  <2>3. ReceivedPending(<<>>)' /\ SentPending(<<>>)'
    BY <1>1, <2>1, <2>2 DEF ReceivedPending, SentPending
  <2>4. InUse'
    BY <2>3, RestKept DEF Rest
  <2> QED BY <1>1, <2>2, <2>4 DEF SingleBuffered, InUse, Rest
<1> QED BY <1>2, <1>3, <1>4, <1>5, StepInv

----------------------------------------------------------------------------
(* The invariant is kept by the peripheral and the host.                     *)

\* A step of theirs, between any two of the driver's.
HostStep ==
    /\ UNCHANGED <<role, todo, latch, ep_state_tx, ep_outstanig_rx_acks>>
    /\ reg' \in SUBSET RegisterBits /\ reg' \cap RwBits = reg \cap RwBits
    /\ masked' \in BOOLEAN /\ (masked' => IsDbl)
    /\ host_stage # "quiet" /\ host_stage' # "quiet"
    /\ role # "control" => host_stage' = "idle" /\ ("SETUP" \in reg' => "SETUP" \in reg)
    /\ role = "interrupt_in" => ("CTR_RX" \in reg' => "CTR_RX" \in reg)

LEMMA HostInv ==
    ASSUME RegisterInv, HostStep, SingleBuffered',
           todo # <<>> /\ latch # NotRead /\ Head(todo).name = "toggle_bits" =>
               Visible' \cap Head(todo).mask = Visible \cap Head(todo).mask
    PROVE  RegisterInv'
<1>1. Typed /\ OperationsFit /\ EndpointTyped /\ LatchIsGood /\ QuietSetup
  BY DEF RegisterInv, AccessInv
<1>2. /\ UNCHANGED <<role, todo, latch, ep_state_tx, ep_outstanig_rx_acks>>
      /\ reg' \cap RwBits = reg \cap RwBits
      /\ host_stage # "quiet" /\ host_stage' # "quiet"
  BY DEF HostStep
<1>3. Pending' = Pending
  BY <1>2 DEF Pending
<1>4. Typed'
  BY <1>1 DEF Typed, HostStep
<1>5. OperationsFit'
  BY <1>1, <1>2, <1>3, FitKept DEF OperationsFit
<1>6. EndpointTyped'
  BY <1>1 DEF EndpointTyped, HostStep, IsDbl
<1>7. LatchIsGood'
  BY <1>1, <1>2 DEF LatchIsGood
<1>8. QuietSetup'
  BY <1>1, <1>2, <1>3 DEF QuietSetup, IsDbl
<1> QED BY <1>4, <1>5, <1>6, <1>7, <1>8 DEF RegisterInv, AccessInv

\* A double-buffered endpoint in use has its status and toggles left alone.
LEMMA DoubleHost ==
    ASSUME RegisterInv, IsDbl, HostStep
    PROVE  RegisterInv'
<1>1. Typed /\ QuietSetup
  BY DEF RegisterInv, AccessInv
<1>2. SingleBuffered'
  BY DEF SingleBuffered, IsDbl, HostStep
<1>3. ASSUME todo # <<>>, Head(todo).name = "toggle_bits"
      PROVE  FALSE
  <2>1. todo \in Seq(Operations)
    BY <1>1 DEF Typed
  <2>2. Head(todo) \in Elements(todo)
    BY <1>3, <2>1, HeadTailFacts
  <2>3. Head(todo) \in Pending
    BY <2>2 DEF Elements, Pending
  <2> QED BY <1>1, <1>3, <2>3 DEF QuietSetup, HostStep
<1> QED BY <1>2, <1>3, HostInv

LEMMA HostOutBulkInv ==
    ASSUME RegisterInv, HostOutBulk
    PROVE  RegisterInv'
<1>1. /\ role = "bulk_out" /\ host_stage = "idle" /\ host_stage' = host_stage
      /\ UNCHANGED <<role, todo, latch, ep_state_tx, ep_outstanig_rx_acks>>
      /\ reg' = reg \/ reg' = Xor(reg, {"DTOG_RX"}) \cup {"CTR_RX"}
      /\ masked' = NoFreeBuffer(reg')
  BY DEF HostOutBulk, Receive, driverVars
<1>2. reg \in SUBSET RegisterBits
  BY DEF RegisterInv, Typed
<1>3. IsDbl
  BY <1>1 DEF IsDbl
<1>4. /\ reg' \in SUBSET RegisterBits /\ reg' \cap RwBits = reg \cap RwBits
      /\ "SETUP" \in reg' => "SETUP" \in reg
  BY <1>1, <1>2 DEF Xor, RegisterBits, RwBits, ToggledBits, CtrBits
<1>5. masked' \in BOOLEAN
  BY <1>1 DEF NoFreeBuffer
<1>6. HostStep
  BY <1>1, <1>3, <1>4, <1>5 DEF HostStep
<1> QED BY <1>3, <1>6, DoubleHost

\* A packet may be fetched from a single-buffered endpoint: nothing about sending is
\* under way, and the driver does not access the status of transmission.
LEMMA FetchSingle ==
    ASSUME RegisterInv, ~IsDbl, host_stage # "quiet", StatTx \subseteq reg
    PROVE  /\ ReceivedPending(<<>>) /\ ep_state_tx = sgl_buf_1_pkt /\ "CTR_TX" \notin reg
           /\ todo # <<>> /\ Head(todo).name = "toggle_bits" => Head(todo).mask = StatRx
<1> DEFINE sr == StatRxSet("stall")
           vr == StatRxSet("valid")
           cr == CtrRxClear
           cs == Call("setup")
           co == Call("out")
<1>1. PICK ops \in Rest : ReceivedPending(ops) /\ SentPending(ops)
  BY DEF RegisterInv, AccessInv, SingleBuffered, Submitting, Rest
<1>2. ops = <<>> /\ ep_state_tx = sgl_buf_1_pkt /\ "CTR_TX" \notin reg
  BY <1>1 DEF SentPending
<1>3. /\ cr \in Operations /\ cr.name = "ctr_clear"
      /\ cs \in Operations /\ cs.name = "setup"
      /\ co \in Operations /\ co.name = "out"
      /\ sr \in Operations /\ sr.mask = StatRx
      /\ vr \in Operations /\ vr.mask = StatRx
  BY ClearFacts, CallFacts, StatusOps
<1>4. ops \in Seq(Operations)
  BY <1>1, RestFacts
<1>5. \/ todo = <<>>
      \/ todo = <<cr, cs>> \o ops \/ todo = <<cr, co>> \o ops
      \/ todo = <<cs>> \o ops \/ todo = <<co>> \o ops
      \/ todo = <<sr, vr>> \o ops \/ todo = <<vr>> \o ops
  BY <1>1, <1>2 DEF ReceivedPending
<1>6. todo # <<>> => Head(todo) \in {cr, cs, co, sr, vr}
  <2> HIDE DEF cr, cs, co, sr, vr
  <2>1. Head(<<cr, cs>> \o ops) = cr /\ Head(<<cr, co>> \o ops) = cr
    <3>1. Head(<<cr, cs>> \o ops) = cr
      BY <1>3, <1>4, Shapes
    <3>2. Head(<<cr, co>> \o ops) = cr
      BY <1>3, <1>4, Shapes
    <3> QED BY <3>1, <3>2
  <2>2. Head(<<cs>> \o ops) = cs /\ Head(<<co>> \o ops) = co /\ Head(<<vr>> \o ops) = vr
    BY <1>3, <1>4, ConsFacts
  <2>3. Head(<<sr, vr>> \o ops) = sr
    BY <1>3, <1>4, Shapes
  <2> QED BY <1>5, <2>1, <2>2, <2>3
<1>7. todo # <<>> /\ Head(todo).name = "toggle_bits" => Head(todo).mask = StatRx
  <2> HIDE DEF cr, cs, co, sr, vr
  <2> QED BY <1>3, <1>6
<1> QED BY <1>1, <1>2, <1>7

LEMMA HostInInv ==
    ASSUME RegisterInv, HostIn
    PROVE  RegisterInv'
<1>1. /\ role = "bulk_in" => host_stage = "idle"
      /\ role = "interrupt_in" => host_stage = "idle"
      /\ role = "control" => host_stage \in {"reply", "status"}
      /\ role # "bulk_out" /\ StatTx \subseteq reg
      /\ reg' = (Xor(reg, {"DTOG_TX"}) \cup {"CTR_TX"}) \ (IF IsDbl THEN {} ELSE {"STAT_TX0"})
      /\ masked' = (IsDbl /\ NoFreeBuffer(reg'))
      /\ host_stage' = IF host_stage = "reply" THEN "confirm" ELSE "idle"
      /\ UNCHANGED <<role, todo, latch, ep_state_tx, ep_outstanig_rx_acks>>
  BY DEF HostIn, driverVars
<1>2. Typed /\ EndpointTyped /\ reg \in SUBSET RegisterBits
  BY DEF RegisterInv, AccessInv, Typed
<1>3. /\ reg' \in SUBSET RegisterBits /\ reg' \cap RwBits = reg \cap RwBits
      /\ "SETUP" \in reg' <=> "SETUP" \in reg
      /\ "CTR_RX" \in reg' <=> "CTR_RX" \in reg
      /\ StatRx \subseteq reg' <=> StatRx \subseteq reg
      /\ StatRx \cap reg' = StatRx \cap reg
      /\ "CTR_TX" \in reg' /\ (~IsDbl => ~(StatTx \subseteq reg'))
  BY <1>1, <1>2 DEF Xor, RegisterBits, RwBits, ToggledBits, CtrBits, StatRx, StatTx
<1>4. masked' \in BOOLEAN /\ (masked' => IsDbl)
  BY <1>1 DEF NoFreeBuffer
<1>5. host_stage # "quiet"
  BY <1>1, <1>2 DEF Typed
<1>6. HostStep
  BY <1>1, <1>2, <1>3, <1>4, <1>5 DEF HostStep, Typed
<1>7. CASE IsDbl
  BY <1>6, <1>7, DoubleHost
<1>8. CASE ~IsDbl
  <2>1. /\ ReceivedPending(<<>>) /\ ep_state_tx = sgl_buf_1_pkt
        /\ todo # <<>> /\ Head(todo).name = "toggle_bits" => Head(todo).mask = StatRx
    BY <1>1, <1>5, <1>8, FetchSingle
  <2>2. SentPending(<<>>)'
    BY <1>1, <1>3, <1>8, <2>1 DEF SentPending
  <2>3. ReceivedPending(<<>>)'
    BY <1>1, <1>3, <1>8, <2>1 DEF ReceivedPending
  <2>4. SingleBuffered'
    BY <1>3, <1>8, <2>2, <2>3, RestKept DEF SingleBuffered, InUse, Rest
  <2>5. Visible = reg /\ Visible' = reg'
    BY <1>2, <1>4, <1>8 DEF Visible, EndpointTyped
  <2>6. todo # <<>> /\ latch # NotRead /\ Head(todo).name = "toggle_bits" =>
            Visible' \cap Head(todo).mask = Visible \cap Head(todo).mask
    BY <1>3, <2>1, <2>5
  <2> QED BY <1>6, <2>4, <2>6, HostInv
<1> QED BY <1>7, <1>8

LEMMA HostSetupInv ==
    ASSUME RegisterInv, NEW kind, HostSetup(kind)
    PROVE  RegisterInv'
<1>1. /\ role = "control" /\ host_stage = "idle" /\ todo = <<>> /\ reg \cap CtrBits = {}
      /\ reg' = (reg \ {"STAT_RX0", "STAT_TX0"})
                \cup {"CTR_RX", "SETUP", "DTOG_RX", "DTOG_TX", "STAT_RX1", "STAT_TX1"}
      /\ host_stage' \in {"data", "reply"}
      /\ UNCHANGED <<role, masked, todo, latch, ep_state_tx, ep_outstanig_rx_acks>>
  BY DEF HostSetup, driverVars
<1>2. Typed /\ EndpointTyped /\ reg \in SUBSET RegisterBits /\ masked \in BOOLEAN
  BY DEF RegisterInv, AccessInv, Typed
<1>3. /\ reg' \in SUBSET RegisterBits /\ reg' \cap RwBits = reg \cap RwBits
      /\ ~(StatRx \subseteq reg') /\ ~(StatTx \subseteq reg') /\ "CTR_TX" \notin reg'
  BY <1>1, <1>2 DEF RegisterBits, RwBits, ToggledBits, CtrBits, StatRx, StatTx
<1>4. ~IsDbl
  BY <1>1 DEF IsDbl
<1>5. HostStep
  BY <1>1, <1>2, <1>3 DEF HostStep, EndpointTyped
<1>6. SingleBuffered'
  <2>1. SentPending(<<>>) /\ <<>> # <<CtrTxClear, Call("in")>> /\ <<>> # <<Call("in")>>
    BY <1>1, <1>4, NothingToDo
  <2>2. ep_state_tx = sgl_buf_1_pkt \/ ep_state_tx = sgl_buf_0_pkts
    BY <2>1 DEF SentPending
  <2>3. SentPending(<<>>)' /\ ReceivedPending(<<>>)'
    BY <1>1, <1>3, <2>2 DEF SentPending, ReceivedPending
  <2> QED BY <1>3, <2>3, RestKept DEF SingleBuffered, InUse, Rest
<1> QED BY <1>1, <1>5, <1>6, HostInv

LEMMA HostOutControlInv ==
    ASSUME RegisterInv, HostOutControl
    PROVE  RegisterInv'
<1>1. /\ host_stage \in {"data", "confirm"} /\ StatRx \subseteq reg
      /\ host_stage' \in {"status", "idle"}
      /\ \/ reg' = reg
         \/ reg' = (Xor(reg, {"DTOG_RX"}) \cup {"CTR_RX"}) \ {"SETUP", "STAT_RX0"}
      /\ UNCHANGED <<role, masked, todo, latch, ep_state_tx, ep_outstanig_rx_acks>>
  BY DEF HostOutControl, Receive, driverVars
<1>2. /\ Typed /\ EndpointTyped /\ SingleBuffered
      /\ reg \in SUBSET RegisterBits /\ masked \in BOOLEAN
  BY DEF RegisterInv, AccessInv, Typed
<1>3. role = "control" /\ ~IsDbl
  BY <1>1, <1>2 DEF EndpointTyped, IsDbl
<1>4. /\ reg' \in SUBSET RegisterBits /\ reg' \cap RwBits = reg \cap RwBits
      /\ "CTR_TX" \in reg' <=> "CTR_TX" \in reg
      /\ StatTx \subseteq reg' <=> StatTx \subseteq reg
      /\ reg' = reg \/ ("SETUP" \notin reg' /\ ~(StatRx \subseteq reg'))
  BY <1>1, <1>2 DEF Xor, RegisterBits, RwBits, ToggledBits, CtrBits, StatRx, StatTx
<1>5. HostStep
  BY <1>1, <1>2, <1>3, <1>4 DEF HostStep, EndpointTyped
<1>6. ~Submitting
  BY <1>1, <1>3 DEF Submitting
<1>7. PICK ops \in Rest : ReceivedPending(ops) /\ SentPending(ops)
  BY <1>1, <1>2, <1>3, <1>6 DEF SingleBuffered, Rest
<1>8. todo = ops /\ "CTR_RX" \notin reg
  BY <1>1, <1>7 DEF ReceivedPending
<1>9. SingleBuffered'
  <2>1. SentPending(ops)'
    BY <1>1, <1>4, <1>7, SentKept
  <2>2. ReceivedPending(ops)'
    BY <1>1, <1>4, <1>8 DEF ReceivedPending
  <2>3. {"CTR_RX", "SETUP"} \subseteq reg' => ~(StatTx \subseteq reg')
    BY <1>4, <1>8
  <2> QED BY <2>1, <2>2, <2>3, RestKept DEF SingleBuffered, InUse, Rest
<1>10. ~(todo # <<>> /\ Head(todo).name = "toggle_bits")
  <2> DEFINE a == CtrTxClear
             b == Call("in")
  <2>1. a \in Operations /\ a.name = "ctr_clear" /\ b \in Operations /\ b.name = "in"
    BY ClearFacts, CallFacts
  <2>2. todo = <<>> \/ todo = <<a, b>> \/ todo = <<b>>
    BY <1>8 DEF Rest
  <2> HIDE DEF a, b
  <2>3. Head(<<a, b>>) = a /\ Head(<<b>>) = b
    BY <2>1, Shapes
  <2> QED BY <2>1, <2>2, <2>3
<1> QED BY <1>5, <1>9, <1>10, HostInv

LEMMA HostInStallInv ==
    ASSUME RegisterInv, HostInStall
    PROVE  RegisterInv'
<1>1. /\ host_stage = "reply" /\ host_stage' = "idle"
      /\ UNCHANGED <<role, reg, masked, todo, latch, ep_state_tx, ep_outstanig_rx_acks>>
  BY DEF HostInStall, driverVars
<1>2. Typed /\ EndpointTyped /\ SingleBuffered
  BY DEF RegisterInv, AccessInv
<1>3. HostStep
  BY <1>1, <1>2 DEF HostStep, EndpointTyped, Typed
<1>4. SingleBuffered'
  BY <1>1, <1>2 DEF SingleBuffered, Submitting, ReceivedPending, SentPending, IsDbl
<1>5. Visible' = Visible
  BY <1>1 DEF Visible
<1> QED BY <1>3, <1>4, <1>5, HostInv

----------------------------------------------------------------------------
(* The theorems.                                                             *)

LEMMA StutterInv ==
    ASSUME RegisterInv, UNCHANGED vars
    PROVE  RegisterInv'
<1>1. UNCHANGED <<role, reg, masked, todo, latch, ep_state_tx, ep_outstanig_rx_acks, host_stage>>
  BY DEF vars, driverVars, hostVars
<1>2. Pending' = Pending /\ IsDbl' = IsDbl /\ Visible' = Visible
  BY <1>1 DEF Pending, IsDbl, Visible
<1>3. Typed'
  BY <1>1 DEF RegisterInv, Typed
<1>4. OperationsFit'
  BY <1>1, <1>2, FitKept DEF RegisterInv, AccessInv, OperationsFit
<1>5. EndpointTyped' /\ LatchIsGood' /\ QuietSetup'
  BY <1>1, <1>2 DEF RegisterInv, AccessInv, EndpointTyped, LatchIsGood, QuietSetup
<1>6. SingleBuffered'
  BY <1>1, <1>2
     DEF RegisterInv, AccessInv, SingleBuffered, Submitting, ReceivedPending, SentPending
<1> QED BY <1>3, <1>4, <1>5, <1>6 DEF RegisterInv, AccessInv

LEMMA NextInv ==
    ASSUME RegisterInv, [Next]_vars
    PROVE  RegisterInv'
<1>1. CASE UNCHANGED vars
  BY <1>1, StutterInv
<1>2. CASE Driver
  <2>1. CASE ReadRegister
    BY <2>1, ReadInv
  <2>2. CASE WriteRegister
    BY <2>2, WriteInv
  <2>3. CASE Poll
    BY <2>3, PollInv
  <2>4. ASSUME NEW pause \in BOOLEAN, HandleBulkOut(pause) PROVE RegisterInv'
    BY <2>4, HandleBulkOutInv
  <2>5. CASE HandleSetup
    BY <2>5, HandleSetupInv
  <2>6. CASE HandleControlOut
    BY <2>6, HandleControlOutInv
  <2>7. CASE HandleIn
    BY <2>7, HandleInInv
  <2>8. CASE Unpause
    BY <2>8, UnpauseInv
  <2> QED BY <1>2, <2>1, <2>2, <2>3, <2>4, <2>5, <2>6, <2>7, <2>8 DEF Driver
<1>3. CASE Host
  <2>1. CASE HostIn
    BY <2>1, HostInInv
  <2>2. CASE HostOutControl
    BY <2>2, HostOutControlInv
  <2>3. CASE HostInStall
    BY <2>3, HostInStallInv
  <2>4. CASE HostResumes
    BY <2>4, HostResumesInv
  <2> QED BY <1>3, <2>1, <2>2, <2>3, <2>4 DEF Host
<1>4. CASE Transmit
  BY <1>4, TransmitInv
<1>5. CASE HostOutBulk
  BY <1>5, HostOutBulkInv
<1>6. ASSUME NEW kind \in {ReadRequest, WriteRequest, RefusedRequest}, HostSetup(kind)
      PROVE  RegisterInv'
  BY <1>6, HostSetupInv
<1>7. CASE Reconfigure
  BY <1>7, ReconfigureInv
<1>8. ASSUME NEW stall \in BOOLEAN, StallSet(stall) PROVE RegisterInv'
  BY <1>8, StallSetInv
<1> QED BY <1>1, <1>2, <1>3, <1>4, <1>5, <1>6, <1>7, <1>8 DEF Next

\* What the driver has read is still right when it writes, for the endpoint's type and for
\* the bits the operation is for; the peripheral and the host do not disturb what is under
\* way at a single-buffered endpoint, nor the set-up of any endpoint.
THEOREM RegisterInvariant == Spec => []RegisterInv
<1>1. RegisterInv /\ [Next]_vars => RegisterInv'
  BY NextInv
<1> QED BY <1>1, InitInv, PTL DEF Spec

THEOREM AccessInvariant == Spec => []AccessInv
<1>1. RegisterInv => AccessInv
  BY DEF RegisterInv
<1> QED BY <1>1, RegisterInvariant, PTL

\* A step that takes an access to the register off what there is to do is the write.
LEMMA OnlyWrites ==
    ASSUME RegisterInv, [Next]_vars,
           todo # <<>>, IsRegisterOp(Head(todo)), todo' = Tail(todo)
    PROVE  WriteRegister
<1>1. todo' # todo
  BY PendingFacts DEF RegisterInv
<1>2. ~UNCHANGED vars
  BY <1>1 DEF vars
<1>3. Head(todo).mask # {}
  BY DEF IsRegisterOp
<1>4. ~ReadRegister /\ ~HostResumes /\ ~HostIn /\ ~HostOutControl /\ ~HostInStall
  BY <1>1 DEF ReadRegister, HostResumes, HostIn, HostOutControl, HostInStall
<1>5. ~Poll /\ ~Unpause /\ ~Transmit /\ ~Reconfigure
  BY DEF Poll, Unpause, Transmit, Reconfigure
<1>6. ~HostOutBulk
  BY <1>1 DEF HostOutBulk
<1>7. \A kind \in {ReadRequest, WriteRequest, RefusedRequest} : ~HostSetup(kind)
  BY DEF HostSetup
<1>8. \A stall \in BOOLEAN : ~StallSet(stall)
  BY DEF StallSet
<1>9. \A what \in {"setup", "out", "in"} : ~NextIs(what)
  <2> SUFFICES ASSUME NEW what \in {"setup", "out", "in"}, NextIs(what) PROVE FALSE
    OBVIOUS
  <2>1. Head(todo) \in Pending /\ Head(todo).name = what
    BY PendingFacts DEF RegisterInv, NextIs
  <2>2. Fits(Head(todo))
    BY <2>1 DEF RegisterInv, AccessInv, OperationsFit
  <2> QED BY <1>3, <2>1, <2>2 DEF Fits
<1>10. ~HandleSetup /\ ~HandleControlOut /\ ~HandleIn /\ \A pause \in BOOLEAN : ~HandleBulkOut(pause)
  BY <1>9 DEF HandleSetup, HandleControlOut, HandleIn, HandleBulkOut
<1> QED BY <1>2, <1>4, <1>5, <1>6, <1>7, <1>8, <1>10 DEF Next, Driver, Host

\* Every write changes what its operation is for and nothing else, whatever the peripheral
\* changed since the driver read the register.
THEOREM AtomicAccess == Spec => AtomicEffect
<1> DEFINE Effect ==
        (todo # <<>> /\ IsRegisterOp(Head(todo)) /\ todo' = Tail(todo))
        => LET status == IF masked THEN StatRx \cup StatTx ELSE {}
           IN  reg' \ status = Intended(Head(todo), reg) \ status
<1>1. RegisterInv /\ [Next]_vars => Effect
  <2> SUFFICES ASSUME RegisterInv, [Next]_vars,
                      todo # <<>>, IsRegisterOp(Head(todo)), todo' = Tail(todo),
                      NEW status, status = IF masked THEN StatRx \cup StatTx ELSE {}
               PROVE  reg' \ status = Intended(Head(todo), reg) \ status
    OBVIOUS
  <2>1. WriteRegister
    BY OnlyWrites
  <2> QED BY <2>1, WriteEffect
<1>2. Spec => [][Effect]_vars
  <2> HIDE DEF Effect
  <2> QED BY <1>1, RegisterInvariant, PTL DEF Spec
<1> QED BY <1>2 DEF AtomicEffect

----------------------------------------------------------------------------
(* Packets and buffers.                                                      *)

\* The parity of the packets' numbers, by which the two buffers take turns.
LEMMA Parity ==
    ASSUME NEW n \in Nat
    PROVE  n % 2 \in {0, 1} /\ (n + 1) % 2 = 1 - (n % 2) /\ (n + 2) % 2 = n % 2
OBVIOUS

LEMMA PacketFacts ==
    ASSUME NEW n \in Nat
    PROVE  /\ Packet(n) \in Seq(Nat) /\ Len(Packet(n)) = 1 + (n % 3) /\ Len(Packet(n)) \in 1 .. 3
           /\ Packet(n) # <<>>
<1> DEFINE len == 1 + (n % 3)
<1>1. len \in 1 .. 3 /\ len \in Nat
  OBVIOUS
<1>2. Packet(n) = [i \in 1 .. len |-> 10 * n + i]
  BY DEF Packet
<1> HIDE DEF len
<1>3. \A i \in 1 .. len : 10 * n + i \in Nat
  BY <1>1
<1>4. Packet(n) \in Seq(Nat) /\ Len(Packet(n)) = len
  BY <1>1, <1>2, <1>3
<1>5. Packet(n) # <<>>
  BY <1>1, <1>4
<1> QED BY <1>1, <1>4, <1>5 DEF len

\* A buffer as the driver and the peripheral leave it.
BufferOK(buffer) == buffer.count \in 0 .. 3 /\ DOMAIN buffer.words = 1 .. 2

\* A packet written to a buffer is what is read from it, whatever was there before and
\* whatever goes to the unused half of the last word.
LEMMA PacketWritten ==
    ASSUME NEW buffer, BufferOK(buffer), NEW n \in Nat, NEW last,
           NEW b, b = WriteBytes(buffer, Packet(n), last)
    PROVE  /\ BufferOK(b) /\ b.count = Len(Packet(n)) /\ b.count > 0
           /\ CopyFromPma(b, PACKET_SIZE) = Packet(n)
<1> DEFINE p == Packet(n)
<1>1. Len(p) \in 1 .. 3 /\ Len(p) = 1 + (n % 3)
  BY PacketFacts
<1>2. p = [i \in 1 .. Len(p) |-> 10 * n + i]
  BY <1>1 DEF Packet
<1> HIDE DEF p
<1>3. /\ b.count = Len(p) /\ DOMAIN b.words = 1 .. 2
      /\ \A i \in 1 .. 2 : 2 * i <= Len(p) + 1 =>
            b.words[i] = <<p[2 * i - 1], IF 2 * i <= Len(p) THEN p[2 * i] ELSE last>>
  BY DEF WriteBytes, BufferOK, p
<1>4. imin(PACKET_SIZE, b.count) = Len(p)
  BY <1>1, <1>3 DEF imin, PACKET_SIZE
<1> DEFINE c == [i \in 1 .. Len(p) |-> b.words[(i + 1) \div 2][IF i % 2 = 1 THEN 1 ELSE 2]]
<1>5. CopyFromPma(b, PACKET_SIZE) = c
  BY <1>4 DEF CopyFromPma
<1>6. ASSUME NEW i \in 1 .. Len(p) PROVE c[i] = p[i]
  <2>1. CASE i = 1
    <3>1. (i + 1) \div 2 = 1 /\ i % 2 = 1 /\ b.words[1][1] = p[1]
      BY <1>1, <1>3, <2>1
    <3> QED BY <2>1, <3>1
  <2>2. CASE i = 2
    <3>1. (i + 1) \div 2 = 1 /\ i % 2 = 0 /\ b.words[1][2] = p[2]
      BY <1>1, <1>3, <2>2
    <3> QED BY <2>2, <3>1
  <2>3. CASE i = 3
    <3>1. (i + 1) \div 2 = 2 /\ i % 2 = 1 /\ b.words[2][1] = p[3]
      BY <1>1, <1>3, <2>3
    <3> QED BY <2>3, <3>1
  <2> QED BY <1>1, <2>1, <2>2, <2>3
<1>7. c = p
  BY <1>2, <1>6
<1> QED BY <1>1, <1>3, <1>5, <1>7 DEF BufferOK, p

\* An empty packet.
LEMMA EmptyWritten ==
    ASSUME NEW buffer, BufferOK(buffer), NEW last, NEW b, b = WriteBytes(buffer, <<>>, last)
    PROVE  BufferOK(b) /\ b.count = 0
BY DEF BufferOK, WriteBytes

LEMMA EmptyRead ==
    ASSUME NEW b, b.count = 0
    PROVE  CopyFromPma(b, PACKET_SIZE) = <<>>
<1>1. imin(PACKET_SIZE, b.count) = 0
  BY DEF imin, PACKET_SIZE
<1> QED BY <1>1 DEF CopyFromPma

\* A SETUP packet.
LEMMA SetupWritten ==
    ASSUME NEW buffer, BufferOK(buffer), NEW n, NEW kind, NEW last,
           NEW b, b = WriteBytes(buffer, Setup(n, kind), last)
    PROVE  /\ BufferOK(b) /\ b.count = 2
           /\ CopyFromPma(b, 8)[1] = n /\ CopyFromPma(b, 8)[2] = kind
<1> DEFINE p == <<n, kind>>
<1>1. Len(p) = 2 /\ p[1] = n /\ p[2] = kind
  OBVIOUS
<1>2. b = WriteBytes(buffer, p, last)
  BY DEF Setup
<1> HIDE DEF p
<1>3. b.count = 2 /\ DOMAIN b.words = 1 .. 2 /\ b.words[1] = <<p[1], p[2]>>
  BY <1>1, <1>2 DEF WriteBytes, BufferOK
<1>4. imin(8, b.count) = 2
  BY <1>3 DEF imin
<1>5. CopyFromPma(b, 8) = [i \in 1 .. 2 |-> b.words[(i + 1) \div 2][IF i % 2 = 1 THEN 1 ELSE 2]]
  BY <1>4 DEF CopyFromPma
<1>6. CopyFromPma(b, 8)[1] = b.words[1][1] /\ CopyFromPma(b, 8)[2] = b.words[1][2]
  BY <1>5
<1> QED BY <1>1, <1>3, <1>6 DEF BufferOK

\* The two buffers, one of which is written.
PmaOK == DOMAIN pma = {0, 1} /\ \A o \in {0, 1} : BufferOK(pma[o])

LEMMA OneBuffer ==
    ASSUME PmaOK, NEW o \in {0, 1}, NEW b, BufferOK(b), pma' = [pma EXCEPT ![o] = b]
    PROVE  PmaOK' /\ pma'[o] = b /\ \A q \in {0, 1} : q # o => pma'[q] = pma[q]
BY DEF PmaOK

\* What comes out next is the next packet in order.
Received == got \in Seq(Seq(Nat)) /\ InOrder

LEMMA NextReceived ==
    ASSUME Received, got' = Append(got, Packet(Len(got)))
    PROVE  Received' /\ Len(got') = Len(got) + 1 /\ Len(got) \in Nat
<1> DEFINE n == Len(got)
<1>1. n \in Nat /\ got \in Seq(Seq(Nat)) /\ \A i \in 1 .. n : got[i] = Packet(i - 1)
  BY DEF Received, InOrder
<1>2. Packet(n) \in Seq(Nat)
  BY <1>1, PacketFacts
<1>3. got' \in Seq(Seq(Nat)) /\ Len(got') = n + 1
  BY <1>1, <1>2
<1>4. ASSUME NEW i \in 1 .. n + 1 PROVE got'[i] = Packet(i - 1)
  <2>1. CASE i = n + 1
    <3>1. i - 1 = n /\ got'[i] = Packet(n)
      BY <1>1, <2>1
    <3> QED BY <3>1
  <2>2. CASE i # n + 1
    <3>1. i \in 1 .. n /\ got'[i] = got[i]
      BY <1>1, <2>2
    <3> QED BY <1>1, <3>1
  <2> QED BY <2>1, <2>2
<1> QED BY <1>1, <1>3, <1>4 DEF Received, InOrder

----------------------------------------------------------------------------
(* The register as the operations leave it.                                  *)

\* The peripheral's masking does not make a difference to other bits than the status.
LEMMA WriteExact ==
    ASSUME RegisterInv, WriteRegister, NEW op, op = Head(todo),
           ~masked \/ op.mask \cap (StatRx \cup StatTx) = {}
    PROVE  reg' = Intended(op, reg)
<1>1. PICK X : X = {}
  OBVIOUS
<1>2. CASE ~masked
  BY <1>2, WriteKeeps
<1>3. CASE op.mask \cap (StatRx \cup StatTx) = {}
  <2>1. Fits(op) /\ op.mask # {}
    BY WriteEffect
  <2>2. CASE op.name = "toggle_bits"
    <3>1. op.reads /\ op.val \subseteq op.mask /\ op.mask \subseteq ToggledBits
      BY <2>1, <2>2, BitFacts DEF Fits
    <3>2. reg \in SUBSET RegisterBits /\ Typed
      BY DEF RegisterInv, Typed
    <3>3. /\ op.reads => latch # NotRead
          /\ reg' = Written(reg, ValueToWrite(op, latch))
      BY DEF WriteRegister
    <3>4. /\ latch \cap RwBits = reg \cap RwBits
          /\ latch \cap op.mask = Visible \cap op.mask
      BY <2>2, <3>1, <3>3 DEF RegisterInv, AccessInv, LatchIsGood
    <3>5. (latch \cap op.mask) \ X = (reg \cap op.mask) \ X
      <4>1. Visible \ (StatRx \cup StatTx) = reg \ (StatRx \cup StatTx)
        BY <3>2, VisibleFacts
      <4> QED BY <1>3, <3>4, <4>1
    <3>6. latch \cap RwBits = reg \cap RwBits
      BY <3>4
    <3>7. Written(reg, ValueToWrite(op, latch)) \ X = Intended(op, reg) \ X
      BY <2>2, <3>1, <3>2, <3>6, <3>5, ToggleEffect
    <3> QED BY <1>1, <3>3, <3>7
  <2>3. CASE op.name # "toggle_bits"
    <3>1. reg' \ (StatRx \cup StatTx) = Intended(op, reg) \ (StatRx \cup StatTx)
      <4>1. CASE masked
        BY <4>1, WriteEffect
      <4>2. CASE ~masked
        BY <4>2, WriteKeeps
      <4> QED BY <4>1, <4>2
    <3>2. reg \in SUBSET RegisterBits /\ Typed
      BY DEF RegisterInv, Typed
    <3>3. reg' = Written(reg, ValueToWrite(op, latch)) /\ (op.reads => latch # NotRead)
      BY DEF WriteRegister
    <3>4. op.reads => latch \cap RwBits = reg \cap RwBits
      BY <3>3 DEF RegisterInv, AccessInv, LatchIsGood
    <3>5. CASE op.name = "ctr_clear"
      <4>1. op.reads /\ op.val = {} /\ op.mask \subseteq CtrBits
        BY <2>1, <3>5, BitFacts DEF Fits
      <4> QED BY <3>2, <3>3, <3>4, <3>5, <4>1, ClearEffect
    <3>6. CASE op.name = "set_all_rw_bits"
      <4>1. op.mask = RwBits /\ op.val \subseteq RwBits
        BY <2>1, <3>2, <3>6, TypeBitsFacts DEF Fits, Typed
      <4> QED BY <3>2, <3>3, <3>6, <4>1, SetAllEffect
    <3>7. CASE op.name = "sw_buf_toggle"
      <4>1. op.mask \subseteq ToggledBits
        BY <2>1, <3>7, BitFacts DEF Fits, SW_BUF_RX, SW_BUF_TX
      <4>2. reg \cap RwBits = {"KIND", "EA"}
        BY <2>1, <3>2, <3>7, TypeBitsFacts DEF Fits, Typed
      <4> QED BY <3>2, <3>3, <3>7, <4>1, <4>2, BufferEffect
    <3> QED BY <2>1, <2>3, <3>5, <3>6, <3>7 DEF Fits
  <2> QED BY <2>2, <2>3
<1> QED BY <1>2, <1>3

\* A masked VALID is disabled all the same: the bit that the driver sees is cleared.
LEMMA DisableMasked ==
    ASSUME RegisterInv, WriteRegister,
           Head(todo) = StatTxSet("disabled") \/ Head(todo) = StatRxSet("disabled")
    PROVE  /\ Head(todo) = StatTxSet("disabled") => ~(StatTx \subseteq reg')
           /\ Head(todo) = StatRxSet("disabled") => ~(StatRx \subseteq reg')
<1> DEFINE op == Head(todo)
<1>1. /\ op.name = "toggle_bits" /\ op.reads /\ op.val = {}
      /\ \/ op = StatTxSet("disabled") /\ op.mask = StatTx
         \/ op = StatRxSet("disabled") /\ op.mask = StatRx
  BY StatusOps DEF TxStatus, RxStatus
<1>2. /\ latch # NotRead /\ reg' = Written(reg, ValueToWrite(op, latch))
  BY <1>1 DEF WriteRegister
<1>3. latch \cap op.mask = Visible \cap op.mask
  BY <1>1, <1>2 DEF RegisterInv, AccessInv, LatchIsGood
<1>4. ASSUME NEW x \in {"STAT_TX1", "STAT_RX1"}, x \in op.mask PROVE x \notin reg'
  <2>1. x \in latch <=> x \in reg
    BY <1>3, <1>4 DEF Visible
  <2>2. ValueToWrite(op, latch) = Xor((latch \cap (RwBits \cup op.mask)) \cup CtrBits, {})
    BY <1>1 DEF ValueToWrite
  <2>3. x \in ToggledBits /\ x \notin CtrBits /\ x \notin RwBits /\ x # "SETUP"
    BY <1>4 DEF ToggledBits, CtrBits, RwBits, StatRx, StatTx
  <2>4. x \in ValueToWrite(op, latch) <=> x \in reg
    BY <1>4, <2>1, <2>2, <2>3 DEF Xor
  <2> QED BY <1>2, <2>3, <2>4 DEF Written, Xor
<1>5. StatTx # StatRx
  BY DEF StatTx, StatRx
<1>6. op.mask = StatTx => ~(StatTx \subseteq reg')
  <2>1. "STAT_TX1" \in StatTx
    BY DEF StatTx
  <2> QED BY <1>4, <2>1
<1>7. op.mask = StatRx => ~(StatRx \subseteq reg')
  <2>1. "STAT_RX1" \in StatRx
    BY DEF StatRx
  <2> QED BY <1>4, <2>1
<1>8. StatTxSet("disabled").mask = StatTx /\ StatRxSet("disabled").mask = StatRx
  BY StatusOps
<1> QED BY <1>6, <1>7, <1>8

\* The buffer bit of the role, which the software toggles to hand over a buffer.
BufferBit == IF role = "bulk_out" THEN SW_BUF_RX ELSE SW_BUF_TX

\* The mask after a write.
LEMMA MaskAfter ==
    ASSUME RegisterInv, WriteRegister, NEW op, op = Head(todo)
    PROVE  /\ ~Valid(reg') => ~masked'
           /\ op.name = "sw_buf_toggle" /\ op.mask = {BufferBit} => ~masked'
           /\ op.name = "ctr_clear" /\ "KIND" \in reg' /\ Valid(reg) /\ Valid(reg') =>
                 masked' = masked
           /\ /\ op.name = "toggle_bits" /\ op.mask \in {StatRx, StatTx}
              /\ "KIND" \in reg' /\ ~Valid(reg) /\ Valid(reg')
              => masked' = NoFreeBuffer(reg')
<1> DEFINE value == ValueToWrite(op, latch)
<1>1. masked' = MaskedAfterWrite(reg', value) /\ (op.reads => latch # NotRead)
  BY DEF WriteRegister
<1>2. masked' =
        IF ~("KIND" \in reg') \/ ~Valid(reg') THEN FALSE
        ELSE IF BufferBit \in value THEN FALSE
        ELSE IF Valid(reg) THEN masked ELSE NoFreeBuffer(reg')
  BY <1>1 DEF MaskedAfterWrite, BufferBit
<1>3. Fits(op) /\ masked \in BOOLEAN
  BY WriteEffect DEF RegisterInv, Typed
<1>4. BufferBit \in ToggledBits /\ BufferBit \notin RwBits /\ BufferBit \notin CtrBits
      /\ BufferBit \notin StatRx /\ BufferBit \notin StatTx
  BY DEF BufferBit, SW_BUF_RX, SW_BUF_TX, ToggledBits, RwBits, CtrBits, StatRx, StatTx
<1>5. op.name = "sw_buf_toggle" /\ op.mask = {BufferBit} => BufferBit \in value
  BY DEF ValueToWrite
<1>6. op.name = "ctr_clear" => BufferBit \notin value
  BY <1>4 DEF ValueToWrite
<1>7. op.name = "toggle_bits" /\ op.mask \in {StatRx, StatTx} => BufferBit \notin value
  <2>1. op.name = "toggle_bits" => op.val \subseteq op.mask
    BY <1>3 DEF Fits
  <2> QED BY <1>4, <2>1 DEF ValueToWrite, Xor
<1> HIDE DEF value
<1> QED BY <1>2, <1>3, <1>5, <1>6, <1>7

----------------------------------------------------------------------------
(* Types, and steps that change nothing of this.                             *)

\* What is shown of a step, besides RegisterInv.
Packets ==
    PmaOK /\ Received /\ DataInv /\ (role = "bulk_in" => ep_state_tx \in 0 .. 4)

\* Ranges of what no other part of the invariant speaks of.
Ranges ==
    /\ role \in Roles
    /\ latch \in (SUBSET RegisterBits) \cup {NotRead}
    /\ sent \in 0 .. MaxPackets
    /\ host_toggle \in BOOLEAN
    /\ host_stage \in {"quiet", "idle", "reply", "confirm", "data", "status"}
    /\ configs \in 0 .. MaxConfigs

\* The inductive invariant.
EndpointInv == RegisterInv /\ Ranges /\ Packets

LEMMA RangesKept ==
    ASSUME RegisterInv, Ranges, [Next]_vars
    PROVE  role' = role /\ Ranges'
<1>1. Visible \in SUBSET RegisterBits
  BY DEF RegisterInv, Typed, Visible
<1>2. CASE UNCHANGED vars
  BY <1>2 DEF vars, hostVars, historyVars, Ranges
<1>3. CASE ReadRegister
  BY <1>1, <1>3 DEF ReadRegister, Ranges, hostVars, historyVars
<1>4. CASE WriteRegister
  BY <1>4 DEF WriteRegister, Ranges, hostVars, historyVars
<1>5. CASE Poll
  BY <1>5 DEF Poll, Ranges, hostVars, historyVars
<1>6. ASSUME NEW pause \in BOOLEAN, HandleBulkOut(pause) PROVE role' = role /\ Ranges'
  BY <1>6 DEF HandleBulkOut, Ranges, hostVars
<1>7. CASE HandleSetup \/ HandleIn
  BY <1>7 DEF HandleSetup, HandleIn, Ranges, hostVars, historyVars
<1>8. CASE HandleControlOut \/ Unpause
  BY <1>8 DEF HandleControlOut, Unpause, Ranges, hostVars, historyVars
<1>9. CASE HostIn
  BY <1>9 DEF HostIn, Ranges
<1>10. CASE HostOutControl \/ HostInStall \/ HostResumes
  BY <1>10 DEF HostOutControl, HostInStall, HostResumes, Ranges, historyVars
<1>11. CASE Transmit
  BY <1>11, FsDevAssumption DEF Transmit, Ranges, hostVars
<1>12. CASE HostOutBulk
  BY <1>12, FsDevAssumption DEF HostOutBulk, Ranges
<1>13. ASSUME NEW kind \in {ReadRequest, WriteRequest, RefusedRequest}, HostSetup(kind)
       PROVE  role' = role /\ Ranges'
  BY <1>13, FsDevAssumption DEF HostSetup, Ranges
<1>14. CASE Reconfigure
  <2>1. /\ UNCHANGED <<role, latch>> /\ sent' = 0 /\ host_toggle' = FALSE
        /\ host_stage' = "quiet" /\ configs' = configs + 1 /\ configs < MaxConfigs
    BY <1>14 DEF Reconfigure
  <2>2. configs' \in 0 .. MaxConfigs /\ sent' \in 0 .. MaxPackets
    BY <2>1, FsDevAssumption DEF Ranges
  <2> QED BY <2>1, <2>2 DEF Ranges
<1>15. ASSUME NEW stall \in BOOLEAN, StallSet(stall) PROVE role' = role /\ Ranges'
  <2>1. /\ UNCHANGED <<role, latch, sent>> /\ host_toggle' \in {host_toggle, FALSE}
        /\ host_stage' = "quiet" /\ configs' = configs + 1 /\ configs < MaxConfigs
    BY <1>15 DEF StallSet, historyVars
  <2>2. configs' \in 0 .. MaxConfigs /\ sent' \in 0 .. MaxPackets
    BY <2>1, FsDevAssumption DEF Ranges
  <2> QED BY <2>1, <2>2 DEF Ranges
<1> QED BY <1>2, <1>3, <1>4, <1>5, <1>6, <1>7, <1>8, <1>9, <1>10, <1>11, <1>12, <1>13, <1>14,
           <1>15 DEF Next, Driver, Host

\* Reading the register, and no step at all.
LEMMA PacketsFrame ==
    ASSUME Packets, ReadRegister \/ UNCHANGED vars
    PROVE  Packets'
<1>1. UNCHANGED <<role, reg, masked, pma, todo, ep_state_rx, ep_state_tx, ep_outstanig_rx_acks,
                  sent, got, host_toggle, host_stage>>
  BY DEF ReadRegister, vars, driverVars, historyVars, hostVars
<1>2. Pending' = Pending /\ IsDbl' = IsDbl
  BY <1>1 DEF Pending, IsDbl
<1>3. TxDue' = TxDue /\ InDue' = InDue /\ SetupDue' = SetupDue /\ OutDue' = OutDue
  BY <1>1, <1>2 DEF TxDue, InDue, SetupDue, OutDue
<1>4. PmaOK' /\ Received'
  BY <1>1 DEF Packets, PmaOK, Received, InOrder
<1>5. OtherDirection' /\ DoubleSetup'
  BY <1>1, <1>2 DEF Packets, DataInv, OtherDirection, DoubleSetup, SetupList, Valid
<1>6. BulkOutInUse' /\ BulkInInUse'
  BY <1>1 DEF Packets, DataInv, BulkOutInUse, BulkInInUse, Holds, NoFreeBuffer
<1>7. SingleSetup' /\ SingleInUse'
  BY <1>1, <1>2, <1>3 DEF Packets, DataInv, SingleSetup, SingleInUse
<1>8. InterruptInUse'
  BY <1>1, <1>3 DEF Packets, DataInv, InterruptInUse, Holds
<1>9. ControlInUse'
  BY <1>1, <1>3 DEF Packets, DataInv, ControlInUse, AtRest, AwaitingReply, Confirming,
                    SendingData, AwaitingStatus, Holds, HoldsSetup
<1> QED BY <1>1, <1>4, <1>5, <1>6, <1>7, <1>8, <1>9 DEF Packets, DataInv

----------------------------------------------------------------------------
(* A double-buffered endpoint is set up.                                     *)

IsJoined(l, p, o) ==
    /\ l \in Seq(Operations) /\ Len(l) = Len(p) + Len(o)
    /\ \A i \in 1 .. Len(p) : l[i] = p[i]
    /\ \A i \in 1 .. Len(o) : l[Len(p) + i] = o[i]

LEMMA Joined ==
    ASSUME NEW p \in Seq(Operations), NEW o \in Seq(Operations)
    PROVE  IsJoined(p \o o, p, o)
BY DEF IsJoined

\* The operations, one by one.
LEMMA DoubleList ==
    ASSUME role \in {"bulk_out", "bulk_in"}
    PROVE  /\ SetupList \in Seq(Operations) /\ Len(SetupList) = 6
           /\ SetupList[1] = StatTxSet("disabled") /\ SetupList[2] = StatRxSet("disabled")
           /\ SetupList[3] = SetAllRwBits(TypeBits(role))
           /\ SetupList[4] = (IF role = "bulk_out" THEN DtogRxClear ELSE DtogTxClear)
           /\ SetupList[5] = (IF role = "bulk_out" THEN SwBufRxSet ELSE SwBufTxClear)
           /\ SetupList[6] = (IF role = "bulk_out" THEN StatRxSet("valid") ELSE StatTxSet("valid"))
           /\ SetupOps(role) \in Seq(Operations) /\ Len(SetupOps(role)) = 4
           /\ \A i \in 1 .. 4 : SetupOps(role)[i] = SetupList[2 + i]
<1> DEFINE td == StatTxSet("disabled")
           rd == StatRxSet("disabled")
           all == SetAllRwBits(TypeBits(role))
           a == IF role = "bulk_out" THEN DtogRxClear ELSE DtogTxClear
           b == IF role = "bulk_out" THEN SwBufRxSet ELSE SwBufTxClear
           c == IF role = "bulk_out" THEN StatRxSet("valid") ELSE StatTxSet("valid")
           s == EpSetupOps(role)
           o == SetupOps(role)
<1>1. s = <<a, b, c>>
  BY DEF EpSetupOps
<1>2. o \in Seq(Operations)
  BY SetupFacts
<1>3. td \in Operations /\ rd \in Operations
  BY StatusOps
<1>4. o = <<all>> \o s
  BY DEF SetupOps
<1>5. SetupList = <<td, rd>> \o o
  BY DEF SetupList
<1> HIDE DEF td, rd, all, a, b, c, s, o
<1>6. Len(o) = 4 /\ o[1] = all /\ o[2] = a /\ o[3] = b /\ o[4] = c
  BY <1>1, <1>4
<1> DEFINE p == <<td, rd>>
           l == p \o o
<1>7. /\ l \in Seq(Operations) /\ Len(l) = 6 /\ l[1] = td /\ l[2] = rd
      /\ \A i \in 1 .. 4 : o[i] = l[2 + i]
  <2>1. p \in Seq(Operations) /\ Len(p) = 2 /\ p[1] = td /\ p[2] = rd
    BY <1>3
  <2>3. l = p \o o
    OBVIOUS
  <2> HIDE DEF p, l
  <2>2. IsJoined(p \o o, p, o)
    BY <1>2, <2>1, Joined
  <2> QED BY <1>6, <2>1, <2>2, <2>3 DEF IsJoined
<1> HIDE DEF l
<1>8. l[3] = all /\ l[4] = a /\ l[5] = b /\ l[6] = c
  BY <1>6, <1>7
<1> QED BY <1>2, <1>5, <1>6, <1>7, <1>8 DEF td, rd, all, a, b, c, o, p, l

\* How far the set-up is.
SetupAt(n) ==
    /\ Len(todo) = 6 - n /\ \A i \in 1 .. Len(todo) : todo[i] = SetupList[n + i]
    /\ sent = 0 /\ got = <<>> /\ ~host_toggle /\ ep_outstanig_rx_acks = 0
    /\ ep_state_tx = TxStateAfterSetup(role) /\ ep_state_rx = RxStateAfterSetup(role)
    /\ n \in 2 .. 5 \/ (n = 1 /\ role = "bulk_in") => ~Valid(reg) /\ ~masked
    /\ n >= 4 => (IF role = "bulk_in" THEN "DTOG_TX" ELSE "DTOG_RX") \notin reg
    /\ n >= 5 => (IF role = "bulk_in" THEN SW_BUF_TX \notin reg ELSE SW_BUF_RX \in reg)
    /\ n = 6 => Valid(reg) /\ (masked <=> role = "bulk_in")

LEMMA SetupAtFacts ==
    ASSUME Typed, IsDbl, host_stage = "quiet"
    PROVE  DoubleSetup <=> \E n \in 0 .. 6 : SetupAt(n)
<1>1. Len(todo) \in Nat
  BY DEF Typed
<1>2. ASSUME DoubleSetup PROVE \E n \in 0 .. 6 : SetupAt(n)
  <2>1. PICK n \in 0 .. 6 : n = 6 - Len(todo)
    BY <1>1, <1>2 DEF DoubleSetup
  <2>2. Len(todo) = 6 - n
    BY <1>1, <2>1
  <2>3. SetupAt(n)
    BY <1>2, <2>1, <2>2 DEF DoubleSetup, SetupAt
  <2> QED BY <2>3
<1>3. ASSUME NEW n \in 0 .. 6, SetupAt(n) PROVE DoubleSetup
  <2>1. n = 6 - Len(todo)
    BY <1>1, <1>3 DEF SetupAt
  <2> QED BY <1>3, <2>1 DEF DoubleSetup, SetupAt
<1> QED BY <1>2, <1>3

LEMMA SetupAtPrimed ==
    ASSUME Typed', IsDbl', host_stage' = "quiet", NEW n \in 0 .. 6, SetupAt(n)'
    PROVE  DoubleSetup'
<1>1. Len(todo)' \in Nat
  BY DEF Typed
<1>2. n = 6 - Len(todo)'
  BY <1>1 DEF SetupAt
<1> QED BY <1>2 DEF DoubleSetup, SetupAt

\* One operation of it.
LEMMA DoubleSetupWrite ==
    ASSUME RegisterInv, RegisterInv', role \in {"bulk_out", "bulk_in"}, host_stage = "quiet",
           DoubleSetup, WriteRegister
    PROVE  DoubleSetup'
<1> DEFINE op == Head(todo)
<1>1. /\ todo # <<>> /\ todo' = Tail(todo) /\ host_stage' = "quiet"
      /\ UNCHANGED <<role, sent, got, host_toggle, ep_outstanig_rx_acks, ep_state_tx, ep_state_rx>>
  BY DEF WriteRegister, driverVars, historyVars, hostVars
<1>2. Typed /\ Typed' /\ EndpointTyped' /\ IsDbl /\ IsDbl'
  BY <1>1 DEF RegisterInv, AccessInv, IsDbl
<1>3. PICK n \in 0 .. 6 : SetupAt(n)
  BY <1>2, SetupAtFacts
<1>4. /\ todo \in Seq(Operations) /\ Len(todo) = 6 - n
      /\ \A i \in 1 .. Len(todo) : todo[i] = SetupList[n + i]
  BY <1>2, <1>3 DEF Typed, SetupAt
<1>5. n \in 0 .. 5 /\ op = SetupList[n + 1]
  BY <1>1, <1>4
<1>6. /\ Len(todo') = 6 - (n + 1)
      /\ \A i \in 1 .. Len(todo') : todo'[i] = SetupList[(n + 1) + i]
  <2>1. Len(todo') = Len(todo) - 1 /\ \A i \in 1 .. Len(todo') : todo'[i] = todo[i + 1]
    BY <1>1, <1>4
  <2>2. \A i \in 1 .. Len(todo') : i + 1 \in 1 .. Len(todo) /\ n + (i + 1) = (n + 1) + i
    BY <1>4, <1>5, <2>1
  <2> QED BY <1>4, <1>5, <2>1, <2>2
<1>7. SetupList' = SetupList
  BY <1>1 DEF SetupList
<1>8. /\ SetupList[1] = StatTxSet("disabled") /\ SetupList[2] = StatRxSet("disabled")
      /\ SetupList[3] = SetAllRwBits(TypeBits(role))
      /\ SetupList[4] = (IF role = "bulk_out" THEN DtogRxClear ELSE DtogTxClear)
      /\ SetupList[5] = (IF role = "bulk_out" THEN SwBufRxSet ELSE SwBufTxClear)
      /\ SetupList[6] = (IF role = "bulk_out" THEN StatRxSet("valid") ELSE StatTxSet("valid"))
  BY DoubleList
<1>9. n \in 2 .. 5 \/ (n = 1 /\ role = "bulk_in") => ~Valid(reg) /\ ~masked
  BY <1>3 DEF SetupAt
<1>10. /\ ~Valid(reg') => ~masked'
       /\ ~masked => reg' = Intended(op, reg)
  BY MaskAfter, WriteExact
<1> DEFINE After(m) ==
        /\ m \in 2 .. 5 \/ (m = 1 /\ role = "bulk_in") => ~Valid(reg') /\ ~masked'
        /\ m >= 4 => (IF role = "bulk_in" THEN "DTOG_TX" ELSE "DTOG_RX") \notin reg'
        /\ m >= 5 => (IF role = "bulk_in" THEN SW_BUF_TX \notin reg' ELSE SW_BUF_RX \in reg')
        /\ m = 6 => Valid(reg') /\ (masked' <=> role = "bulk_in")
<1>11. ASSUME n = 0 PROVE After(1)
  <2>1. op = StatTxSet("disabled")
    BY <1>5, <1>8, <1>11
  <2>2. role = "bulk_in" => ~Valid(reg')
    BY <1>1, <2>1, DisableMasked DEF Valid
  <2> QED BY <1>10, <1>11, <2>2
<1>12. ASSUME n = 1 PROVE After(2)
  <2>1. op = StatRxSet("disabled")
    BY <1>5, <1>8, <1>12
  <2>2. role = "bulk_out" => ~Valid(reg')
    BY <1>1, <2>1, DisableMasked DEF Valid
  <2>3. role = "bulk_in" => ~Valid(reg')
    <3> SUFFICES ASSUME role = "bulk_in" PROVE ~Valid(reg')
      OBVIOUS
    <3>1. op.name = "toggle_bits" /\ op.mask = StatRx /\ op.val = {}
      BY <2>1, StatusOps DEF RxStatus
    <3>2. reg' = reg \ StatRx
      BY <1>9, <1>10, <1>12, <3>1 DEF Intended
    <3>3. ~(StatTx \subseteq reg)
      BY <1>9, <1>12 DEF Valid
    <3> QED BY <1>1, <3>2, <3>3 DEF Valid
  <2> QED BY <1>10, <1>12, <2>2, <2>3
<1>13. ASSUME n = 2 PROVE After(3)
  <2>1. op = SetAllRwBits(TypeBits(role)) /\ TypeBits(role) \in SUBSET RwBits
    BY <1>2, <1>5, <1>8, <1>13, TypeBitsFacts DEF Typed
  <2>2. op.name = "set_all_rw_bits" /\ op.mask = RwBits /\ op.val \subseteq RwBits
    BY <2>1, SetAllFacts
  <2>3. reg' = (reg \ RwBits) \cup op.val
    BY <1>9, <1>10, <1>13, <2>2 DEF Intended
  <2>4. ~Valid(reg')
    <3>1. StatTx \cap RwBits = {} /\ StatRx \cap RwBits = {}
      BY BitFacts, Kinds
    <3>2. ~Valid(reg)
      BY <1>9, <1>13
    <3> QED BY <1>1, <2>2, <2>3, <3>1, <3>2 DEF Valid
  <2> QED BY <1>10, <1>13, <2>4
<1>14. ASSUME n = 3 PROVE After(4)
  <2>1. op = (IF role = "bulk_out" THEN DtogRxClear ELSE DtogTxClear)
    BY <1>5, <1>8, <1>14
  <2>2. /\ op.name = "toggle_bits" /\ op.val = {}
        /\ op.mask = (IF role = "bulk_out" THEN {"DTOG_RX"} ELSE {"DTOG_TX"})
    BY <2>1 DEF DtogRxClear, DtogTxClear, ToggleBits
  <2>3. reg' = reg \ op.mask
    BY <1>9, <1>10, <1>14, <2>2 DEF Intended
  <2>4. ~Valid(reg')
    <3>1. ~Valid(reg)
      BY <1>9, <1>14
    <3> QED BY <1>1, <2>3, <3>1 DEF Valid
  <2> QED BY <1>10, <1>14, <2>2, <2>3, <2>4
<1>15. ASSUME n = 4 PROVE After(5)
  <2>1. op = (IF role = "bulk_out" THEN SwBufRxSet ELSE SwBufTxClear)
    BY <1>5, <1>8, <1>15
  <2>2. /\ op.name = "toggle_bits"
        /\ op.val = (IF role = "bulk_out" THEN {"DTOG_TX"} ELSE {})
        /\ op.mask = (IF role = "bulk_out" THEN {"DTOG_TX"} ELSE {"DTOG_RX"})
    BY <2>1 DEF SwBufRxSet, SwBufTxClear, ToggleBits, SW_BUF_RX, SW_BUF_TX
  <2>3. reg' = (reg \ op.mask) \cup op.val
    BY <1>9, <1>10, <1>15, <2>2 DEF Intended
  <2>4. ~Valid(reg')
    <3>1. ~Valid(reg)
      BY <1>9, <1>15
    <3>2. "DTOG_TX" \notin StatTx /\ "DTOG_TX" \notin StatRx
      BY DEF StatTx, StatRx
    <3> QED BY <1>1, <2>2, <2>3, <3>1, <3>2 DEF Valid
  <2>5. (IF role = "bulk_in" THEN "DTOG_TX" ELSE "DTOG_RX") \notin reg'
    BY <1>3, <1>15, <2>2, <2>3 DEF SetupAt
  <2>6. IF role = "bulk_in" THEN SW_BUF_TX \notin reg' ELSE SW_BUF_RX \in reg'
    BY <2>2, <2>3 DEF SW_BUF_TX, SW_BUF_RX
  <2> QED BY <1>10, <1>15, <2>4, <2>5, <2>6
<1>16. ASSUME n = 5 PROVE After(6)
  <2>1. op = (IF role = "bulk_out" THEN StatRxSet("valid") ELSE StatTxSet("valid"))
    BY <1>5, <1>8, <1>16
  <2>2. /\ op.name = "toggle_bits" /\ op.val = op.mask
        /\ op.mask = (IF role = "bulk_out" THEN StatRx ELSE StatTx)
    BY <2>1, StatusOps, StatusFacts
  <2>3. reg' = (reg \ op.mask) \cup op.mask
    BY <1>9, <1>10, <1>16, <2>2 DEF Intended
  <2>4. Valid(reg') /\ ~Valid(reg)
    BY <1>1, <1>9, <1>16, <2>2, <2>3 DEF Valid
  <2>5. "KIND" \in reg'
    <3>1. Len(todo') = 0
      BY <1>6, <1>16
    <3>2. Pending' = {}
      BY <1>2, <3>1 DEF Pending, Typed
    <3>3. reg' \cap RwBits = TypeBits(role)
      BY <1>1, <1>2, <3>2 DEF EndpointTyped
    <3> QED BY <1>2, <3>3, TypeBitsFacts DEF Typed
  <2>6. masked' = NoFreeBuffer(reg')
    BY <2>2, <2>4, <2>5, MaskAfter
  <2>7. \A x \in {"DTOG_TX", "DTOG_RX"} : x \in reg' <=> x \in reg
    <3>1. "DTOG_TX" \notin StatTx /\ "DTOG_TX" \notin StatRx
          /\ "DTOG_RX" \notin StatTx /\ "DTOG_RX" \notin StatRx
      BY DEF StatTx, StatRx
    <3> QED BY <2>2, <2>3, <3>1
  <2>8. /\ (IF role = "bulk_in" THEN "DTOG_TX" ELSE "DTOG_RX") \notin reg'
        /\ IF role = "bulk_in" THEN SW_BUF_TX \notin reg' ELSE SW_BUF_RX \in reg'
    BY <1>3, <1>16, <2>7 DEF SetupAt, SW_BUF_TX, SW_BUF_RX
  <2>9. masked' <=> role = "bulk_in"
    <3>1. NoFreeBuffer(reg') <=> role = "bulk_in"
      BY <2>8 DEF NoFreeBuffer, SW_BUF_TX, SW_BUF_RX
    <3>2. masked' \in BOOLEAN
      BY <1>2 DEF Typed
    <3> QED BY <2>6, <3>1, <3>2
  <2> QED BY <1>16, <2>4, <2>8, <2>9
<1>17. After(n + 1)
  BY <1>5, <1>11, <1>12, <1>13, <1>14, <1>15, <1>16
<1> DEFINE m == n + 1
<1>18. m \in 0 .. 6 /\ After(m) /\ Len(todo') = 6 - m
       /\ \A i \in 1 .. Len(todo') : todo'[i] = SetupList[m + i]
  BY <1>5, <1>6, <1>17
<1> HIDE DEF m
<1>19. SetupAt(m)'
  BY <1>1, <1>3, <1>7, <1>18
     DEF SetupAt, Valid, TxStateAfterSetup, RxStateAfterSetup
<1> QED BY <1>1, <1>2, <1>18, <1>19, SetupAtPrimed

\* It begins with Reconfigure, and is half done in Init.
LEMMA DoubleSetupBegins ==
    ASSUME RegisterInv, RegisterInv', role \in {"bulk_out", "bulk_in"}, Reconfigure
    PROVE  DoubleSetup'
<1>1. /\ todo' = SetupList /\ host_stage' = "quiet" /\ role' = role
      /\ sent' = 0 /\ got' = <<>> /\ host_toggle' = FALSE /\ ep_outstanig_rx_acks' = 0
      /\ ep_state_tx' = TxStateAfterSetup(role) /\ ep_state_rx' = RxStateAfterSetup(role)
  BY DEF Reconfigure, SetupList
<1>2. Typed' /\ IsDbl' /\ 0 \in 0 .. 6
  BY <1>1 DEF RegisterInv, IsDbl
<1>3. SetupList' = SetupList /\ Len(SetupList) = 6
  BY <1>1, DoubleList DEF SetupList
<1>4. Len(todo') = 6 - 0 /\ \A i \in 1 .. Len(todo') : todo'[i] = SetupList[0 + i]
  BY <1>1, <1>3
<1>5. SetupAt(0)'
  BY <1>1, <1>3, <1>4 DEF SetupAt, TxStateAfterSetup, RxStateAfterSetup
<1> QED BY <1>1, <1>2, <1>5, SetupAtPrimed

LEMMA DoubleSetupInit ==
    ASSUME Init, RegisterInv, role \in {"bulk_out", "bulk_in"}
    PROVE  DoubleSetup
<1>1. /\ todo = SetupOps(role) /\ host_stage = "quiet" /\ reg = {} /\ masked = FALSE
      /\ sent = 0 /\ got = <<>> /\ host_toggle = FALSE /\ ep_outstanig_rx_acks = 0
      /\ ep_state_tx = TxStateAfterSetup(role) /\ ep_state_rx = RxStateAfterSetup(role)
  BY DEF Init
<1>2. Len(todo) = 6 - 2 /\ \A i \in 1 .. Len(todo) : todo[i] = SetupList[2 + i]
  BY <1>1, DoubleList
<1>3. ~Valid(reg)
  BY <1>1, BitFacts DEF Valid
<1>4. SetupAt(2) /\ 2 \in 0 .. 6
  BY <1>1, <1>2, <1>3 DEF SetupAt
<1>5. Typed /\ IsDbl
  BY DEF RegisterInv, IsDbl
<1> QED BY <1>1, <1>4, <1>5, SetupAtFacts

\* It is over: nothing is left to do, and the register is as a new endpoint's.
LEMMA DoubleSetupOver ==
    ASSUME Typed, role \in {"bulk_out", "bulk_in"}, host_stage = "quiet", DoubleSetup, todo = <<>>
    PROVE  /\ sent = 0 /\ got = <<>> /\ ~host_toggle /\ ep_outstanig_rx_acks = 0
           /\ ep_state_tx = TxStateAfterSetup(role) /\ ep_state_rx = RxStateAfterSetup(role)
           /\ "DTOG_RX" \notin reg
           /\ "DTOG_TX" \in reg <=> role = "bulk_out"
           /\ Valid(reg) /\ (masked <=> role = "bulk_in")
<1>1. IsDbl
  BY DEF IsDbl
<1>2. PICK n \in 0 .. 6 : SetupAt(n)
  BY <1>1, SetupAtFacts
<1>3. n = 6
  BY <1>2 DEF SetupAt
<1>4. SetupAt(6)
  BY <1>2, <1>3
<1> QED BY <1>4 DEF SetupAt, SW_BUF_TX, SW_BUF_RX

----------------------------------------------------------------------------
(* A double-buffered OUT endpoint.                                           *)

\* What there is to do at a double-buffered endpoint in use.
LEMMA BulkShapes ==
    ASSUME NEW k \in Operations, NEW c \in Operations, NEW g \in Operations,
           k.name = "ctr_clear", c.name \in {"out", "in"}, g.name = "sw_buf_toggle"
    PROVE  /\ Head(<<k, c>>) = k /\ Tail(<<k, c>>) = <<c>>
           /\ Head(<<c>>) = c /\ Tail(<<c>>) = <<>>
           /\ Head(<<g>>) = g /\ Tail(<<g>>) = <<>>
           /\ <<k, c>> # <<>> /\ <<k, c>> # <<c>> /\ <<k, c>> # <<g>>
           /\ <<c>> # <<>> /\ <<g>> # <<>> /\ <<c>> # <<g>>
<1>1. /\ Head(<<k, c>>) = k /\ Tail(<<k, c>>) = <<c>>
      /\ Head(<<c>>) = c /\ Tail(<<c>>) = <<>>
      /\ Head(<<g>>) = g /\ Tail(<<g>>) = <<>>
  BY Shapes
<1>2. c # g
  OBVIOUS
<1>3. <<c>> # <<g>>
  BY <1>1, <1>2
<1>4. <<c>> # <<>> /\ <<g>> # <<>> /\ <<k, c>> # <<>>
  OBVIOUS
<1>5. <<k, c>> # <<c>> /\ <<k, c>> # <<g>>
  BY <1>1, <1>4
<1> QED BY <1>1, <1>3, <1>4, <1>5

\* Whether there is a packet not yet read, and whether a buffer is being given back.
OutShape(unread, returned) ==
    \/ unread /\ ~returned /\ "CTR_RX" \in reg /\ todo \in {<<>>, <<CtrRxClear, Call("out")>>}
    \/ unread /\ ~returned /\ "CTR_RX" \notin reg /\ todo = <<Call("out")>>
    \/ ~unread /\ ~returned /\ "CTR_RX" \notin reg /\ todo = <<>>
    \/ ~unread /\ returned /\ "CTR_RX" \notin reg /\ todo = <<SwBufToggle(SW_BUF_RX)>>
OutWith(unread, returned) ==
    LET n == Len(got)
    IN  /\ StatRx \subseteq reg
        /\ host_toggle <=> "DTOG_RX" \in reg
        /\ "DTOG_RX" \in reg <=> sent % 2 = 1
        /\ masked <=> ("DTOG_RX" \in reg <=> "DTOG_TX" \in reg)
        /\ masked <=> unread \/ returned \/ ep_outstanig_rx_acks = 1
        /\ unread \/ returned => ep_outstanig_rx_acks = 0
        /\ ep_outstanig_rx_acks \in 0 .. 1
        /\ ep_state_rx = dbl_buf_ready_0 + 2 * ep_outstanig_rx_acks + (n % 2)
        /\ IF unread THEN sent = n + 1 /\ Holds(n % 2, Packet(n)) ELSE sent = n

LEMMA OutOps ==
    /\ CtrRxClear \in Operations /\ CtrRxClear.name = "ctr_clear"
    /\ CtrRxClear.mask = {"CTR_RX"} /\ CtrRxClear.val = {}
    /\ Call("out") \in Operations /\ Call("out").name = "out" /\ Call("out").mask = {}
    /\ SwBufToggle(SW_BUF_RX) \in Operations /\ SwBufToggle(SW_BUF_RX).name = "sw_buf_toggle"
    /\ SwBufToggle(SW_BUF_RX).mask = {"DTOG_TX"}
    /\ SW_BUF_RX = "DTOG_TX"
<1>1. SW_BUF_RX = "DTOG_TX"
  BY DEF SW_BUF_RX
<1>2. SwBufToggle(SW_BUF_RX) \in Operations /\ SwBufToggle(SW_BUF_RX).name = "sw_buf_toggle"
      /\ SwBufToggle(SW_BUF_RX).mask = {SW_BUF_RX}
  BY BufferFacts
<1> QED BY <1>1, <1>2, ClearFacts, CallFacts

LEMMA OutTodo ==
    LET k == CtrRxClear
        c == Call("out")
        g == SwBufToggle(SW_BUF_RX)
    IN  /\ Head(<<k, c>>) = k /\ Tail(<<k, c>>) = <<c>>
        /\ Head(<<c>>) = c /\ Tail(<<c>>) = <<>>
        /\ Head(<<g>>) = g /\ Tail(<<g>>) = <<>>
        /\ <<k, c>> # <<>> /\ <<k, c>> # <<c>> /\ <<k, c>> # <<g>>
        /\ <<c>> # <<>> /\ <<g>> # <<>> /\ <<c>> # <<g>>
BY OutOps, BulkShapes

LEMMA OutCases ==
    ASSUME role = "bulk_out", host_stage = "idle", BulkOutInUse
    PROVE  \E unread, returned \in BOOLEAN :
              OutShape(unread, returned) /\ OutWith(unread, returned)
<1> DEFINE unread == "CTR_RX" \in reg \/ todo = <<Call("out")>>
           returned == todo = <<SwBufToggle(SW_BUF_RX)>>
<1>1. unread \in BOOLEAN /\ returned \in BOOLEAN
  OBVIOUS
<1>2. OutWith(unread, returned)
  <2>1. NoFreeBuffer(reg) <=> ("DTOG_RX" \in reg <=> "DTOG_TX" \in reg)
    BY DEF NoFreeBuffer, SW_BUF_RX
  <2> QED BY <2>1 DEF BulkOutInUse, OutWith
<1>3. OutShape(unread, returned)
  BY OutTodo DEF BulkOutInUse, OutShape
<1> QED BY <1>1, <1>2, <1>3

\* After a step.
LEMMA OutKept ==
    ASSUME role' = "bulk_out", host_stage' = "idle",
           NEW unread \in BOOLEAN, NEW returned \in BOOLEAN,
           OutShape(unread, returned)', OutWith(unread, returned)'
    PROVE  BulkOutInUse'
<1>1. NoFreeBuffer(reg)' <=> ("DTOG_RX" \in reg' <=> "DTOG_TX" \in reg')
  BY DEF NoFreeBuffer, SW_BUF_RX
<1>2. /\ "CTR_RX" \in reg' => todo' \in {<<>>, <<CtrRxClear, Call("out")>>}
      /\ "CTR_RX" \notin reg' => todo' \in {<<>>, <<Call("out")>>, <<SwBufToggle(SW_BUF_RX)>>}
      /\ unread <=> "CTR_RX" \in reg' \/ todo' = <<Call("out")>>
      /\ returned <=> todo' = <<SwBufToggle(SW_BUF_RX)>>
  BY OutTodo DEF OutShape
<1> QED BY <1>1, <1>2 DEF BulkOutInUse, OutWith

\* What has to be shown of a step at this kind of endpoint, in use.
LEMMA OutPackets ==
    ASSUME role = "bulk_out", role' = role, host_stage' = "idle",
           PmaOK', Received', ep_state_tx' = sgl_buf_0_pkts, "CTR_TX" \notin reg',
           BulkOutInUse'
    PROVE  Packets'
<1>1. OtherDirection' /\ DoubleSetup' /\ BulkInInUse'
  BY DEF OtherDirection, DoubleSetup, BulkInInUse
<1>2. IsDbl'
  BY DEF IsDbl
<1>3. SingleSetup' /\ SingleInUse' /\ InterruptInUse' /\ ControlInUse'
  BY <1>2 DEF SingleSetup, SingleInUse, InterruptInUse, ControlInUse
<1> QED BY <1>1, <1>3 DEF Packets, DataInv

\* An access to the register.
LEMMA OutWrite ==
    ASSUME EndpointInv, role = "bulk_out", host_stage = "idle", WriteRegister
    PROVE  Packets'
<1> DEFINE op == Head(todo)
           k == CtrRxClear
           c == Call("out")
           g == SwBufToggle(SW_BUF_RX)
<1>1. /\ todo # <<>> /\ op.mask # {} /\ todo' = Tail(todo)
      /\ UNCHANGED <<role, pma, sent, got, host_toggle, host_stage, ep_outstanig_rx_acks,
                     ep_state_tx, ep_state_rx>>
  BY DEF WriteRegister, driverVars, historyVars, hostVars, IsRegisterOp
<1>2. PICK unread \in BOOLEAN, returned \in BOOLEAN : OutShape(unread, returned) /\ OutWith(unread, returned)
  BY OutCases DEF EndpointInv, Packets, DataInv
<1>3. /\ masked \in BOOLEAN /\ reg \cap RwBits = TypeBits(role) /\ TypeBits(role) = {"KIND", "EA"}
      /\ ep_state_tx = sgl_buf_0_pkts /\ "CTR_TX" \notin reg /\ PmaOK /\ Received
  BY TypeBitsFacts
     DEF EndpointInv, RegisterInv, Typed, AccessInv, EndpointTyped, Packets, DataInv, OtherDirection, IsDbl
<1>4. PmaOK' /\ Received' /\ ep_state_tx' = sgl_buf_0_pkts
  BY <1>1, <1>3 DEF PmaOK, Received, InOrder
<1>5. CASE todo = <<k, c>>
  <2>1. op = k /\ todo' = <<c>>
    BY <1>1, <1>5, OutTodo
  <2>2. reg' = reg \ {"CTR_RX"}
    <3>1. op.mask \cap (StatRx \cup StatTx) = {}
      BY <2>1, OutOps DEF StatRx, StatTx
    <3>2. reg' = Intended(op, reg)
      BY <3>1, WriteExact DEF EndpointInv
    <3> QED BY <2>1, <3>2, OutOps DEF Intended
  <2>3. unread /\ ~returned
    BY <1>2, <1>5, OutTodo DEF OutShape
  <2>4. StatRx \subseteq reg /\ StatRx \subseteq reg' /\ Valid(reg) /\ Valid(reg') /\ "KIND" \in reg'
    BY <1>2, <1>3, <2>2 DEF OutWith, Valid, StatRx
  <2>5. masked' = masked
    BY <2>1, <2>4, MaskAfter, OutOps DEF EndpointInv
  <2>6. OutShape(TRUE, FALSE)'
    BY <2>1, <2>2 DEF OutShape
  <2>7. OutWith(TRUE, FALSE)'
    BY <1>1, <1>2, <2>2, <2>3, <2>4, <2>5 DEF OutWith, Holds
  <2> QED BY <1>1, <1>3, <1>4, <2>2, <2>6, <2>7, OutKept, OutPackets
<1>6. CASE todo = <<g>>
  <2>1. op = g /\ todo' = <<>>
    BY <1>1, <1>6, OutTodo
  <2>2. reg' = Xor(reg, {"DTOG_TX"})
    <3>1. op.mask \cap (StatRx \cup StatTx) = {}
      BY <2>1, OutOps DEF StatRx, StatTx
    <3>2. reg' = Intended(op, reg)
      BY <3>1, WriteExact DEF EndpointInv
    <3> QED BY <2>1, <3>2, OutOps DEF Intended
  <2>3. ~unread /\ returned /\ "CTR_RX" \notin reg
    BY <1>2, <1>6, OutTodo DEF OutShape
  <2>4. /\ StatRx \subseteq reg' /\ ("CTR_RX" \in reg' <=> "CTR_RX" \in reg)
        /\ "CTR_TX" \notin reg'
        /\ "DTOG_RX" \in reg' <=> "DTOG_RX" \in reg
        /\ "DTOG_TX" \in reg' <=> "DTOG_TX" \notin reg
    BY <1>2, <1>3, <2>2 DEF OutWith, StatRx, Xor
  <2>5. ~masked'
    BY <2>1, MaskAfter, OutOps DEF EndpointInv, BufferBit
  <2>6. OutShape(FALSE, FALSE)'
    BY <2>1, <2>3, <2>4 DEF OutShape
  <2>7. OutWith(FALSE, FALSE)'
    BY <1>1, <1>2, <2>3, <2>4, <2>5 DEF OutWith
  <2> QED BY <1>1, <1>3, <1>4, <2>4, <2>6, <2>7, OutKept, OutPackets
<1>7. todo = <<k, c>> \/ todo = <<g>>
  <2>1. todo # <<c>>
    <3>1. Head(<<c>>) = c /\ c.mask = {}
      BY OutTodo, OutOps
    <3> QED BY <1>1, <3>1
  <2> QED BY <1>1, <1>2, <2>1 DEF OutShape
<1> QED BY <1>5, <1>6, <1>7

\* A packet is found received.
LEMMA OutPoll ==
    ASSUME EndpointInv, role = "bulk_out", host_stage = "idle", Poll
    PROVE  Packets'
<1>1. /\ todo = <<>>
      /\ UNCHANGED <<role, reg, masked, pma, sent, got, host_toggle, host_stage,
                     ep_outstanig_rx_acks, ep_state_tx, ep_state_rx>>
  BY DEF Poll, driverVars, historyVars, hostVars
<1>2. PICK unread \in BOOLEAN, returned \in BOOLEAN : OutShape(unread, returned) /\ OutWith(unread, returned)
  BY OutCases DEF EndpointInv, Packets, DataInv
<1>3. /\ "SETUP" \notin reg /\ "CTR_TX" \notin reg /\ "CTR_RX" \in reg
      /\ ep_state_tx = sgl_buf_0_pkts /\ PmaOK /\ Received
  BY DEF EndpointInv, RegisterInv, AccessInv, EndpointTyped, Packets, DataInv, OtherDirection, Poll, CtrBits
<1>4. PmaOK' /\ Received' /\ ep_state_tx' = sgl_buf_0_pkts /\ "CTR_TX" \notin reg'
  BY <1>1, <1>3 DEF PmaOK, Received, InOrder
<1>5. todo' = <<CtrRxClear, Call("out")>>
  <2> DEFINE k == CtrRxClear
             c == Call("out")
             s == <<k, c>>
  <2>1. todo' = s \o <<>>
    BY <1>3 DEF Poll, HandlerOps
  <2>2. k \in Operations /\ c \in Operations
    BY OutOps
  <2> HIDE DEF k, c
  <2>3. s \in Seq(Operations)
    BY <2>2, TupleFacts
  <2> HIDE DEF s
  <2>4. s \o <<>> = s
    BY <2>3, EmptyFacts
  <2> QED BY <2>1, <2>4 DEF s, k, c
<1>6. unread /\ ~returned
  BY <1>1, <1>2, <1>3, OutTodo DEF OutShape
<1>7. OutShape(TRUE, FALSE)'
  BY <1>1, <1>3, <1>5 DEF OutShape
<1>8. OutWith(TRUE, FALSE)'
  BY <1>1, <1>2, <1>6 DEF OutWith, Holds
<1> QED BY <1>1, <1>4, <1>7, <1>8, OutKept, OutPackets

\* It is read, and its buffer given back or not.
LEMMA OutHandle ==
    ASSUME EndpointInv, host_stage = "idle", NEW pause \in BOOLEAN, HandleBulkOut(pause)
    PROVE  Packets'
<1> DEFINE n == Len(got)
           c == Call("out")
           g == SwBufToggle(SW_BUF_RX)
<1>1. /\ NextIs("out") /\ role = "bulk_out"
      /\ UNCHANGED <<role, reg, masked, pma, sent, host_toggle, host_stage, ep_state_tx>>
  BY DEF HandleBulkOut, hostVars
<1>2. PICK unread \in BOOLEAN, returned \in BOOLEAN : OutShape(unread, returned) /\ OutWith(unread, returned)
  BY <1>1, OutCases DEF EndpointInv, Packets, DataInv
<1>3. /\ ep_state_tx = sgl_buf_0_pkts /\ "CTR_TX" \notin reg /\ PmaOK /\ Received /\ n \in Nat
  BY <1>1 DEF EndpointInv, Packets, DataInv, OtherDirection, Received
<1>4. todo = <<c>>
  BY <1>1, <1>2, OutOps, OutTodo DEF OutShape, NextIs
<1>5. unread /\ ~returned /\ "CTR_RX" \notin reg
  BY <1>2, <1>4, OutTodo DEF OutShape
<1>6. /\ ep_outstanig_rx_acks = 0 /\ ep_state_rx = dbl_buf_ready_0 + (n % 2) /\ n % 2 \in {0, 1}
      /\ sent = n + 1 /\ Holds(n % 2, Packet(n)) /\ masked
  <2>1. n % 2 \in {0, 1}
    BY <1>3, Parity
  <2> QED BY <1>2, <1>5, <2>1 DEF OutWith, dbl_buf_ready_0
<1>7. ep_state_rx % 2 = n % 2 /\ ~(ep_state_rx > dbl_buf_ready_1)
  BY <1>6 DEF dbl_buf_ready_0, dbl_buf_ready_1
<1>8. got' = Append(got, Packet(n))
  BY <1>6, <1>7 DEF HandleBulkOut, Holds
<1>9. /\ ep_state_rx' = (IF pause THEN dbl_buf_paused_0 ELSE dbl_buf_ready_0) + (1 - (n % 2))
      /\ ep_outstanig_rx_acks' = (IF pause THEN 1 ELSE 0)
      /\ todo' = (IF pause THEN <<>> ELSE <<g>>) \o Tail(todo)
  <2> DEFINE next == IF ep_state_rx % 2 = 0 THEN 1 ELSE 0
             paused == pause \/ ep_state_rx > dbl_buf_ready_1
             rest == (IF paused THEN <<>> ELSE <<g>>) \o Tail(todo)
  <2>1. /\ ep_state_rx' = (IF paused THEN dbl_buf_paused_0 ELSE dbl_buf_ready_0) + next
        /\ ep_outstanig_rx_acks' = ep_outstanig_rx_acks + (IF paused THEN 1 ELSE 0)
        /\ todo' = rest
    BY DEF HandleBulkOut
  <2>2. next = 1 - (n % 2)
    BY <1>6, <1>7
  <2>3. paused <=> pause
    BY <1>7
  <2>4. rest = (IF pause THEN <<>> ELSE <<g>>) \o Tail(todo)
    BY <2>3
  <2> HIDE DEF paused, next, rest
  <2>5. ep_state_rx' = (IF pause THEN dbl_buf_paused_0 ELSE dbl_buf_ready_0) + (1 - (n % 2))
    BY <2>1, <2>2, <2>3
  <2>6. ep_outstanig_rx_acks' = (IF pause THEN 1 ELSE 0)
    BY <1>6, <2>1, <2>3
  <2> QED BY <2>1, <2>4, <2>5, <2>6
<1>10. todo' = (IF pause THEN <<>> ELSE <<g>>)
  <2>1. g \in Operations /\ Tail(todo) = <<>>
    BY <1>4, OutOps, OutTodo
  <2> HIDE DEF g
  <2>2. <<g>> \o <<>> = <<g>> /\ <<>> \o <<>> = <<>>
    BY <2>1, TupleFacts, EmptyFacts
  <2> QED BY <1>9, <2>1, <2>2
<1>11. Received' /\ Len(got') = n + 1 /\ (n + 1) % 2 = 1 - (n % 2)
  BY <1>3, <1>8, NextReceived, Parity
<1> DEFINE m == Len(got')
<1>12. m = n + 1
  BY <1>11
<1> HIDE DEF n, m
<1>13. ep_state_rx' = dbl_buf_ready_0 + 2 * ep_outstanig_rx_acks' + (m % 2)
  BY <1>6, <1>9, <1>11, <1>12 DEF dbl_buf_ready_0, dbl_buf_paused_0
<1>14. /\ pause => OutShape(FALSE, FALSE)'
       /\ ~pause => OutShape(FALSE, TRUE)'
  BY <1>1, <1>5, <1>10 DEF OutShape
<1>15. /\ pause => OutWith(FALSE, FALSE)'
       /\ ~pause => OutWith(FALSE, TRUE)'
  BY <1>1, <1>2, <1>6, <1>9, <1>12, <1>13 DEF OutWith, m
<1>16. PmaOK'
  BY <1>1, <1>3 DEF PmaOK
<1>17. BulkOutInUse'
  BY <1>1, <1>14, <1>15, OutKept
<1> QED BY <1>1, <1>3, <1>11, <1>16, <1>17, OutPackets

\* A paused endpoint is given its buffer back.
LEMMA OutUnpause ==
    ASSUME EndpointInv, host_stage = "idle", Unpause
    PROVE  Packets'
<1> DEFINE g == SwBufToggle(SW_BUF_RX)
<1>1. /\ role = "bulk_out" /\ todo = <<>> /\ ep_state_rx >= dbl_buf_paused_0
      /\ ep_state_rx' = ep_state_rx - 2 /\ ep_outstanig_rx_acks' = 0
      /\ todo' = [i \in 1 .. ep_outstanig_rx_acks |-> g]
      /\ UNCHANGED <<role, reg, masked, pma, sent, got, host_toggle, host_stage, ep_state_tx>>
  BY DEF Unpause, historyVars, hostVars
<1>2. PICK unread \in BOOLEAN, returned \in BOOLEAN : OutShape(unread, returned) /\ OutWith(unread, returned)
  BY <1>1, OutCases DEF EndpointInv, Packets, DataInv
<1>3. /\ ep_state_tx = sgl_buf_0_pkts /\ "CTR_TX" \notin reg /\ PmaOK /\ Received /\ Len(got) \in Nat
  BY <1>1 DEF EndpointInv, Packets, DataInv, OtherDirection, Received
<1>4. ep_outstanig_rx_acks = 1
  <2>1. Len(got) % 2 \in {0, 1}
    BY <1>3, Parity
  <2> QED BY <1>1, <1>2, <2>1 DEF OutWith, dbl_buf_ready_0, dbl_buf_paused_0
<1>5. ~unread /\ ~returned /\ "CTR_RX" \notin reg
  BY <1>1, <1>2, <1>4, OutTodo DEF OutWith, OutShape
<1>6. todo' = <<g>>
  <2> HIDE DEF g
  <2> QED BY <1>1, <1>4
<1>7. OutShape(FALSE, TRUE)'
  BY <1>1, <1>5, <1>6 DEF OutShape
<1>8. OutWith(FALSE, TRUE)'
  BY <1>1, <1>2, <1>4, <1>5 DEF OutWith, dbl_buf_ready_0
<1>9. PmaOK' /\ Received' /\ ep_state_tx' = sgl_buf_0_pkts /\ "CTR_TX" \notin reg'
  BY <1>1, <1>3 DEF PmaOK, Received, InOrder
<1> QED BY <1>1, <1>7, <1>8, <1>9, OutKept, OutPackets

\* The host sends a packet.
LEMMA OutReceive ==
    ASSUME EndpointInv, HostOutBulk
    PROVE  Packets'
<1>1. /\ role = "bulk_out" /\ host_stage = "idle" /\ ~masked /\ "CTR_RX" \notin reg
      /\ StatRx \subseteq reg
      /\ masked' = NoFreeBuffer(reg') /\ sent' = sent + 1 /\ host_toggle' = ~host_toggle
      /\ UNCHANGED <<role, todo, got, host_stage, ep_outstanig_rx_acks, ep_state_tx, ep_state_rx>>
  BY DEF HostOutBulk, driverVars
<1>2. PICK n \in Nat : n = Len(got)
  BY DEF EndpointInv, Packets, Received
<1>3. PICK o \in {0, 1} : o = BitValue("DTOG_RX")
  BY DEF BitValue
<1>4. PICK unread \in BOOLEAN, returned \in BOOLEAN : OutShape(unread, returned) /\ OutWith(unread, returned)
  BY <1>1, OutCases DEF EndpointInv, Packets, DataInv
<1>5. /\ ep_state_tx = sgl_buf_0_pkts /\ "CTR_TX" \notin reg /\ PmaOK /\ Received
  BY <1>1 DEF EndpointInv, Packets, DataInv, OtherDirection
<1>6. ~unread /\ ~returned /\ ep_outstanig_rx_acks = 0 /\ sent = n /\ todo = <<>>
  BY <1>1, <1>4, <1>2 DEF OutWith, OutShape
<1>7. host_toggle = ("DTOG_RX" \in reg)
  BY <1>4 DEF OutWith, EndpointInv, Ranges
<1>8. o = n % 2 /\ (n + 1) % 2 = 1 - (n % 2)
  BY <1>4, <1>6, <1>3, Parity DEF OutWith, BitValue
<1>9. pma' = Stored(o, Packet(n)) /\ reg' = Xor(reg, {"DTOG_RX"}) \cup {"CTR_RX"}
  BY <1>6, <1>7, <1>3 DEF HostOutBulk, Receive
<1>10. /\ StatRx \subseteq reg' /\ "CTR_RX" \in reg' /\ "CTR_TX" \notin reg'
       /\ "DTOG_RX" \in reg' <=> "DTOG_RX" \notin reg
       /\ "DTOG_TX" \in reg' <=> "DTOG_TX" \in reg
  BY <1>1, <1>5, <1>9 DEF StatRx, Xor
<1>11. masked'
  <2>1. ~("DTOG_RX" \in reg <=> "DTOG_TX" \in reg)
    BY <1>1, <1>4 DEF OutWith
  <2>2. NoFreeBuffer(reg')
    BY <1>1, <1>10, <2>1 DEF NoFreeBuffer, SW_BUF_RX
  <2> QED BY <1>1, <2>2
<1>12. PmaOK' /\ Holds(o, Packet(n))'
  <2> DEFINE b == WriteBytes(pma[o], Packet(n), pma[o].words[(Len(Packet(n)) + 2) \div 2][2])
  <2>1. BufferOK(pma[o])
    BY <1>5 DEF PmaOK
  <2>2. BufferOK(b) /\ b.count = Len(Packet(n)) /\ CopyFromPma(b, PACKET_SIZE) = Packet(n)
    BY <2>1, PacketWritten
  <2>3. pma' = [pma EXCEPT ![o] = b]
    BY <1>9 DEF Stored
  <2> HIDE DEF b
  <2>4. PmaOK' /\ pma'[o] = b
    BY <1>5, <2>2, <2>3, OneBuffer
  <2> QED BY <1>1, <2>2, <2>4 DEF Holds
<1>13. OutShape(TRUE, FALSE)'
  BY <1>1, <1>6, <1>10 DEF OutShape
<1>14. OutWith(TRUE, FALSE)'
  <2>1. /\ ep_outstanig_rx_acks' = 0 /\ Len(got)' = n /\ sent' = n + 1
        /\ ep_state_rx' = dbl_buf_ready_0 + 2 * 0 + (n % 2)
    BY <1>1, <1>2, <1>4, <1>6 DEF OutWith
  <2>2. "DTOG_RX" \in reg <=> n % 2 = 1
    BY <1>4, <1>6 DEF OutWith
  <2>3. "DTOG_RX" \in reg' <=> sent' % 2 = 1
    BY <1>8, <1>10, <2>1, <2>2
  <2>4. host_toggle' <=> "DTOG_RX" \in reg'
    BY <1>1, <1>7, <1>10
  <2>5. "DTOG_RX" \in reg' <=> "DTOG_TX" \in reg'
    BY <1>1, <1>4, <1>10 DEF OutWith
  <2>6. Holds(n % 2, Packet(n))'
    BY <1>8, <1>12
  <2>7. ep_state_rx' = dbl_buf_ready_0 + 2 * ep_outstanig_rx_acks' + (n % 2)
    BY <2>1
  <2> QED BY <1>10, <1>11, <2>1, <2>3, <2>4, <2>5, <2>6, <2>7 DEF OutWith
<1>15. Received'
  BY <1>1, <1>5 DEF Received, InOrder
<1>16. BulkOutInUse'
  BY <1>1, <1>13, <1>14, OutKept
<1> QED BY <1>1, <1>5, <1>10, <1>12, <1>15, <1>16, OutPackets

----------------------------------------------------------------------------
(* A double-buffered IN endpoint.                                            *)

LEMMA InOps ==
    /\ CtrTxClear \in Operations /\ CtrTxClear.name = "ctr_clear"
    /\ CtrTxClear.mask = {"CTR_TX"} /\ CtrTxClear.val = {}
    /\ Call("in") \in Operations /\ Call("in").name = "in" /\ Call("in").mask = {}
    /\ SwBufToggle(SW_BUF_TX) \in Operations /\ SwBufToggle(SW_BUF_TX).name = "sw_buf_toggle"
    /\ SwBufToggle(SW_BUF_TX).mask = {"DTOG_RX"}
    /\ SW_BUF_TX = "DTOG_RX"
<1>1. SW_BUF_TX = "DTOG_RX"
  BY DEF SW_BUF_TX
<1>2. SwBufToggle(SW_BUF_TX) \in Operations /\ SwBufToggle(SW_BUF_TX).name = "sw_buf_toggle"
      /\ SwBufToggle(SW_BUF_TX).mask = {SW_BUF_TX}
  BY BufferFacts
<1> QED BY <1>1, <1>2, ClearFacts, CallFacts

LEMMA InTodo ==
    LET k == CtrTxClear
        c == Call("in")
        g == SwBufToggle(SW_BUF_TX)
    IN  /\ Head(<<k, c>>) = k /\ Tail(<<k, c>>) = <<c>>
        /\ Head(<<c>>) = c /\ Tail(<<c>>) = <<>>
        /\ Head(<<g>>) = g /\ Tail(<<g>>) = <<>>
        /\ <<k, c>> # <<>> /\ <<k, c>> # <<c>> /\ <<k, c>> # <<g>>
        /\ <<c>> # <<>> /\ <<g>> # <<>> /\ <<c>> # <<g>>
BY InOps, BulkShapes

\* Whether a packet is being given to the peripheral, and whether the callback for a
\* packet sent is being called.
InShape(giving, called) ==
    \/ ~giving /\ ~called /\ todo = <<>>
    \/ ~giving /\ ~called /\ todo = <<CtrTxClear, Call("in")>> /\ "CTR_TX" \in reg
    \/ ~giving /\ called /\ todo = <<Call("in")>>
    \/ giving /\ ~called /\ todo = <<SwBufToggle(SW_BUF_TX)>>
InCounts(giving, called, given, completed) ==
    /\ given = sent - (IF giving THEN 1 ELSE 0)
    /\ completed = (IF "CTR_TX" \in reg THEN 1 ELSE 0) + (IF called THEN 1 ELSE 0)
InWith(n, given, completed) ==
    /\ n = Len(got)
    /\ StatTx \subseteq reg
    /\ host_toggle <=> "DTOG_TX" \in reg
    /\ "DTOG_TX" \in reg <=> n % 2 = 1
    /\ "DTOG_RX" \in reg <=> given % 2 = 1
    /\ n <= given
    /\ masked <=> given = n
    /\ ep_state_tx = dbl_buf_en_0_pkts + (sent - n) + completed
    /\ \A k \in n .. sent - 1 : Holds(k % 2, Packet(k))

LEMMA InCases ==
    ASSUME EndpointInv, role = "bulk_in", host_stage = "idle"
    PROVE  \E giving, called \in BOOLEAN, n, given, completed \in Nat :
              /\ InShape(giving, called) /\ InCounts(giving, called, given, completed)
              /\ InWith(n, given, completed)
              /\ sent \in Nat /\ n <= given /\ given <= sent /\ sent - n + completed <= 2
<1> DEFINE giving == todo = <<SwBufToggle(SW_BUF_TX)>>
           called == todo = <<Call("in")>>
           n == Len(got)
           given == sent - (IF giving THEN 1 ELSE 0)
           completed == (IF "CTR_TX" \in reg THEN 1 ELSE 0) + (IF called THEN 1 ELSE 0)
<1>1. giving \in BOOLEAN /\ called \in BOOLEAN
  OBVIOUS
<1>2. n \in Nat /\ sent \in Nat /\ completed \in Nat /\ BulkInInUse /\ ep_state_tx \in 0 .. 4
  BY DEF EndpointInv, Packets, Received, Ranges, DataInv
<1>3. InShape(giving, called)
  BY <1>2, InTodo DEF BulkInInUse, InShape
<1>4. InCounts(giving, called, given, completed)
  BY DEF InCounts
<1>5. InWith(n, given, completed)
  BY <1>2 DEF BulkInInUse, InWith, SW_BUF_TX
<1>6. n <= given /\ given <= sent /\ given \in Int
  BY <1>2 DEF BulkInInUse
<1> HIDE DEF n, given, completed, giving, called
<1>7. given \in Nat
  BY <1>2, <1>6
<1>8. sent - n + completed <= 2
  BY <1>2, <1>5 DEF InWith, dbl_buf_en_0_pkts
<1> QED BY <1>1, <1>2, <1>3, <1>4, <1>5, <1>6, <1>7, <1>8

\* After a step.
LEMMA InKept ==
    ASSUME role' = "bulk_in", host_stage' = "idle",
           NEW giving \in BOOLEAN, NEW called \in BOOLEAN,
           NEW n \in Nat, NEW given \in Nat, NEW completed \in Nat,
           InShape(giving, called)', InCounts(giving, called, given, completed)',
           InWith(n, given, completed)'
    PROVE  BulkInInUse'
<1>1. /\ \/ todo' \in {<<>>, <<Call("in")>>, <<SwBufToggle(SW_BUF_TX)>>}
         \/ todo' = <<CtrTxClear, Call("in")>> /\ "CTR_TX" \in reg'
      /\ giving <=> todo' = <<SwBufToggle(SW_BUF_TX)>>
      /\ called <=> todo' = <<Call("in")>>
  BY InTodo DEF InShape
<1>2. /\ given = sent' - (IF todo' = <<SwBufToggle(SW_BUF_TX)>> THEN 1 ELSE 0)
      /\ completed = (IF "CTR_TX" \in reg' THEN 1 ELSE 0) + (IF todo' = <<Call("in")>> THEN 1 ELSE 0)
  BY <1>1 DEF InCounts
<1> QED BY <1>1, <1>2 DEF BulkInInUse, InWith, SW_BUF_TX

\* What has to be shown of a step at this kind of endpoint, in use.
LEMMA InPackets ==
    ASSUME role = "bulk_in", role' = role, host_stage' = "idle",
           PmaOK', Received', ep_state_rx' = sgl_buf_ready, ep_outstanig_rx_acks' = 0,
           "CTR_RX" \notin reg', BulkInInUse', ep_state_tx' \in 0 .. 4
    PROVE  Packets'
<1>1. OtherDirection' /\ DoubleSetup' /\ BulkOutInUse'
  BY DEF OtherDirection, DoubleSetup, BulkOutInUse
<1>2. IsDbl'
  BY DEF IsDbl
<1>3. SingleSetup' /\ SingleInUse' /\ InterruptInUse' /\ ControlInUse'
  BY <1>2 DEF SingleSetup, SingleInUse, InterruptInUse, ControlInUse
<1> QED BY <1>1, <1>3 DEF Packets, DataInv

\* What the steps below need of the state they start from.
LEMMA InFacts ==
    ASSUME EndpointInv, role = "bulk_in"
    PROVE  /\ masked \in BOOLEAN /\ IsDbl /\ PmaOK /\ Received
           /\ ep_state_rx = sgl_buf_ready /\ ep_outstanig_rx_acks = 0 /\ "CTR_RX" \notin reg
           /\ ep_state_tx \in 0 .. 4 /\ host_toggle \in BOOLEAN
BY DEF EndpointInv, RegisterInv, Typed, Packets, DataInv, OtherDirection, IsDbl, Ranges

\* An access to the register.
LEMMA InWrite ==
    ASSUME EndpointInv, role = "bulk_in", host_stage = "idle", WriteRegister
    PROVE  Packets'
<1> DEFINE op == Head(todo)
           k == CtrTxClear
           c == Call("in")
           g == SwBufToggle(SW_BUF_TX)
<1>1. /\ todo # <<>> /\ op.mask # {} /\ todo' = Tail(todo)
      /\ UNCHANGED <<role, pma, sent, got, host_toggle, host_stage, ep_outstanig_rx_acks,
                     ep_state_tx, ep_state_rx>>
  BY DEF WriteRegister, driverVars, historyVars, hostVars, IsRegisterOp
<1>2. PICK giving \in BOOLEAN, called \in BOOLEAN, n \in Nat, given \in Nat, completed \in Nat :
              /\ InShape(giving, called) /\ InCounts(giving, called, given, completed)
              /\ InWith(n, given, completed) /\ sent \in Nat
  BY InCases
<1>3. reg \cap RwBits = {"KIND", "EA"}
  BY TypeBitsFacts DEF EndpointInv, RegisterInv, Typed, AccessInv, EndpointTyped, IsDbl
<1>4. PmaOK' /\ Received' /\ ep_state_rx' = sgl_buf_ready /\ ep_outstanig_rx_acks' = 0
      /\ ep_state_tx' \in 0 .. 4
  BY <1>1, InFacts DEF PmaOK, Received, InOrder
<1>5. CASE todo = <<k, c>>
  <2>1. op = k /\ todo' = <<c>>
    BY <1>1, <1>5, InTodo
  <2>2. reg' = reg \ {"CTR_TX"}
    <3>1. op.mask \cap (StatRx \cup StatTx) = {}
      BY <2>1, InOps DEF StatRx, StatTx
    <3>2. reg' = Intended(op, reg)
      BY <3>1, WriteExact DEF EndpointInv
    <3> QED BY <2>1, <3>2, InOps DEF Intended
  <2>3. ~giving /\ ~called /\ "CTR_TX" \in reg
    BY <1>2, <1>5, InTodo DEF InShape
  <2>4. StatTx \subseteq reg /\ StatTx \subseteq reg' /\ Valid(reg) /\ Valid(reg') /\ "KIND" \in reg'
    BY <1>2, <1>3, <2>2 DEF InWith, Valid, StatTx
  <2>5. masked' = masked
    BY <2>1, <2>4, MaskAfter, InOps DEF EndpointInv
  <2>6. InShape(FALSE, TRUE)'
    BY <2>1 DEF InShape
  <2>7. InCounts(FALSE, TRUE, given, completed)'
    BY <1>1, <1>2, <2>2, <2>3 DEF InCounts
  <2>8. InWith(n, given, completed)'
    BY <1>1, <1>2, <2>2, <2>4, <2>5 DEF InWith, Holds
  <2>9. BulkInInUse'
    BY <1>1, <1>2, <2>6, <2>7, <2>8, InKept
  <2> QED BY <1>1, <1>4, <2>2, <2>9, InFacts, InPackets
<1>6. CASE todo = <<g>>
  <2>1. op = g /\ todo' = <<>>
    BY <1>1, <1>6, InTodo
  <2>2. reg' = Xor(reg, {"DTOG_RX"})
    <3>1. op.mask \cap (StatRx \cup StatTx) = {}
      BY <2>1, InOps DEF StatRx, StatTx
    <3>2. reg' = Intended(op, reg)
      BY <3>1, WriteExact DEF EndpointInv
    <3> QED BY <2>1, <3>2, InOps DEF Intended
  <2>3. giving /\ ~called
    BY <1>2, <1>6, InTodo DEF InShape
  <2>4. /\ StatTx \subseteq reg' /\ ("CTR_RX" \in reg' <=> "CTR_RX" \in reg)
        /\ "CTR_TX" \in reg' <=> "CTR_TX" \in reg
        /\ "DTOG_TX" \in reg' <=> "DTOG_TX" \in reg
        /\ "DTOG_RX" \in reg' <=> "DTOG_RX" \notin reg
    BY <1>2, <2>2 DEF InWith, StatTx, Xor
  <2>5. ~masked'
    BY <2>1, MaskAfter, InOps DEF EndpointInv, BufferBit
  <2>6. InShape(FALSE, FALSE)'
    BY <2>1 DEF InShape
  <2> DEFINE more == given + 1
  <2>7. InCounts(FALSE, FALSE, more, completed)'
    BY <1>1, <1>2, <2>3, <2>4 DEF InCounts
  <2>8. InWith(n, more, completed)'
    <3>1. more \in Nat /\ more % 2 = 1 - (given % 2) /\ given % 2 \in {0, 1}
      BY <1>2, Parity
    <3>2. n <= more /\ more # n
      BY <1>2 DEF InWith
    <3> HIDE DEF more
    <3>3. "DTOG_RX" \in reg' <=> more % 2 = 1
      BY <1>2, <2>4, <3>1 DEF InWith
    <3>4. \A i \in n .. sent' - 1 : Holds(i % 2, Packet(i))'
      BY <1>1, <1>2 DEF InWith, Holds
    <3>5. host_toggle' <=> "DTOG_TX" \in reg'
      BY <1>1, <1>2, <2>4 DEF InWith
    <3>6. "DTOG_TX" \in reg' <=> n % 2 = 1
      BY <1>2, <2>4 DEF InWith
    <3>7. n = Len(got)' /\ ep_state_tx' = dbl_buf_en_0_pkts + (sent' - n) + completed
      BY <1>1, <1>2 DEF InWith
    <3> QED BY <2>4, <2>5, <3>2, <3>3, <3>4, <3>5, <3>6, <3>7 DEF InWith
  <2>9. BulkInInUse'
    <3>1. more \in Nat
      BY <1>2
    <3> HIDE DEF more
    <3> QED BY <1>1, <1>2, <2>6, <2>7, <2>8, <3>1, InKept
  <2> QED BY <1>1, <1>4, <2>4, <2>9, InFacts, InPackets
<1>7. todo = <<k, c>> \/ todo = <<g>>
  <2>1. todo # <<c>>
    <3>1. Head(<<c>>) = c /\ c.mask = {}
      BY InTodo, InOps
    <3> QED BY <1>1, <3>1
  <2> QED BY <1>1, <1>2, <2>1 DEF InShape
<1> QED BY <1>5, <1>6, <1>7

\* A packet is found sent.
LEMMA InPoll ==
    ASSUME EndpointInv, role = "bulk_in", host_stage = "idle", Poll
    PROVE  Packets'
<1>1. /\ todo = <<>> /\ "CTR_TX" \in reg
      /\ UNCHANGED <<role, reg, masked, pma, sent, got, host_toggle, host_stage,
                     ep_outstanig_rx_acks, ep_state_tx, ep_state_rx>>
  BY InFacts DEF Poll, driverVars, historyVars, hostVars, CtrBits
<1>2. PICK giving \in BOOLEAN, called \in BOOLEAN, n \in Nat, given \in Nat, completed \in Nat :
              /\ InShape(giving, called) /\ InCounts(giving, called, given, completed)
              /\ InWith(n, given, completed) /\ sent \in Nat
  BY InCases
<1>3. PmaOK' /\ Received' /\ ep_state_rx' = sgl_buf_ready /\ ep_outstanig_rx_acks' = 0
      /\ ep_state_tx' \in 0 .. 4 /\ "CTR_RX" \notin reg'
  BY <1>1, InFacts DEF PmaOK, Received, InOrder
<1>4. todo' = <<CtrTxClear, Call("in")>>
  <2> DEFINE k == CtrTxClear
             c == Call("in")
             s == <<k, c>>
  <2>1. todo' = <<>> \o s
    BY <1>1, InFacts DEF Poll, HandlerOps
  <2>2. k \in Operations /\ c \in Operations
    BY InOps
  <2> HIDE DEF k, c
  <2>3. s \in Seq(Operations)
    BY <2>2, TupleFacts
  <2> HIDE DEF s
  <2>4. <<>> \o s = s
    BY <2>3, EmptyFacts
  <2> QED BY <2>1, <2>4 DEF s, k, c
<1>5. ~giving /\ ~called
  BY <1>1, <1>2, InTodo DEF InShape
<1>6. InShape(FALSE, FALSE)'
  BY <1>1, <1>4 DEF InShape
<1>7. InCounts(FALSE, FALSE, given, completed)'
  BY <1>1, <1>2, <1>5 DEF InCounts
<1>8. InWith(n, given, completed)'
  BY <1>1, <1>2 DEF InWith, Holds
<1>9. BulkInInUse'
  BY <1>1, <1>2, <1>6, <1>7, <1>8, InKept
<1> QED BY <1>1, <1>3, <1>9, InPackets

\* Its callback.
LEMMA InHandle ==
    ASSUME EndpointInv, role = "bulk_in", host_stage = "idle", HandleIn
    PROVE  Packets'
<1> DEFINE k == CtrTxClear
           c == Call("in")
           g == SwBufToggle(SW_BUF_TX)
<1>1. /\ NextIs("in") /\ todo' = Tail(todo)
      /\ UNCHANGED <<role, reg, masked, pma, sent, got, host_toggle, host_stage,
                     ep_outstanig_rx_acks, ep_state_rx>>
  BY DEF HandleIn, historyVars, hostVars
<1>2. PICK giving \in BOOLEAN, called \in BOOLEAN, n \in Nat, given \in Nat, completed \in Nat :
              /\ InShape(giving, called) /\ InCounts(giving, called, given, completed)
              /\ InWith(n, given, completed)
              /\ sent \in Nat /\ n <= given /\ given <= sent /\ sent - n + completed <= 2
  BY InCases
<1>3. PmaOK' /\ Received' /\ ep_state_rx' = sgl_buf_ready /\ ep_outstanig_rx_acks' = 0
      /\ "CTR_RX" \notin reg'
  BY <1>1, InFacts DEF PmaOK, Received, InOrder
<1>4. todo = <<c>>
  <2>1. k.name # "in" /\ g.name # "in"
    BY InOps
  <2> QED BY <1>1, <1>2, <2>1, InTodo DEF InShape, NextIs
<1>5. ~giving /\ called /\ todo' = <<>>
  BY <1>1, <1>2, <1>4, InTodo DEF InShape
<1> DEFINE fewer == completed - 1
<1>6. completed \in 1 .. 2 /\ fewer \in Nat
  BY <1>2, <1>5 DEF InCounts
<1>7. ep_state_tx = 2 + (sent - n) + completed
  BY <1>2 DEF InWith, dbl_buf_en_0_pkts
<1>8. ep_state_tx' = ep_state_tx - 1
  BY <1>2, <1>6, <1>7 DEF HandleIn, sgl_buf_0_pkts, dbl_buf_en_0_pkts
<1>9. InShape(FALSE, FALSE)'
  BY <1>5 DEF InShape
<1>10. InCounts(FALSE, FALSE, given, fewer)'
  BY <1>1, <1>2, <1>5 DEF InCounts
<1>11. ep_state_tx' = 2 + (sent' - n) + fewer /\ ep_state_tx' \in 0 .. 4
  BY <1>1, <1>2, <1>6, <1>7, <1>8
<1> HIDE DEF fewer
<1>12. InWith(n, given, fewer)'
  BY <1>1, <1>2, <1>11 DEF InWith, Holds, dbl_buf_en_0_pkts
<1>13. BulkInInUse'
  BY <1>1, <1>2, <1>6, <1>9, <1>10, <1>12, InKept
<1> QED BY <1>1, <1>3, <1>11, <1>13, InPackets

\* A packet is put into the free buffer.
LEMMA InTransmit ==
    ASSUME EndpointInv, role = "bulk_in", Transmit
    PROVE  Packets'
<1> DEFINE g == SwBufToggle(SW_BUF_TX)
<1>1. /\ todo = <<>> /\ host_stage = "idle" /\ ep_state_tx # dbl_buf_en_2_pkts
      /\ pma' = [pma EXCEPT ![TxOffset(reg)] = CopyToPma(pma[TxOffset(reg)], Packet(sent))]
      /\ ep_state_tx' = ep_state_tx + 1 /\ sent' = sent + 1
      /\ UNCHANGED <<role, reg, masked, got, host_toggle, host_stage,
                     ep_outstanig_rx_acks, ep_state_rx>>
  BY DEF Transmit, CanTransmit, hostVars
<1>2. todo' = <<g>>
  BY InFacts DEF Transmit, TransmitOps
<1>3. PICK giving \in BOOLEAN, called \in BOOLEAN, n \in Nat, given \in Nat, completed \in Nat :
              /\ InShape(giving, called) /\ InCounts(giving, called, given, completed)
              /\ InWith(n, given, completed)
              /\ sent \in Nat /\ n <= given /\ given <= sent /\ sent - n + completed <= 2
  BY <1>1, InCases
<1>4. Received' /\ ep_state_rx' = sgl_buf_ready /\ ep_outstanig_rx_acks' = 0
      /\ "CTR_RX" \notin reg'
  BY <1>1, InFacts DEF Received, InOrder
<1>5. ~giving /\ ~called
  BY <1>1, <1>3, InTodo DEF InShape
<1>6. given = sent /\ ep_state_tx = 2 + (sent - n) + completed
  BY <1>3, <1>5 DEF InCounts, InWith, dbl_buf_en_0_pkts
<1>7. sent - n + completed <= 1
  BY <1>1, <1>3, <1>6 DEF dbl_buf_en_2_pkts
<1>8. PICK m \in Nat : m = sent
  BY <1>3
<1>9. PICK o \in {0, 1} : o = m % 2
  BY <1>8, Parity
<1>10. TxOffset(reg) = o
  BY <1>3, <1>6, <1>8, <1>9, InFacts, InOps DEF TxOffset, InWith
<1>11. PmaOK' /\ Holds(o, Packet(m))' /\ \A q \in {0, 1} : q # o => pma'[q] = pma[q]
  <2> DEFINE b == WriteBytes(pma[o], Packet(m), 0)
  <2>1. BufferOK(pma[o])
    BY InFacts DEF PmaOK
  <2>2. BufferOK(b) /\ b.count = Len(Packet(m)) /\ CopyFromPma(b, PACKET_SIZE) = Packet(m)
    BY <2>1, PacketWritten
  <2>3. pma' = [pma EXCEPT ![o] = b]
    BY <1>1, <1>8, <1>10 DEF CopyToPma
  <2> HIDE DEF b
  <2>4. PmaOK' /\ pma'[o] = b /\ \A q \in {0, 1} : q # o => pma'[q] = pma[q]
    BY <2>2, <2>3, InFacts, OneBuffer
  <2> QED BY <1>1, <2>2, <2>4 DEF Holds
<1>12. \A i \in n .. m : Holds(i % 2, Packet(i))'
  <2> SUFFICES ASSUME NEW i \in n .. m PROVE Holds(i % 2, Packet(i))'
    OBVIOUS
  <2>1. CASE i = m
    BY <1>9, <1>11, <2>1
  <2>2. CASE i # m
    <3>1. i \in Nat /\ m = i + 1 /\ i \in n .. sent - 1
      BY <1>3, <1>7, <1>8, <2>2
    <3>2. i % 2 \in {0, 1} /\ i % 2 # o
      BY <1>9, <3>1, Parity
    <3>3. Holds(i % 2, Packet(i))
      BY <1>3, <3>1 DEF InWith
    <3>4. pma'[i % 2] = pma[i % 2]
      BY <1>11, <3>2
    <3> QED BY <3>3, <3>4 DEF Holds
  <2> QED BY <2>1, <2>2
<1>13. InShape(TRUE, FALSE)'
  BY <1>2 DEF InShape
<1>14. InCounts(TRUE, FALSE, given, completed)'
  <2>1. given = sent' - 1
    BY <1>1, <1>3, <1>6
  <2>2. completed = (IF "CTR_TX" \in reg' THEN 1 ELSE 0) + 0
    BY <1>1, <1>3, <1>5 DEF InCounts
  <2> QED BY <2>1, <2>2 DEF InCounts
<1>15. ep_state_tx' = 2 + (sent' - n) + completed /\ ep_state_tx' \in 0 .. 4 /\ sent' - 1 = m
  BY <1>1, <1>3, <1>6, <1>7, <1>8
<1>16. InWith(n, given, completed)'
  BY <1>1, <1>3, <1>12, <1>15 DEF InWith, dbl_buf_en_0_pkts
<1>17. BulkInInUse'
  BY <1>1, <1>3, <1>13, <1>14, <1>16, InKept
<1> QED BY <1>1, <1>4, <1>11, <1>15, <1>17, InPackets

\* The host fetches the packet that is due.
LEMMA InFetch ==
    ASSUME EndpointInv, role = "bulk_in", HostIn
    PROVE  Packets'
<1>1. /\ host_stage = "idle" /\ ~masked /\ "CTR_TX" \notin reg
      /\ host_toggle' = ~host_toggle /\ host_stage' = "idle"
      /\ UNCHANGED <<role, pma, todo, sent, ep_outstanig_rx_acks, ep_state_tx, ep_state_rx>>
  BY DEF HostIn, driverVars
<1>2. /\ reg' = Xor(reg, {"DTOG_TX"}) \cup {"CTR_TX"}
      /\ masked' = NoFreeBuffer(reg')
  <2>1. reg' = (Xor(reg, {"DTOG_TX"}) \cup {"CTR_TX"}) \ {} /\ masked' = (IsDbl /\ NoFreeBuffer(reg'))
    BY InFacts DEF HostIn
  <2>2. NoFreeBuffer(reg') \in BOOLEAN
    BY DEF NoFreeBuffer
  <2> QED BY <2>1, <2>2, InFacts
<1>3. PICK giving \in BOOLEAN, called \in BOOLEAN, n \in Nat, given \in Nat, completed \in Nat :
              /\ InShape(giving, called) /\ InCounts(giving, called, given, completed)
              /\ InWith(n, given, completed)
              /\ sent \in Nat /\ n <= given /\ given <= sent /\ sent - n + completed <= 2
  BY <1>1, InCases
<1>4. n = Len(got) /\ n < given /\ n \in n .. sent - 1
  BY <1>1, <1>3 DEF InWith
<1>5. PICK o \in {0, 1} : o = n % 2
  BY <1>3, Parity
<1>6. Holds(o, Packet(n)) /\ BitValue("DTOG_TX") = o /\ host_toggle = ("DTOG_TX" \in reg)
  <2>1. "DTOG_TX" \in reg <=> n % 2 = 1
    BY <1>3 DEF InWith
  <2>2. BitValue("DTOG_TX") = o
    BY <1>5, <2>1 DEF BitValue
  <2>3. Holds(o, Packet(n))
    BY <1>3, <1>4, <1>5 DEF InWith
  <2>4. host_toggle = ("DTOG_TX" \in reg)
    BY <1>3, InFacts DEF InWith
  <2> QED BY <2>2, <2>3, <2>4
<1>7. got' = Append(got, Packet(n))
  <2> DEFINE buffer == pma[IF IsDbl THEN BitValue("DTOG_TX") ELSE qsb_offset_tx]
  <2>1. got' = IF host_toggle = ("DTOG_TX" \in reg) /\ buffer.count > 0
               THEN Append(got, CopyFromPma(buffer, PACKET_SIZE)) ELSE got
    BY DEF HostIn
  <2>2. buffer = pma[o]
    <3>1. IsDbl
      BY InFacts
    <3> QED BY <1>6, <3>1
  <2> HIDE DEF buffer
  <2>3. buffer.count > 0 /\ CopyFromPma(buffer, PACKET_SIZE) = Packet(n)
    <3>1. Len(Packet(n)) \in 1 .. 3
      BY <1>3, PacketFacts
    <3>2. pma[o].count = Len(Packet(n)) /\ CopyFromPma(pma[o], PACKET_SIZE) = Packet(n)
      BY <1>6 DEF Holds
    <3>3. buffer.count \in 1 .. 3
      BY <2>2, <3>1, <3>2
    <3>4. CopyFromPma(buffer, PACKET_SIZE) = Packet(n)
      BY <2>2, <3>2
    <3> QED BY <3>3, <3>4
  <2> QED BY <1>6, <2>1, <2>3
<1> DEFINE next == n + 1
           more == completed + 1
<1>8. Received' /\ Len(got') = next
  BY <1>4, <1>7, InFacts, NextReceived
<1>9. next \in Nat /\ more \in Nat /\ next % 2 = 1 - (n % 2) /\ n % 2 \in {0, 1} /\ next <= given
  BY <1>3, <1>4, Parity
<1>10. /\ StatTx \subseteq reg' /\ "CTR_RX" \notin reg' /\ "CTR_TX" \in reg'
       /\ "DTOG_TX" \in reg' <=> "DTOG_TX" \notin reg
       /\ "DTOG_RX" \in reg' <=> "DTOG_RX" \in reg
  BY <1>2, <1>3, InFacts DEF InWith, StatTx, Xor
<1>11. "DTOG_TX" \in reg' <=> next % 2 = 1
  BY <1>3, <1>9, <1>10 DEF InWith
<1>12. given % 2 = next % 2 <=> given = next
  <2>1. given = n + 1 \/ given = n + 2
    BY <1>3, <1>4
  <2>2. (n + 2) % 2 = n % 2
    BY <1>3, Parity
  <2> QED BY <1>9, <2>1, <2>2
<1>13. masked' <=> given = next
  <2>1. NoFreeBuffer(reg') <=> ("DTOG_TX" \in reg' <=> "DTOG_RX" \in reg')
    BY <1>1 DEF NoFreeBuffer, SW_BUF_TX
  <2>2. "DTOG_RX" \in reg' <=> given % 2 = 1
    BY <1>3, <1>10 DEF InWith
  <2>3. given % 2 \in {0, 1} /\ next % 2 \in {0, 1}
    BY <1>3, <1>9
  <2>4. ("DTOG_TX" \in reg' <=> "DTOG_RX" \in reg') <=> given % 2 = next % 2
    BY <1>11, <2>2, <2>3
  <2> QED BY <1>2, <1>12, <2>1, <2>4
<1>14. ep_state_tx' = 2 + (sent' - next) + more /\ ep_state_tx' \in 0 .. 4
  <2>1. ep_state_tx = 2 + (sent - n) + completed
    BY <1>3 DEF InWith, dbl_buf_en_0_pkts
  <2> QED BY <1>1, <1>3, <2>1, InFacts
<1>15. InShape(giving, called)'
  BY <1>1, <1>3, <1>10 DEF InShape
<1>16. InCounts(giving, called, given, more)'
  <2>1. completed = 0 + (IF called THEN 1 ELSE 0) /\ given = sent - (IF giving THEN 1 ELSE 0)
    BY <1>1, <1>3 DEF InCounts
  <2>2. more = 1 + (IF called THEN 1 ELSE 0)
    BY <2>1
  <2> QED BY <1>1, <1>10, <2>1, <2>2 DEF InCounts
<1>17. \A i \in next .. sent' - 1 : Holds(i % 2, Packet(i))'
  <2>1. \A i \in next .. sent - 1 : i \in n .. sent - 1
    BY <1>3
  <2>2. \A i \in next .. sent - 1 : Holds(i % 2, Packet(i))
    BY <1>3, <2>1 DEF InWith
  <2> QED BY <1>1, <2>2 DEF Holds
<1>18. host_toggle' <=> "DTOG_TX" \in reg'
  BY <1>1, <1>6, <1>10
<1> HIDE DEF next, more
<1>19. InWith(next, given, more)'
  <2>1. "DTOG_RX" \in reg' <=> given % 2 = 1
    BY <1>3, <1>10 DEF InWith
  <2> QED BY <1>8, <1>9, <1>10, <1>11, <1>13, <1>14, <1>17, <1>18, <2>1 DEF InWith, dbl_buf_en_0_pkts
<1>20. BulkInInUse'
  BY <1>1, <1>3, <1>9, <1>15, <1>16, <1>19, InKept
<1>21. PmaOK' /\ ep_state_rx' = sgl_buf_ready /\ ep_outstanig_rx_acks' = 0
  BY <1>1, InFacts DEF PmaOK
<1> QED BY <1>1, <1>8, <1>10, <1>14, <1>20, <1>21, InPackets

----------------------------------------------------------------------------
(* The double-buffered endpoints, in every step.                             *)

\* What has to be shown of a step while such an endpoint is set up.
LEMMA QuietPackets ==
    ASSUME role \in {"bulk_out", "bulk_in"}, role' = role, host_stage' = "quiet",
           PmaOK', Received', OtherDirection', DoubleSetup', ep_state_tx' \in 0 .. 4
    PROVE  Packets'
<1>1. BulkInInUse' /\ BulkOutInUse'
  BY DEF BulkInInUse, BulkOutInUse
<1>2. IsDbl'
  BY DEF IsDbl
<1>3. SingleSetup' /\ SingleInUse' /\ InterruptInUse' /\ ControlInUse'
  BY <1>2 DEF SingleSetup, SingleInUse, InterruptInUse, ControlInUse
<1> QED BY <1>1, <1>3 DEF Packets, DataInv

LEMMA BulkQuietWrite ==
    ASSUME EndpointInv, RegisterInv', role \in {"bulk_out", "bulk_in"}, host_stage = "quiet",
           WriteRegister
    PROVE  Packets'
<1>1. UNCHANGED <<role, pma, sent, got, host_toggle, host_stage, ep_outstanig_rx_acks,
                  ep_state_tx, ep_state_rx>>
  BY DEF WriteRegister, driverVars, historyVars, hostVars
<1>2. RegisterInv /\ PmaOK /\ Received /\ OtherDirection /\ DoubleSetup
      /\ (role = "bulk_in" => ep_state_tx \in 0 .. 4)
  BY DEF EndpointInv, Packets, DataInv
<1>3. PmaOK' /\ Received'
  BY <1>1, <1>2 DEF PmaOK, Received, InOrder
<1>4. DoubleSetup'
  BY <1>2, DoubleSetupWrite
<1>5. OtherDirection'
  <2>1. reg' \cap CtrBits \subseteq reg \cap CtrBits
    BY <1>2, WriteKeeps
  <2>2. "CTR_RX" \in CtrBits /\ "CTR_TX" \in CtrBits
    BY DEF CtrBits
  <2> QED BY <1>1, <1>2, <2>1, <2>2 DEF OtherDirection
<1>6. ep_state_tx' \in 0 .. 4
  BY <1>1, <1>2 DEF OtherDirection, sgl_buf_0_pkts
<1> QED BY <1>1, <1>3, <1>4, <1>5, <1>6, QuietPackets

\* SET_CONFIGURATION empties the buffers.
LEMMA Emptied ==
    ASSUME Reconfigure
    PROVE  PmaOK' /\ Received'
<1>1. pma' = [o \in {0, 1} |-> EmptyBuffer] /\ got' = <<>>
  BY DEF Reconfigure
<1>2. BufferOK(EmptyBuffer)
  BY DEF BufferOK, EmptyBuffer
<1>3. PmaOK'
  BY <1>1, <1>2 DEF PmaOK
<1>4. <<>> \in Seq(Seq(Nat)) /\ Len(<<>>) = 0
  OBVIOUS
<1> QED BY <1>1, <1>3, <1>4 DEF Received, InOrder

LEMMA BulkReconfigure ==
    ASSUME EndpointInv, RegisterInv', role \in {"bulk_out", "bulk_in"}, Reconfigure
    PROVE  Packets'
<1>1. /\ UNCHANGED <<role, reg>> /\ host_stage' = "quiet" /\ reg \cap CtrBits = {}
      /\ ep_state_rx' = RxStateAfterSetup(role) /\ ep_state_tx' = TxStateAfterSetup(role)
      /\ ep_outstanig_rx_acks' = 0
  BY DEF Reconfigure
<1>2. OtherDirection'
  BY <1>1 DEF OtherDirection, RxStateAfterSetup, TxStateAfterSetup, CtrBits
<1>3. ep_state_tx' \in 0 .. 4
  BY <1>1 DEF TxStateAfterSetup, dbl_buf_en_0_pkts, sgl_buf_0_pkts
<1>4. DoubleSetup'
  BY DoubleSetupBegins DEF EndpointInv
<1> QED BY <1>1, <1>2, <1>3, <1>4, Emptied, QuietPackets

\* The set-up is over, and both sides are at the first packet.
LEMMA BulkResumes ==
    ASSUME EndpointInv, role \in {"bulk_out", "bulk_in"}, HostResumes
    PROVE  Packets'
<1>1. /\ host_stage = "quiet" /\ todo = <<>> /\ host_stage' = "idle"
      /\ UNCHANGED <<role, reg, masked, pma, todo, sent, got, host_toggle, ep_outstanig_rx_acks,
                     ep_state_tx, ep_state_rx>>
  BY DEF HostResumes, driverVars, historyVars
<1>2. /\ sent = 0 /\ got = <<>> /\ ~host_toggle /\ ep_outstanig_rx_acks = 0
      /\ ep_state_tx = TxStateAfterSetup(role) /\ ep_state_rx = RxStateAfterSetup(role)
      /\ "DTOG_RX" \notin reg
      /\ "DTOG_TX" \in reg <=> role = "bulk_out"
      /\ Valid(reg) /\ (masked <=> role = "bulk_in")
  BY <1>1, DoubleSetupOver DEF EndpointInv, RegisterInv, Packets, DataInv
<1>3. PmaOK' /\ Received' /\ OtherDirection
  BY <1>1 DEF EndpointInv, Packets, DataInv, PmaOK, Received, InOrder
<1>4. "CTR_RX" \notin reg /\ "CTR_TX" \notin reg
  BY <1>1 DEF EndpointInv, RegisterInv, AccessInv, QuietSetup, CtrBits
<1>5. Len(got') = 0 /\ sent' = 0
  BY <1>1, <1>2
<1>6. CASE role = "bulk_out"
  <2>1. OutShape(FALSE, FALSE)'
    BY <1>1, <1>4 DEF OutShape
  <2>2. StatRx \subseteq reg
    BY <1>2, <1>6 DEF Valid
  <2>3. ep_state_rx' = dbl_buf_ready_0 + 2 * ep_outstanig_rx_acks' + (Len(got') % 2)
    BY <1>1, <1>2, <1>5, <1>6 DEF RxStateAfterSetup, dbl_buf_ready_0
  <2>4. OutWith(FALSE, FALSE)'
    BY <1>1, <1>2, <1>5, <1>6, <2>2, <2>3 DEF OutWith
  <2>5. BulkOutInUse'
    BY <1>1, <1>6, <2>1, <2>4, OutKept
  <2>6. ep_state_tx' = sgl_buf_0_pkts
    BY <1>1, <1>3, <1>6 DEF OtherDirection
  <2> QED BY <1>1, <1>3, <1>4, <1>6, <2>5, <2>6, OutPackets
<1>7. CASE role = "bulk_in"
  <2>1. InShape(FALSE, FALSE)'
    BY <1>1 DEF InShape
  <2>2. InCounts(FALSE, FALSE, 0, 0)'
    BY <1>1, <1>4, <1>5 DEF InCounts
  <2>3. StatTx \subseteq reg
    BY <1>2, <1>7 DEF Valid
  <2>4. ep_state_tx = dbl_buf_en_0_pkts /\ ep_state_tx \in 0 .. 4
    BY <1>2, <1>7 DEF TxStateAfterSetup, dbl_buf_en_0_pkts
  <2>5. InWith(0, 0, 0)'
    BY <1>1, <1>2, <1>5, <1>7, <2>3, <2>4 DEF InWith, dbl_buf_en_0_pkts
  <2>6. BulkInInUse'
    BY <1>1, <1>7, <2>1, <2>2, <2>5, InKept
  <2>7. ep_state_rx' = sgl_buf_ready /\ ep_outstanig_rx_acks' = 0
    BY <1>1, <1>3, <1>7 DEF OtherDirection
  <2> QED BY <1>1, <1>3, <1>4, <1>7, <2>4, <2>6, <2>7, InPackets
<1> QED BY <1>6, <1>7

LEMMA BulkInit ==
    ASSUME Init, RegisterInv, role \in {"bulk_out", "bulk_in"}
    PROVE  DataInv /\ ep_state_tx \in 0 .. 4
<1>1. /\ host_stage = "quiet" /\ reg = {} /\ ep_outstanig_rx_acks = 0
      /\ ep_state_rx = RxStateAfterSetup(role) /\ ep_state_tx = TxStateAfterSetup(role)
  BY DEF Init
<1>2. OtherDirection
  BY <1>1 DEF OtherDirection, RxStateAfterSetup, TxStateAfterSetup
<1>3. BulkInInUse /\ BulkOutInUse /\ IsDbl
  BY <1>1 DEF BulkInInUse, BulkOutInUse, IsDbl
<1>4. SingleSetup /\ SingleInUse /\ InterruptInUse /\ ControlInUse
  BY <1>3 DEF SingleSetup, SingleInUse, InterruptInUse, ControlInUse
<1>5. ep_state_tx \in 0 .. 4
  BY <1>1 DEF TxStateAfterSetup, dbl_buf_en_0_pkts, sgl_buf_0_pkts
<1> QED BY <1>2, <1>3, <1>4, <1>5, DoubleSetupInit DEF DataInv

LEMMA BulkNext ==
    ASSUME EndpointInv, RegisterInv', role \in {"bulk_out", "bulk_in"}, [Next]_vars
    PROVE  Packets'
<1>1. /\ RegisterInv /\ Packets /\ IsDbl /\ host_stage \in {"quiet", "idle"}
      /\ host_stage = "quiet" => reg \cap CtrBits = {}
  BY DEF EndpointInv, RegisterInv, AccessInv, EndpointTyped, QuietSetup, IsDbl
<1>2. CASE ReadRegister \/ UNCHANGED vars
  BY <1>1, <1>2, PacketsFrame
<1>3. CASE WriteRegister
  BY <1>1, <1>3, OutWrite, InWrite, BulkQuietWrite
<1>4. CASE Poll
  <2>1. host_stage = "idle"
    BY <1>1, <1>4 DEF Poll
  <2> QED BY <1>4, <2>1, OutPoll, InPoll
<1>5. ASSUME NEW pause \in BOOLEAN, HandleBulkOut(pause) PROVE Packets'
  <2>1. host_stage # "quiet"
    <3>1. NextIs("out")
      BY <1>5 DEF HandleBulkOut
    <3> QED BY <1>1, <3>1, CallNext
  <2> QED BY <1>1, <1>5, <2>1, OutHandle
<1>6. CASE HandleSetup
  <2>1. NextIs("setup")
    BY <1>6 DEF HandleSetup
  <2>2. FALSE
    BY <1>1, <2>1, CallNext
  <2> QED BY <2>2
<1>7. CASE HandleControlOut
  BY <1>7 DEF HandleControlOut
<1>8. CASE HandleIn
  <2>1. NextIs("in")
    BY <1>8 DEF HandleIn
  <2>2. host_stage = "idle"
    BY <1>1, <2>1, CallNext
  <2>3. role # "bulk_out"
    <3> SUFFICES ASSUME role = "bulk_out" PROVE FALSE
      OBVIOUS
    <3>1. PICK unread \in BOOLEAN, returned \in BOOLEAN : OutShape(unread, returned)
      BY <1>1, <2>2, OutCases DEF Packets, DataInv
    <3>2. Head(todo).name = "in" /\ todo # <<>>
      BY <2>1 DEF NextIs
    <3> QED BY <3>1, <3>2, OutTodo, OutOps DEF OutShape
  <2> QED BY <1>8, <2>2, <2>3, InHandle
<1>9. CASE Unpause
  <2>1. host_stage # "quiet"
    <3>1. role = "bulk_out" /\ ep_state_rx >= dbl_buf_paused_0
      BY <1>9 DEF Unpause
    <3>2. ep_state_rx = 2 => FALSE
      BY <3>1 DEF dbl_buf_paused_0
    <3>3. host_stage = "quiet" => ep_state_rx = RxStateAfterSetup(role)
      BY <1>1 DEF Packets, DataInv, DoubleSetup
    <3> QED BY <3>1, <3>2, <3>3 DEF RxStateAfterSetup, dbl_buf_ready_0
  <2> QED BY <1>1, <1>9, <2>1, OutUnpause
<1>10. CASE HostIn
  <2>1. role = "bulk_in"
    BY <1>10 DEF HostIn
  <2> QED BY <1>10, <2>1, InFetch
<1>11. CASE HostOutControl \/ HostInStall
  BY <1>1, <1>11 DEF HostOutControl, HostInStall
<1>12. CASE HostResumes
  BY <1>12, BulkResumes
<1>13. CASE Transmit
  <2>1. role = "bulk_in"
    BY <1>13 DEF Transmit
  <2> QED BY <1>13, <2>1, InTransmit
<1>14. CASE HostOutBulk
  BY <1>14, OutReceive
<1>15. ASSUME NEW kind, HostSetup(kind) PROVE FALSE
  BY <1>15 DEF HostSetup
<1>16. CASE Reconfigure
  BY <1>16, BulkReconfigure
<1>17. ASSUME NEW stall, StallSet(stall) PROVE FALSE
  BY <1>17 DEF StallSet
<1> QED BY <1>2, <1>3, <1>4, <1>5, <1>6, <1>7, <1>8, <1>9, <1>10, <1>11, <1>12, <1>13, <1>14,
           <1>15, <1>16, <1>17 DEF Next, Driver, Host

----------------------------------------------------------------------------
(* A single-buffered endpoint: what is due.                                  *)

\* What the operations of such an endpoint are told apart by.
LEMMA UsedOps ==
    LET vt == StatTxSet("valid")
        st == StatTxSet("stall")
        vr == StatRxSet("valid")
        sr == StatRxSet("stall")
    IN  /\ vt \in Operations /\ vt.name = "toggle_bits" /\ vt.mask = StatTx /\ vt.val = StatTx
        /\ st \in Operations /\ st.name = "toggle_bits" /\ st.mask = StatTx /\ st.val # StatTx
        /\ vr \in Operations /\ vr.name = "toggle_bits" /\ vr.mask = StatRx /\ vr.val = StatRx
        /\ sr \in Operations /\ sr.name = "toggle_bits" /\ sr.mask = StatRx
        /\ CtrRxClear \in Operations /\ CtrRxClear.name = "ctr_clear" /\ CtrRxClear.mask = {"CTR_RX"}
        /\ CtrTxClear \in Operations /\ CtrTxClear.name = "ctr_clear" /\ CtrTxClear.mask = {"CTR_TX"}
        /\ \A what \in {"setup", "out", "in"} :
              Call(what) \in Operations /\ Call(what).name = what /\ Call(what).mask = {}
        /\ StatTx # StatRx
<1>1. StatTx # StatRx
  BY DEF StatTx, StatRx
<1> QED BY <1>1, StatusOps, StatusFacts, ClearFacts, CallFacts

\* Nothing but the completion of a packet sent.
OnlySent(S) == S \in {{}, {CtrTxClear, Call("in")}, {Call("in")}}

LEMMA RestElements ==
    ASSUME NEW ops \in Rest
    PROVE  OnlySent(Elements(ops)) /\ ops \in Seq(Operations)
<1> DEFINE k == CtrTxClear
           c == Call("in")
<1>1. k \in Operations /\ c \in Operations
  BY UsedOps
<1>2. ops \in {<<>>, <<k, c>>, <<c>>}
  BY DEF Rest
<1>3. OnlySent(Elements(ops)) <=> Elements(ops) \in {{}, {k, c}, {c}}
  BY DEF OnlySent
<1> HIDE DEF k, c
<1>4. Elements(<<>>) = {}
  BY DEF Elements
<1>5. Elements(ops) \in {{}, {k, c}, {c}}
  BY <1>1, <1>2, <1>4, TupleFacts
<1> QED BY <1>3, <1>5, RestFacts

\* What there is to do, and by what it begins.
Begins(op, S) == todo # <<>> /\ Head(todo) = op /\ Pending = S
UsedShape(S) ==
    \/ /\ \/ Begins(StatTxSet("valid"), {StatTxSet("valid")})
          \/ Begins(StatTxSet("valid"), {StatTxSet("valid"), StatRxSet("valid")})
       /\ Submitting /\ (role # "interrupt_in" => ~(StatRx \subseteq reg))
    \/ todo \in Rest /\ Pending = S
    \/ /\ ~(StatRx \subseteq reg)
       /\ \/ /\ "CTR_RX" \in reg
             /\ \/ Begins(CtrRxClear, {CtrRxClear, Call("setup")} \cup S)
                \/ Begins(CtrRxClear, {CtrRxClear, Call("out")} \cup S)
          \/ /\ "CTR_RX" \notin reg
             /\ \/ Begins(Call("setup"), {Call("setup")} \cup S)
                \/ Begins(Call("out"), {Call("out")} \cup S)
                \/ /\ Begins(StatTxSet("stall"),
                             {StatTxSet("stall"), StatRxSet("stall"), StatRxSet("valid")} \cup S)
                   /\ ~(StatTx \subseteq reg)
                \/ Begins(StatRxSet("stall"), {StatRxSet("stall"), StatRxSet("valid")} \cup S)
                \/ Begins(StatRxSet("valid"), {StatRxSet("valid")} \cup S)

LEMMA BeginsWith ==
    ASSUME NEW a \in Operations, NEW b \in Operations, NEW c \in Operations,
           NEW s \in Seq(Operations)
    PROVE  /\ todo = <<a>> => Begins(a, {a})
           /\ todo = <<a, b>> => Begins(a, {a, b})
           /\ todo = <<a>> \o s => Begins(a, {a} \cup Elements(s))
           /\ todo = <<a, b>> \o s => Begins(a, {a, b} \cup Elements(s))
           /\ todo = <<a, b, c>> \o s => Begins(a, {a, b, c} \cup Elements(s))
<1>1. Pending = Elements(todo)
  BY DEF Pending, Elements
<1>2. todo = <<a>> => Begins(a, {a})
  <2>1. <<a>> # <<>> /\ Head(<<a>>) = a /\ Elements(<<a>>) = {a}
    BY TupleFacts, Shapes
  <2> QED BY <1>1, <2>1 DEF Begins
<1>3. todo = <<a, b>> => Begins(a, {a, b})
  <2>1. <<a, b>> # <<>> /\ Head(<<a, b>>) = a /\ Elements(<<a, b>>) = {a, b}
    BY TupleFacts, Shapes
  <2> QED BY <1>1, <2>1 DEF Begins
<1>4. todo = <<a>> \o s => Begins(a, {a} \cup Elements(s))
  <2>1. /\ <<a>> \o s # <<>> /\ Head(<<a>> \o s) = a
        /\ Elements(<<a>> \o s) = {a} \cup Elements(s)
    BY ConsFacts
  <2> QED BY <1>1, <2>1 DEF Begins
<1>5. todo = <<a, b>> \o s => Begins(a, {a, b} \cup Elements(s))
  <2> DEFINE t == <<b>> \o s
  <2>1. t \in Seq(Operations) /\ Elements(t) = {b} \cup Elements(s)
    BY ConsFacts
  <2>2. <<a, b>> \o s = <<a>> \o t
    BY PairConcat
  <2> HIDE DEF t
  <2>3. /\ <<a>> \o t # <<>> /\ Head(<<a>> \o t) = a
        /\ Elements(<<a>> \o t) = {a} \cup Elements(t)
    BY <2>1, ConsFacts
  <2>4. {a} \cup Elements(t) = {a, b} \cup Elements(s)
    BY <2>1
  <2> QED BY <1>1, <2>2, <2>3, <2>4 DEF Begins
<1>6. todo = <<a, b, c>> \o s => Begins(a, {a, b, c} \cup Elements(s))
  <2> DEFINE t == <<b, c>> \o s
  <2>1. t \in Seq(Operations) /\ Elements(t) = {b, c} \cup Elements(s)
    BY PairBefore
  <2>2. <<a, b, c>> \o s = <<a>> \o t
    BY TripleConcat
  <2> HIDE DEF t
  <2>3. /\ <<a>> \o t # <<>> /\ Head(<<a>> \o t) = a
        /\ Elements(<<a>> \o t) = {a} \cup Elements(t)
    BY <2>1, ConsFacts
  <2>4. {a} \cup Elements(t) = {a, b, c} \cup Elements(s)
    BY <2>1
  <2> QED BY <1>1, <2>2, <2>3, <2>4 DEF Begins
<1> QED BY <1>2, <1>3, <1>4, <1>5, <1>6

LEMMA UsedShapes ==
    ASSUME RegisterInv, ~IsDbl, host_stage # "quiet"
    PROVE  \E S : OnlySent(S) /\ UsedShape(S)
<1> DEFINE vt == StatTxSet("valid")
           st == StatTxSet("stall")
           vr == StatRxSet("valid")
           sr == StatRxSet("stall")
           k == CtrRxClear
           cs == Call("setup")
           co == Call("out")
<1>1. /\ vt \in Operations /\ st \in Operations /\ vr \in Operations /\ sr \in Operations
      /\ k \in Operations /\ cs \in Operations /\ co \in Operations
  BY UsedOps
<1>2. Submitting \/ \E ops \in Rest : ReceivedPending(ops) /\ SentPending(ops)
  BY DEF RegisterInv, AccessInv, SingleBuffered, Rest
<1>3. CASE Submitting
  <2>1. /\ todo = <<vt>> \/ todo = <<vt, vr>>
        /\ role # "interrupt_in" => ~(StatRx \subseteq reg)
    BY <1>3 DEF Submitting
  <2>2. Begins(vt, {vt}) \/ Begins(vt, {vt, vr})
    <3> HIDE DEF vt, vr
    <3>1. <<>> \in Seq(Operations)
      OBVIOUS
    <3>2. /\ todo = <<vt>> => Begins(vt, {vt})
          /\ todo = <<vt, vr>> => Begins(vt, {vt, vr})
      BY <1>1, <3>1, BeginsWith
    <3> QED BY <2>1, <3>2
  <2>3. UsedShape({}) /\ OnlySent({})
    BY <1>3, <2>1, <2>2 DEF UsedShape, OnlySent
  <2> QED BY <2>3
<1>4. ASSUME NEW ops \in Rest, ReceivedPending(ops)
      PROVE  \E S : OnlySent(S) /\ UsedShape(S)
  <2> DEFINE S == Elements(ops)
  <2>1. OnlySent(S) /\ ops \in Seq(Operations)
    BY RestElements
  <2>2. todo = ops => Pending = S
    BY DEF Pending, Elements
  <2>3. /\ todo = <<k, cs>> \o ops => Begins(k, {k, cs} \cup S)
        /\ todo = <<k, co>> \o ops => Begins(k, {k, co} \cup S)
        /\ todo = <<cs>> \o ops => Begins(cs, {cs} \cup S)
        /\ todo = <<co>> \o ops => Begins(co, {co} \cup S)
        /\ todo = <<st, sr, vr>> \o ops => Begins(st, {st, sr, vr} \cup S)
        /\ todo = <<sr, vr>> \o ops => Begins(sr, {sr, vr} \cup S)
        /\ todo = <<vr>> \o ops => Begins(vr, {vr} \cup S)
    <3> HIDE DEF vt, st, vr, sr, k, cs, co
    <3>1. /\ todo = <<k, cs>> \o ops => Begins(k, {k, cs} \cup S)
          /\ todo = <<k, co>> \o ops => Begins(k, {k, co} \cup S)
      BY <1>1, <2>1, BeginsWith
    <3>2. /\ todo = <<cs>> \o ops => Begins(cs, {cs} \cup S)
          /\ todo = <<co>> \o ops => Begins(co, {co} \cup S)
          /\ todo = <<vr>> \o ops => Begins(vr, {vr} \cup S)
      BY <1>1, <2>1, BeginsWith
    <3>3. /\ todo = <<st, sr, vr>> \o ops => Begins(st, {st, sr, vr} \cup S)
          /\ todo = <<sr, vr>> \o ops => Begins(sr, {sr, vr} \cup S)
      BY <1>1, <2>1, BeginsWith
    <3> QED BY <3>1, <3>2, <3>3
  <2> HIDE DEF S
  <2>4. UsedShape(S)
    BY <1>4, <2>2, <2>3 DEF ReceivedPending, UsedShape
  <2> QED BY <2>1, <2>4
<1> QED BY <1>2, <1>3, <1>4

\* What is due does not come as a surprise: the access that is next, and what it is about.
UsedNext(op) ==
    \/ /\ op.name = "ctr_clear"
       /\ \/ op.mask = {"CTR_RX"} /\ (Call("setup") \in Pending \/ Call("out") \in Pending)
          \/ op.mask = {"CTR_TX"} /\ Call("in") \in Pending
    \/ op.name = "toggle_bits" /\ op.mask = StatRx
    \/ /\ op.name = "toggle_bits" /\ op.mask = StatTx /\ ~(StatTx \subseteq reg)
       /\ op = StatTxSet("valid") \/ (op.val # StatTx /\ ~SetupDue /\ ~TxDue)

LEMMA UsedFacts ==
    ASSUME RegisterInv, ~IsDbl, host_stage # "quiet"
    PROVE  /\ StatTxSet("valid") \in Pending => ~(StatTx \subseteq reg)
           /\ StatRx \subseteq reg /\ role # "interrupt_in" => Call("setup") \notin Pending
           /\ todo # <<>> /\ Head(todo).mask # {} => UsedNext(Head(todo))
<1> DEFINE vt == StatTxSet("valid")
           st == StatTxSet("stall")
           vr == StatRxSet("valid")
           sr == StatRxSet("stall")
           kr == CtrRxClear
           kt == CtrTxClear
           cs == Call("setup")
           co == Call("out")
           ci == Call("in")
           op == Head(todo)
<1>1. /\ vt.name = "toggle_bits" /\ vt.mask = StatTx /\ vt.val = StatTx
      /\ st.name = "toggle_bits" /\ st.mask = StatTx /\ st.val # StatTx
      /\ vr.name = "toggle_bits" /\ vr.mask = StatRx
      /\ sr.name = "toggle_bits" /\ sr.mask = StatRx
      /\ kr.name = "ctr_clear" /\ kr.mask = {"CTR_RX"}
      /\ kt.name = "ctr_clear" /\ kt.mask = {"CTR_TX"}
      /\ cs.name = "setup" /\ co.name = "out" /\ ci.name = "in"
      /\ cs.mask = {} /\ co.mask = {} /\ ci.mask = {}
      /\ StatTx # StatRx
  BY UsedOps
<1>2. PICK S : OnlySent(S) /\ UsedShape(S)
  BY UsedShapes
<1>3. S \in {{}, {kt, ci}, {ci}}
  BY <1>2 DEF OnlySent
<1>4. todo \in Rest =>
         \/ todo = <<>> \/ op = ci
         \/ op = kt /\ Pending = {kt, ci}
  <2>1. kt \in Operations /\ ci \in Operations
    BY UsedOps
  <2>2. Rest = {<<>>, <<kt, ci>>, <<ci>>}
    BY DEF Rest
  <2>3. Pending = Elements(todo)
    BY DEF Pending, Elements
  <2> HIDE DEF kt, ci
  <2>4. Head(<<kt, ci>>) = kt /\ Head(<<ci>>) = ci /\ Elements(<<kt, ci>>) = {kt, ci}
    BY <2>1, TupleFacts, Shapes
  <2> QED BY <2>2, <2>3, <2>4
<1>5. \/ /\ Begins(vt, {vt}) \/ Begins(vt, {vt, vr})
         /\ Submitting /\ (role # "interrupt_in" => ~(StatRx \subseteq reg))
      \/ todo \in Rest /\ Pending = S
      \/ /\ ~(StatRx \subseteq reg)
         /\ \/ "CTR_RX" \in reg /\ (Begins(kr, {kr, cs} \cup S) \/ Begins(kr, {kr, co} \cup S))
            \/ /\ "CTR_RX" \notin reg
               /\ \/ Begins(cs, {cs} \cup S) \/ Begins(co, {co} \cup S)
                  \/ Begins(st, {st, sr, vr} \cup S) /\ ~(StatTx \subseteq reg)
                  \/ Begins(sr, {sr, vr} \cup S) \/ Begins(vr, {vr} \cup S)
  BY <1>2 DEF UsedShape
<1>6. /\ TxDue <=> vt \in Pending \/ StatTx \subseteq reg
      /\ SetupDue => cs \in Pending \/ "CTR_RX" \in reg
      /\ UsedNext(op) <=>
            \/ /\ op.name = "ctr_clear"
               /\ \/ op.mask = {"CTR_RX"} /\ (cs \in Pending \/ co \in Pending)
                  \/ op.mask = {"CTR_TX"} /\ ci \in Pending
            \/ op.name = "toggle_bits" /\ op.mask = StatRx
            \/ /\ op.name = "toggle_bits" /\ op.mask = StatTx /\ ~(StatTx \subseteq reg)
               /\ op = vt \/ (op.val # StatTx /\ ~SetupDue /\ ~TxDue)
  BY DEF TxDue, SetupDue, UsedNext
<1>7. Submitting => ~(StatTx \subseteq reg)
  BY DEF Submitting
<1> HIDE DEF vt, st, vr, sr, kr, kt, cs, co, ci, op
<1>8. vt \in Pending => ~(StatTx \subseteq reg)
  BY <1>1, <1>3, <1>5, <1>7 DEF Begins
<1>9. StatRx \subseteq reg /\ role # "interrupt_in" => cs \notin Pending
  BY <1>1, <1>3, <1>5 DEF Begins
<1>10. ASSUME todo # <<>>, op.mask # {} PROVE UsedNext(op)
  <2>1. CASE (Begins(vt, {vt}) \/ Begins(vt, {vt, vr})) /\ Submitting
    BY <1>1, <1>6, <1>7, <2>1 DEF Begins, op
  <2>2. CASE todo \in Rest /\ Pending = S
    BY <1>1, <1>4, <1>6, <1>10, <2>2
  <2>3. CASE Begins(kr, {kr, cs} \cup S) \/ Begins(kr, {kr, co} \cup S)
    BY <1>1, <1>6, <2>3 DEF Begins, op
  <2>4. CASE Begins(cs, {cs} \cup S) \/ Begins(co, {co} \cup S)
    BY <1>1, <1>10, <2>4 DEF Begins, op
  <2>5. CASE "CTR_RX" \notin reg /\ Begins(st, {st, sr, vr} \cup S) /\ ~(StatTx \subseteq reg)
    <3>1. Pending = {st, sr, vr} \cup S /\ op = st
      BY <2>5 DEF Begins, op
    <3>2. vt \notin Pending /\ cs \notin Pending
      BY <1>1, <1>3, <3>1
    <3>3. ~TxDue /\ ~SetupDue
      BY <1>6, <2>5, <3>2
    <3> QED BY <1>1, <1>6, <2>5, <3>1, <3>3
  <2>6. CASE Begins(sr, {sr, vr} \cup S) \/ Begins(vr, {vr} \cup S)
    BY <1>1, <1>6, <2>6 DEF Begins, op
  <2> QED BY <1>5, <2>1, <2>2, <2>3, <2>4, <2>5, <2>6
<1> QED BY <1>8, <1>9, <1>10 DEF vt, cs, op

----------------------------------------------------------------------------
(* A single-buffered endpoint: the driver's accesses and polling.            *)

\* What has to be shown of a step at such an endpoint.
LEMMA SinglePackets ==
    ASSUME ~IsDbl, role' = role, PmaOK', Received',
           ep_state_rx' = sgl_buf_ready, ep_outstanig_rx_acks' = 0,
           SingleSetup', SingleInUse', InterruptInUse', ControlInUse'
    PROVE  Packets'
<1>1. role' # "bulk_out" /\ role' # "bulk_in" /\ ~IsDbl'
  BY DEF IsDbl
<1>2. OtherDirection' /\ DoubleSetup' /\ BulkOutInUse' /\ BulkInInUse'
  BY <1>1 DEF OtherDirection, DoubleSetup, BulkOutInUse, BulkInInUse
<1> QED BY <1>1, <1>2 DEF Packets, DataInv

\* What the steps need of the state they start from.
LEMMA SingleFacts ==
    ASSUME EndpointInv, ~IsDbl
    PROVE  /\ RegisterInv /\ PmaOK /\ Received /\ ~masked /\ latch \in (SUBSET RegisterBits) \cup {NotRead}
           /\ role \in {"interrupt_in", "control"}
           /\ ep_state_rx = sgl_buf_ready /\ ep_outstanig_rx_acks = 0
           /\ SingleSetup /\ SingleInUse /\ InterruptInUse /\ ControlInUse
           /\ host_toggle \in BOOLEAN /\ sent \in Nat /\ Len(got) \in Nat
           /\ role = "interrupt_in" => /\ host_stage \in {"quiet", "idle"}
                                       /\ "SETUP" \notin reg /\ "CTR_RX" \notin reg
BY DEF EndpointInv, RegisterInv, Typed, AccessInv, EndpointTyped, Packets, DataInv, Received,
       OtherDirection, IsDbl, Ranges

\* A step that leaves what is due as it is.
LEMMA StagesKept ==
    ASSUME EndpointInv, ~IsDbl, UNCHANGED <<role, pma, sent, got, host_toggle, host_stage>>,
           TxDue' <=> TxDue, SetupDue' <=> SetupDue, OutDue' <=> OutDue, InDue' => InDue,
           "DTOG_TX" \in reg' <=> "DTOG_TX" \in reg,
           "DTOG_RX" \in reg' <=> "DTOG_RX" \in reg,
           \/ reg' \cap StatTx = reg \cap StatTx
           \/ ~SetupDue /\ ~TxDue
           \/ TxDue /\ reg' \cap StatTx = StatTx
    PROVE  InterruptInUse' /\ ControlInUse'
<1>1. InterruptInUse /\ ControlInUse
  BY SingleFacts
<1>2. InterruptInUse'
  BY <1>1 DEF InterruptInUse, Holds
<1>3. StatTx # TxStatus("stall")
  BY StatusFacts
<1>4. AtRest => AtRest'
  BY DEF AtRest
<1>5. AwaitingReply => AwaitingReply'
  <2> SUFFICES ASSUME AwaitingReply PROVE AwaitingReply'
    OBVIOUS
  <2>1. sent' = Len(got') + 1 /\ {"DTOG_TX", "DTOG_RX"} \subseteq reg' /\ ~OutDue' /\ ~InDue'
    BY DEF AwaitingReply
  <2>2. SetupDue' => /\ ~TxDue' /\ reg' \cap StatTx = TxStatus("nak")
                     /\ HoldsSetup(Len(got), {ReadRequest, RefusedRequest})'
    BY DEF AwaitingReply, HoldsSetup
  <2>3. TxDue' => /\ Holds(qsb_offset_tx, Packet(Len(got)))'
                  /\ reg' \cap StatTx # TxStatus("stall")
    BY <1>3 DEF AwaitingReply, Holds
  <2> QED BY <2>1, <2>2, <2>3 DEF AwaitingReply
<1>6. Confirming => Confirming'
  BY DEF Confirming
<1>7. SendingData => SendingData'
  BY DEF SendingData, HoldsSetup
<1>8. AwaitingStatus => AwaitingStatus'
  BY DEF AwaitingStatus, Holds
<1>9. ControlInUse'
  BY <1>1, <1>4, <1>5, <1>6, <1>7, <1>8 DEF ControlInUse
<1> QED BY <1>2, <1>9

\* What is due of calls and packets to send is as it was, after an access.
LEMMA SingleUseWrite ==
    ASSUME EndpointInv, ~IsDbl, host_stage # "quiet", WriteRegister
    PROVE  Packets'
<1> DEFINE op == Head(todo)
           vt == StatTxSet("valid")
           cs == Call("setup")
           co == Call("out")
           ci == Call("in")
<1>1. /\ todo # <<>> /\ op.mask # {} /\ todo' = Tail(todo)
      /\ UNCHANGED <<role, pma, sent, got, host_toggle, host_stage, ep_outstanig_rx_acks,
                     ep_state_tx, ep_state_rx>>
  BY DEF WriteRegister, driverVars, historyVars, hostVars, IsRegisterOp
<1>2. /\ RegisterInv /\ Typed /\ SingleInUse /\ ep_state_rx = sgl_buf_ready /\ ep_outstanig_rx_acks = 0
      /\ PmaOK /\ Received /\ ~masked
  BY SingleFacts DEF RegisterInv
<1>3. Pending = {op} \cup Pending'
  BY <1>1, <1>2, PendingFacts
<1>4. /\ cs \in Pending' <=> cs \in Pending
      /\ co \in Pending' <=> co \in Pending
      /\ ci \in Pending' <=> ci \in Pending
  <2>1. cs.mask = {} /\ co.mask = {} /\ ci.mask = {}
    BY UsedOps
  <2> HIDE DEF cs, co, ci, op
  <2> QED BY <1>1, <1>3, <2>1
<1>5. UsedNext(op)
  BY <1>1, <1>2, UsedFacts
<1>6. /\ op.name = "toggle_bits" => StatusSet(reg, reg', op.mask, op.val)
      /\ op.name = "ctr_clear" => FlagCleared(reg, reg', op.mask)
  BY <1>2, SingleAccess
<1>7. reg' = Intended(op, reg)
  BY <1>2, WriteExact
<1>8. ~(SetupDue /\ OutDue)
  BY <1>2 DEF SingleInUse
<1>9. /\ TxDue <=> vt \in Pending \/ StatTx \subseteq reg
      /\ InDue <=> ci \in Pending \/ "CTR_TX" \in reg
      /\ SetupDue <=> cs \in Pending \/ ("CTR_RX" \in reg /\ "SETUP" \in reg)
      /\ OutDue <=> co \in Pending \/ ("CTR_RX" \in reg /\ "SETUP" \notin reg)
  BY DEF TxDue, InDue, SetupDue, OutDue
<1>10. /\ TxDue' <=> vt \in Pending' \/ StatTx \subseteq reg'
       /\ InDue' <=> ci \in Pending' \/ "CTR_TX" \in reg'
       /\ SetupDue' <=> cs \in Pending' \/ ("CTR_RX" \in reg' /\ "SETUP" \in reg')
       /\ OutDue' <=> co \in Pending' \/ ("CTR_RX" \in reg' /\ "SETUP" \notin reg')
  BY DEF TxDue, InDue, SetupDue, OutDue
<1>11. vt.mask = StatTx /\ vt.val = StatTx /\ vt.name = "toggle_bits" /\ StatTx # StatRx
       /\ StatTx # {} /\ StatRx # {} /\ "CTR_RX" \notin StatTx
  BY UsedOps, BitFacts DEF StatTx
<1>12. UsedNext(op) <=>
          \/ /\ op.name = "ctr_clear"
             /\ \/ op.mask = {"CTR_RX"} /\ (cs \in Pending \/ co \in Pending)
                \/ op.mask = {"CTR_TX"} /\ ci \in Pending
          \/ op.name = "toggle_bits" /\ op.mask = StatRx
          \/ /\ op.name = "toggle_bits" /\ op.mask = StatTx /\ ~(StatTx \subseteq reg)
             /\ op = vt \/ (op.val # StatTx /\ ~SetupDue /\ ~TxDue)
  BY DEF UsedNext
<1> DEFINE Same ==
        /\ TxDue' <=> TxDue
        /\ InDue' <=> InDue
        /\ SetupDue' <=> SetupDue
        /\ OutDue' <=> OutDue
        /\ "DTOG_TX" \in reg' <=> "DTOG_TX" \in reg
        /\ "DTOG_RX" \in reg' <=> "DTOG_RX" \in reg
        /\ \/ reg' \cap StatTx = reg \cap StatTx
           \/ ~SetupDue /\ ~TxDue
           \/ TxDue /\ reg' \cap StatTx = StatTx
<1>13. Same
  <2> HIDE DEF vt, cs, co, ci, op
  <2>1. CASE op.name = "ctr_clear"
    <3>1. op.mask \in {{"CTR_RX"}, {"CTR_TX"}} /\ op # vt
      BY <1>5, <1>11, <1>12, <2>1
    <3>2. /\ reg' = (reg \ op.mask) \cup op.val /\ op.val = {}
      <4>1. Fits(op)
        BY <1>2, WriteEffect DEF op
      <4> QED BY <1>7, <2>1, <4>1 DEF Intended, Fits
    <3>3. /\ "DTOG_TX" \in reg' <=> "DTOG_TX" \in reg
          /\ "DTOG_RX" \in reg' <=> "DTOG_RX" \in reg
          /\ reg' \cap StatTx = reg \cap StatTx
      BY <3>1, <3>2 DEF StatTx
    <3>4. FlagCleared(reg, reg', op.mask)
      BY <1>6, <2>1
    <3>5. vt \in Pending' <=> vt \in Pending
      BY <1>3, <3>1
    <3>6. TxDue' <=> TxDue
      BY <1>9, <1>10, <3>4, <3>5 DEF FlagCleared
    <3>7. InDue' <=> InDue
      BY <1>4, <1>5, <1>9, <1>10, <1>11, <1>12, <2>1, <3>4 DEF FlagCleared
    <3>8. (SetupDue' <=> SetupDue) /\ (OutDue' <=> OutDue)
      BY <1>4, <1>5, <1>8, <1>9, <1>10, <1>12, <2>1, <3>4 DEF FlagCleared
    <3> QED BY <3>3, <3>6, <3>7, <3>8
  <2>2. CASE op.name # "ctr_clear"
    <3>1. op.name = "toggle_bits" /\ op.mask \in {StatRx, StatTx}
      BY <1>5, <1>12, <2>2
    <3>2. reg' = (reg \ op.mask) \cup op.val /\ op.val \subseteq op.mask
      <4>1. Fits(op)
        BY <1>2, WriteEffect DEF op
      <4> QED BY <1>7, <3>1, <4>1 DEF Intended, Fits
    <3>3. StatusSet(reg, reg', op.mask, op.val)
      BY <1>6, <3>1
    <3>4. /\ "DTOG_TX" \in reg' <=> "DTOG_TX" \in reg
          /\ "DTOG_RX" \in reg' <=> "DTOG_RX" \in reg
      BY <3>1, <3>2 DEF StatTx, StatRx
    <3>5. (InDue' <=> InDue) /\ (SetupDue' <=> SetupDue) /\ (OutDue' <=> OutDue)
      BY <1>4, <1>9, <1>10, <3>3 DEF StatusSet
    <3>6. CASE op.mask = StatRx
      <4>1. reg' \cap StatTx = reg \cap StatTx
        BY <3>2, <3>6 DEF StatTx, StatRx
      <4>2. vt \in Pending' <=> vt \in Pending
        BY <1>3, <1>11, <3>6
      <4>3. TxDue' <=> TxDue
        BY <1>9, <1>10, <1>11, <3>3, <3>6, <4>2 DEF StatusSet
      <4> QED BY <3>4, <3>5, <4>1, <4>3
    <3>7. CASE op.mask = StatTx /\ op = vt
      <4>1. StatTx \subseteq reg' /\ vt \in Pending
        BY <1>3, <1>11, <3>2, <3>7
      <4> QED BY <1>9, <1>10, <3>4, <3>5, <4>1
    <3>8. CASE op.mask = StatTx /\ op # vt
      <4>1. op.val # StatTx /\ ~SetupDue /\ ~TxDue /\ ~(StatTx \subseteq reg)
        BY <1>5, <1>11, <1>12, <3>1, <3>8
      <4>2. ~(StatTx \subseteq reg')
        BY <3>3, <3>8, <4>1 DEF StatusSet
      <4>3. vt \notin Pending'
        BY <1>3, <1>9, <4>1
      <4> QED BY <1>9, <1>10, <3>4, <3>5, <4>1, <4>2, <4>3
    <3> QED BY <3>1, <3>6, <3>7, <3>8
  <2> QED BY <2>1, <2>2
<1>14. InterruptInUse' /\ ControlInUse'
  <2>1. UNCHANGED <<role, pma, sent, got, host_toggle, host_stage>>
    BY <1>1
  <2> QED BY <1>13, <2>1, StagesKept
<1>15. SingleInUse'
  BY <1>1, <1>2, <1>13 DEF SingleInUse
<1>16. SingleSetup'
  BY <1>1 DEF SingleSetup
<1>17. PmaOK' /\ Received'
  BY <1>1, <1>2 DEF PmaOK, Received, InOrder
<1> QED BY <1>1, <1>2, <1>14, <1>15, <1>16, <1>17, SinglePackets

\* Polling finds what the flags say.
LEMMA SinglePoll ==
    ASSUME EndpointInv, ~IsDbl, Poll
    PROVE  Packets'
<1> DEFINE cs == Call("setup")
           co == Call("out")
           ci == Call("in")
           kr == CtrRxClear
           kt == CtrTxClear
           c == IF "SETUP" \in reg THEN cs ELSE co
           first == IF "CTR_RX" \in reg THEN <<kr, c>> ELSE <<>>
           second == IF "CTR_TX" \in reg THEN <<kt, ci>> ELSE <<>>
<1>1. /\ todo = <<>> /\ reg \cap CtrBits # {}
      /\ UNCHANGED <<role, reg, masked, pma, sent, got, host_toggle, host_stage,
                     ep_outstanig_rx_acks, ep_state_tx, ep_state_rx>>
  BY DEF Poll, driverVars, historyVars, hostVars
<1>2. todo' = first \o second
  BY DEF Poll, HandlerOps
<1>3. /\ RegisterInv /\ SingleInUse /\ ep_state_rx = sgl_buf_ready /\ ep_outstanig_rx_acks = 0
      /\ PmaOK /\ Received
  BY SingleFacts
<1>4. host_stage # "quiet" /\ Pending = {}
  BY <1>1, <1>3, NothingToDo DEF RegisterInv, AccessInv, QuietSetup
<1>5. /\ cs.name = "setup" /\ co.name = "out" /\ ci.name = "in"
      /\ kr.name = "ctr_clear" /\ kt.name = "ctr_clear"
      /\ cs \in Operations /\ co \in Operations /\ ci \in Operations
      /\ kr \in Operations /\ kt \in Operations
      /\ StatTxSet("valid").name = "toggle_bits"
  BY UsedOps
<1>6. /\ cs \in Pending' <=> "CTR_RX" \in reg /\ "SETUP" \in reg
      /\ co \in Pending' <=> "CTR_RX" \in reg /\ "SETUP" \notin reg
      /\ ci \in Pending' <=> "CTR_TX" \in reg
      /\ StatTxSet("valid") \notin Pending'
  <2> HIDE DEF cs, co, ci, kr, kt
  <2>1. c \in Operations
    BY <1>5
  <2> HIDE DEF c
  <2>2. <<>> \in Seq(Operations) /\ Elements(<<>>) = {}
    BY DEF Elements
  <2>3. /\ second \in Seq(Operations)
        /\ Elements(second) = IF "CTR_TX" \in reg THEN {kt, ci} ELSE {}
    BY <1>5, <2>2, TupleFacts
  <2> HIDE DEF second
  <2>4. Elements(todo') = (IF "CTR_RX" \in reg THEN {kr, c} ELSE {}) \cup Elements(second)
    <3>1. CASE "CTR_RX" \in reg
      <4>1. Elements(<<kr, c>> \o second) = {kr, c} \cup Elements(second)
        BY <1>5, <2>1, <2>3, PairBefore
      <4> QED BY <1>2, <3>1, <4>1
    <3>2. CASE "CTR_RX" \notin reg
      <4>1. <<>> \o second = second
        BY <2>3, EmptyFacts
      <4> QED BY <1>2, <3>2, <4>1
    <3> QED BY <3>1, <3>2
  <2>5. Pending' = Elements(todo')
    BY ElementsPrimed
  <2>6. c = IF "SETUP" \in reg THEN cs ELSE co
    BY DEF c
  <2> QED BY <1>5, <2>3, <2>4, <2>5, <2>6
<1>7. /\ TxDue' <=> TxDue
      /\ InDue' <=> InDue
      /\ SetupDue' <=> SetupDue
      /\ OutDue' <=> OutDue
  BY <1>1, <1>4, <1>6 DEF TxDue, InDue, SetupDue, OutDue
<1>8. InterruptInUse' /\ ControlInUse'
  BY <1>1, <1>7, StagesKept
<1>9. SingleInUse'
  BY <1>1, <1>3, <1>4, <1>7 DEF SingleInUse
<1>10. SingleSetup'
  BY <1>1, <1>4 DEF SingleSetup
<1>11. PmaOK' /\ Received'
  BY <1>1, <1>3 DEF PmaOK, Received, InOrder
<1> QED BY <1>1, <1>3, <1>8, <1>9, <1>10, <1>11, SinglePackets

----------------------------------------------------------------------------
(* A single-buffered endpoint is set up.                                     *)

\* The toggle for sending is cleared, and not set.
ClearsToggle(S) ==
    /\ \A op \in S : op.mask = {"DTOG_TX"} => op.val = {}
    /\ \E op \in S : op.mask = {"DTOG_TX"}

\* The other operations of a set-up are about other bits.
LEMMA OtherMasks ==
    /\ DtogTxClear.mask = {"DTOG_TX"} /\ DtogTxClear.val = {} /\ DtogTxClear \in Operations
    /\ DtogRxClear.mask # {"DTOG_TX"} /\ DtogRxClear \in Operations
    /\ \A status \in {"disabled", "stall", "nak", "valid"} :
          /\ StatTxSet(status).mask # {"DTOG_TX"} /\ StatTxSet(status) \in Operations
          /\ StatRxSet(status).mask # {"DTOG_TX"} /\ StatRxSet(status) \in Operations
    /\ \A val \in SUBSET RwBits :
          SetAllRwBits(val).mask # {"DTOG_TX"} /\ SetAllRwBits(val) \in Operations
<1>1. StatTx # {"DTOG_TX"} /\ StatRx # {"DTOG_TX"} /\ RwBits # {"DTOG_TX"} /\ {"DTOG_RX"} # {"DTOG_TX"}
  BY DEF StatTx, StatRx, RwBits
<1>2. DtogTxClear.mask = {"DTOG_TX"} /\ DtogTxClear.val = {} /\ DtogRxClear.mask = {"DTOG_RX"}
  BY DEF DtogTxClear, DtogRxClear, ToggleBits
<1>3. DtogTxClear \in Operations /\ DtogRxClear \in Operations
  BY SetupToggles DEF SetupOperation
<1> QED BY <1>1, <1>2, <1>3, StatusOps, SetAllFacts

LEMMA SetupClears ==
    ASSUME role \in {"interrupt_in", "control"}
    PROVE  SetupOps(role) \in Seq(Operations) /\ ClearsToggle(Elements(SetupOps(role)))
<1> DEFINE all == SetAllRwBits(TypeBits(role))
           tc == DtogTxClear
           rc == DtogRxClear
           tn == StatTxSet("nak")
           rv == StatRxSet("valid")
           s == EpSetupOps(role)
<1>1. /\ tc \in Operations /\ rc \in Operations /\ tn \in Operations /\ rv \in Operations
      /\ tc.mask = {"DTOG_TX"} /\ tc.val = {} /\ rc.mask # {"DTOG_TX"}
      /\ tn.mask # {"DTOG_TX"} /\ rv.mask # {"DTOG_TX"}
  BY OtherMasks
<1>2. all \in Operations /\ all.mask # {"DTOG_TX"}
  <2>1. TypeBits(role) \in SUBSET RwBits
    BY TypeBitsFacts
  <2> QED BY <2>1, OtherMasks
<1>3. s \in {<<tc, tn>>, <<tc, tn, rc, rv>>}
  BY DEF EpSetupOps
<1>4. SetupOps(role) = <<all>> \o s
  BY DEF SetupOps
<1> HIDE DEF all, tc, rc, tn, rv, s
<1>5. s \in Seq(Operations) /\ Elements(s) \in {{tc, tn}, {tc, tn, rc, rv}}
  <2>1. <<tc, tn>> \in Seq(Operations) /\ Elements(<<tc, tn>>) = {tc, tn}
    BY <1>1, TupleFacts
  <2>2. <<tc, tn, rc, rv>> \in Seq(Operations) /\ Elements(<<tc, tn, rc, rv>>) = {tc, tn, rc, rv}
    BY <1>1, QuadFacts
  <2> QED BY <1>3, <2>1, <2>2
<1>6. /\ <<all>> \o s \in Seq(Operations)
      /\ Elements(<<all>> \o s) = {all} \cup Elements(s)
  BY <1>2, <1>5, ConsFacts
<1>7. ClearsToggle({all} \cup Elements(s))
  BY <1>1, <1>2, <1>5 DEF ClearsToggle
<1> QED BY <1>4, <1>6, <1>7

\* What has to be shown of a step while such an endpoint is set up or halted.
LEMMA SingleQuiet ==
    ASSUME ~IsDbl, role' = role, host_stage' = "quiet",
           PmaOK', Received', ep_state_rx' = sgl_buf_ready, ep_outstanig_rx_acks' = 0,
           sent' = Len(got'),
           \A op \in Pending' : op.mask = {"DTOG_TX"} => op.val = {} /\ ~host_toggle',
           (\E op \in Pending' : op.mask = {"DTOG_TX"}) \/ (host_toggle' <=> "DTOG_TX" \in reg')
    PROVE  Packets'
<1>1. SingleSetup'
  BY DEF SingleSetup
<1>2. SingleInUse' /\ InterruptInUse' /\ ControlInUse'
  BY DEF SingleInUse, InterruptInUse, ControlInUse
<1> QED BY <1>1, <1>2, SinglePackets

LEMMA SingleQuietWrite ==
    ASSUME EndpointInv, ~IsDbl, host_stage = "quiet", WriteRegister
    PROVE  Packets'
<1> DEFINE op == Head(todo)
<1>1. /\ todo # <<>> /\ op.mask # {} /\ todo' = Tail(todo)
      /\ UNCHANGED <<role, pma, sent, got, host_toggle, host_stage, ep_outstanig_rx_acks,
                     ep_state_tx, ep_state_rx>>
  BY DEF WriteRegister, driverVars, historyVars, hostVars, IsRegisterOp
<1>2. /\ RegisterInv /\ Typed /\ SingleSetup /\ ep_state_rx = sgl_buf_ready
      /\ ep_outstanig_rx_acks = 0 /\ PmaOK /\ Received /\ ~masked
  BY SingleFacts DEF RegisterInv
<1>3. Pending = {op} \cup Pending'
  BY <1>1, <1>2, PendingFacts
<1>4. /\ sent = Len(got)
      /\ \A o \in Pending : o.mask = {"DTOG_TX"} => o.val = {} /\ ~host_toggle
      /\ (\E o \in Pending : o.mask = {"DTOG_TX"}) \/ (host_toggle <=> "DTOG_TX" \in reg)
  BY <1>2 DEF SingleSetup
<1>5. Fits(op) /\ reg' = Intended(op, reg)
  BY <1>2, WriteEffect, WriteExact
<1>6. op.name # "sw_buf_toggle" /\ reg' = (reg \ op.mask) \cup op.val
  BY <1>5 DEF Fits, Intended
<1>7. op.mask # {"DTOG_TX"} => ("DTOG_TX" \in reg' <=> "DTOG_TX" \in reg)
  <2>1. op.mask # {"DTOG_TX"} => "DTOG_TX" \notin op.mask
    BY <1>5, <1>6 DEF Fits, StatTx, StatRx, RwBits
  <2>2. op.val \subseteq op.mask
    BY <1>1, <1>2, <1>5, <1>6, TypeBitsFacts DEF Fits, Typed
  <2> QED BY <1>6, <2>1, <2>2
<1>8. op.mask = {"DTOG_TX"} => "DTOG_TX" \notin reg' /\ ~host_toggle
  BY <1>3, <1>4, <1>6
<1> HIDE DEF op
<1>9. \A o \in Pending' : o.mask = {"DTOG_TX"} => o.val = {} /\ ~host_toggle'
  BY <1>1, <1>3, <1>4
<1>10. (\E o \in Pending' : o.mask = {"DTOG_TX"}) \/ (host_toggle' <=> "DTOG_TX" \in reg')
  BY <1>1, <1>3, <1>4, <1>7, <1>8
<1>11. PmaOK' /\ Received' /\ sent' = Len(got')
  BY <1>1, <1>2, <1>4 DEF PmaOK, Received, InOrder
<1> QED BY <1>1, <1>2, <1>9, <1>10, <1>11, SingleQuiet

LEMMA SingleReconfigure ==
    ASSUME EndpointInv, ~IsDbl, Reconfigure
    PROVE  Packets'
<1> DEFINE td == StatTxSet("disabled")
           rd == StatRxSet("disabled")
           s == SetupOps(role)
<1>1. /\ UNCHANGED <<role, reg>> /\ host_stage' = "quiet" /\ host_toggle' = FALSE
      /\ sent' = 0 /\ got' = <<>> /\ todo' = <<td, rd>> \o s
      /\ ep_state_rx' = RxStateAfterSetup(role) /\ ep_outstanig_rx_acks' = 0
  BY DEF Reconfigure
<1>2. /\ td \in Operations /\ rd \in Operations /\ td.mask # {"DTOG_TX"} /\ rd.mask # {"DTOG_TX"}
  BY OtherMasks
<1>3. s \in Seq(Operations) /\ ClearsToggle(Elements(s))
  BY SingleFacts, SetupClears
<1>4. ep_state_rx' = sgl_buf_ready
  BY <1>1, SingleFacts DEF RxStateAfterSetup
<1> HIDE DEF td, rd, s
<1>5. Elements(<<td, rd>> \o s) = {td, rd} \cup Elements(s)
  BY <1>2, <1>3, PairBefore
<1>6. Pending' = {td, rd} \cup Elements(s)
  BY <1>1, <1>5, ElementsPrimed
<1>7. /\ \A op \in Pending' : op.mask = {"DTOG_TX"} => op.val = {} /\ ~host_toggle'
      /\ \E op \in Pending' : op.mask = {"DTOG_TX"}
  BY <1>1, <1>2, <1>3, <1>6 DEF ClearsToggle
<1>8. sent' = Len(got')
  BY <1>1
<1> QED BY <1>1, <1>4, <1>7, <1>8, Emptied, SingleQuiet

\* An idle endpoint: nothing is due.
LEMMA NothingDue ==
    ASSUME EndpointInv, ~IsDbl, todo = <<>>, reg \cap CtrBits = {}
    PROVE  /\ Pending = {} /\ "CTR_RX" \notin reg /\ "CTR_TX" \notin reg
           /\ ~InDue /\ ~SetupDue /\ ~OutDue /\ (TxDue <=> StatTx \subseteq reg)
<1>1. Pending = {}
  BY SingleFacts, NothingToDo
<1>2. "CTR_RX" \notin reg /\ "CTR_TX" \notin reg
  BY DEF CtrBits
<1> QED BY <1>1, <1>2 DEF InDue, SetupDue, OutDue, TxDue

LEMMA SingleStall ==
    ASSUME EndpointInv, NEW stall \in BOOLEAN, StallSet(stall)
    PROVE  Packets'
<1> DEFINE sl == StatTxSet("stall")
           nk == StatTxSet("nak")
           cl == DtogTxClear
<1>1. /\ todo = <<>> /\ reg \cap CtrBits = {} /\ host_stage = "idle" /\ host_stage' = "quiet"
      /\ role = "interrupt_in" /\ ep_state_tx = sgl_buf_0_pkts
      /\ \/ todo' = <<sl>> /\ host_toggle' = host_toggle
         \/ todo' = <<nk, cl>> /\ host_toggle' = FALSE
      /\ UNCHANGED <<role, reg, pma, sent, got, ep_outstanig_rx_acks, ep_state_rx>>
  BY DEF StallSet, driverVars, historyVars
<1>2. /\ sl \in Operations /\ nk \in Operations /\ cl \in Operations
      /\ sl.mask # {"DTOG_TX"} /\ nk.mask # {"DTOG_TX"} /\ cl.mask = {"DTOG_TX"} /\ cl.val = {}
  BY OtherMasks
<1>3. ~IsDbl
  BY <1>1 DEF IsDbl
<1>4. /\ SingleInUse /\ InterruptInUse /\ PmaOK /\ Received
      /\ ep_state_rx = sgl_buf_ready /\ ep_outstanig_rx_acks = 0
  BY <1>3, SingleFacts
<1>5. ~TxDue
  BY <1>1, <1>3, <1>4 DEF SingleInUse, sgl_buf_0_pkts, sgl_buf_1_pkt
<1>6. sent = Len(got) /\ (host_toggle <=> "DTOG_TX" \in reg)
  BY <1>1, <1>4, <1>5 DEF InterruptInUse
<1> HIDE DEF sl, nk, cl
<1>7. Elements(<<sl>>) = {sl} /\ Elements(<<nk, cl>>) = {nk, cl}
  BY <1>2, TupleFacts
<1>8. \/ Pending' = {sl} /\ host_toggle' = host_toggle
      \/ Pending' = {nk, cl} /\ host_toggle' = FALSE
  BY <1>1, <1>7, ElementsPrimed
<1>9. /\ \A op \in Pending' : op.mask = {"DTOG_TX"} => op.val = {} /\ ~host_toggle'
      /\ (\E op \in Pending' : op.mask = {"DTOG_TX"}) \/ (host_toggle' <=> "DTOG_TX" \in reg')
  BY <1>1, <1>2, <1>6, <1>8
<1>10. PmaOK' /\ Received' /\ sent' = Len(got')
  BY <1>1, <1>4, <1>6 DEF PmaOK, Received, InOrder
<1> QED BY <1>1, <1>3, <1>4, <1>9, <1>10, SingleQuiet

LEMMA SingleResumes ==
    ASSUME EndpointInv, ~IsDbl, HostResumes
    PROVE  Packets'
<1>1. /\ host_stage = "quiet" /\ todo = <<>> /\ host_stage' = "idle"
      /\ UNCHANGED <<role, reg, masked, pma, todo, sent, got, host_toggle, ep_outstanig_rx_acks,
                     ep_state_tx, ep_state_rx>>
  BY DEF HostResumes, driverVars, historyVars
<1>2. /\ RegisterInv /\ SingleSetup /\ ep_state_rx = sgl_buf_ready
      /\ ep_outstanig_rx_acks = 0 /\ PmaOK /\ Received
  BY SingleFacts
<1>3. /\ reg \cap CtrBits = {} /\ ep_state_tx = sgl_buf_0_pkts
      /\ StatTx \subseteq reg => \E op \in Pending : op.mask = StatTx
  BY <1>1, <1>2 DEF RegisterInv, AccessInv, QuietSetup
<1>4. /\ Pending = {} /\ ~InDue /\ ~SetupDue /\ ~OutDue /\ ~TxDue
  BY <1>1, <1>3, NothingDue
<1>5. Pending' = Pending
  BY <1>1 DEF Pending
<1>6. ~InDue' /\ ~SetupDue' /\ ~OutDue' /\ ~TxDue'
  BY <1>1, <1>4, <1>5 DEF InDue, SetupDue, OutDue, TxDue
<1>7. sent = Len(got) /\ (host_toggle <=> "DTOG_TX" \in reg)
  BY <1>1, <1>2, <1>4 DEF SingleSetup
<1>8. SingleSetup' /\ SingleInUse'
  BY <1>1, <1>3, <1>6 DEF SingleSetup, SingleInUse
<1>9. InterruptInUse'
  BY <1>1, <1>6, <1>7 DEF InterruptInUse
<1>10. ControlInUse'
  BY <1>1, <1>6, <1>7 DEF ControlInUse, AtRest
<1>11. PmaOK' /\ Received'
  BY <1>1, <1>2 DEF PmaOK, Received, InOrder
<1> QED BY <1>1, <1>2, <1>8, <1>9, <1>10, <1>11, SinglePackets

LEMMA SingleInit ==
    ASSUME Init, RegisterInv, ~IsDbl
    PROVE  DataInv
<1>1. /\ host_stage = "quiet" /\ reg = {} /\ ep_outstanig_rx_acks = 0 /\ todo = SetupOps(role)
      /\ ep_state_rx = RxStateAfterSetup(role) /\ sent = 0 /\ got = <<>> /\ host_toggle = FALSE
  BY DEF Init
<1>2. role \in {"interrupt_in", "control"}
  BY DEF RegisterInv, Typed, IsDbl
<1>3. OtherDirection /\ DoubleSetup /\ BulkOutInUse /\ BulkInInUse
  BY <1>1, <1>2 DEF OtherDirection, DoubleSetup, BulkOutInUse, BulkInInUse, RxStateAfterSetup
<1>4. Pending = Elements(SetupOps(role)) /\ ClearsToggle(Elements(SetupOps(role)))
  BY <1>1, <1>2, SetupClears DEF Pending, Elements
<1>5. SingleSetup
  BY <1>1, <1>4 DEF SingleSetup, ClearsToggle
<1>6. SingleInUse /\ InterruptInUse /\ ControlInUse
  BY <1>1 DEF SingleInUse, InterruptInUse, ControlInUse
<1> QED BY <1>3, <1>5, <1>6 DEF DataInv

----------------------------------------------------------------------------
(* A single-buffered endpoint sends packets.                                 *)

\* The callback that is next.
LEMMA CallIs ==
    ASSUME RegisterInv, ~IsDbl, NEW what \in {"setup", "out", "in"}, NextIs(what)
    PROVE  Head(todo) = Call(what)
<1> DEFINE op == Head(todo)
<1>1. todo # <<>> /\ op.name = what /\ host_stage # "quiet"
  BY CallNext DEF NextIs
<1>2. PICK S : OnlySent(S) /\ UsedShape(S)
  BY <1>1, UsedShapes
<1>3. op.name # "toggle_bits" /\ op.name # "ctr_clear"
  BY <1>1
<1>4. /\ Head(<<CtrTxClear, Call("in")>>) = CtrTxClear /\ Head(<<Call("in")>>) = Call("in")
  BY InTodo
<1>5. todo \in Rest => op = Call("in") \/ op = CtrTxClear
  BY <1>1, <1>4 DEF Rest
<1>6. op \in {Call("in"), Call("setup"), Call("out")}
  BY <1>2, <1>3, <1>5, UsedOps DEF UsedShape, Begins
<1> QED BY <1>1, <1>6, UsedOps

\* The completion of a packet.
LEMMA SingleHandleIn ==
    ASSUME EndpointInv, ~IsDbl, HandleIn
    PROVE  Packets'
<1> DEFINE ci == Call("in")
<1>1. /\ NextIs("in") /\ todo' = Tail(todo)
      /\ UNCHANGED <<role, reg, masked, pma, sent, got, host_toggle, host_stage,
                     ep_outstanig_rx_acks, ep_state_rx>>
  BY DEF HandleIn, historyVars, hostVars
<1>2. /\ RegisterInv /\ Typed /\ SingleInUse /\ ep_state_rx = sgl_buf_ready
      /\ ep_outstanig_rx_acks = 0 /\ PmaOK /\ Received
  BY SingleFacts DEF RegisterInv
<1>3. host_stage # "quiet" /\ todo # <<>>
  BY <1>1, <1>2, CallNext
<1>4. Tail(todo) = <<>> /\ "CTR_TX" \notin reg /\ ep_state_tx = sgl_buf_1_pkt
  <2>1. SentPending(<<ci>>) /\ Tail(todo) = <<>>
    BY <1>1, <1>2, CallSingle
  <2>2. <<ci>> # <<>> /\ <<CtrTxClear, ci>> # <<ci>>
    BY InTodo
  <2> HIDE DEF ci
  <2>3. "CTR_TX" \notin reg /\ ep_state_tx = sgl_buf_1_pkt
    BY <2>1, <2>2 DEF SentPending, ci
  <2> QED BY <2>1, <2>3
<1>5. Pending' = {}
  BY <1>1, <1>4 DEF Pending
<1>6. Head(todo).name = "in" /\ Pending = {Head(todo)} \cup Pending'
  BY <1>1, <1>2, <1>3, PendingFacts DEF NextIs
<1>7. Pending = {Head(todo)}
  BY <1>5, <1>6
<1>8. /\ Call("setup").name = "setup" /\ Call("out").name = "out"
      /\ StatTxSet("valid").name = "toggle_bits"
  BY UsedOps
<1>9. InDue
  <2>1. Head(todo) = ci
    BY <1>1, <1>2, CallIs
  <2> QED BY <1>6, <2>1 DEF InDue
<1>10. ~TxDue
  BY <1>2, <1>3, <1>9 DEF SingleInUse
<1>11. ~TxDue' /\ ~InDue' /\ (SetupDue' <=> SetupDue) /\ (OutDue' <=> OutDue)
  BY <1>1, <1>4, <1>5, <1>6, <1>7, <1>8, <1>10 DEF TxDue, InDue, SetupDue, OutDue
<1>12. ep_state_tx' = sgl_buf_0_pkts
  BY <1>4 DEF HandleIn, sgl_buf_0_pkts, sgl_buf_1_pkt, dbl_buf_en_0_pkts
<1>13. InterruptInUse' /\ ControlInUse'
  BY <1>1, <1>10, <1>11, StagesKept
<1>14. SingleInUse'
  BY <1>2, <1>3, <1>11, <1>12 DEF SingleInUse
<1>15. SingleSetup'
  BY <1>1, <1>3 DEF SingleSetup
<1>16. PmaOK' /\ Received'
  BY <1>1, <1>2 DEF PmaOK, Received, InOrder
<1> QED BY <1>1, <1>2, <1>13, <1>14, <1>15, <1>16, SinglePackets

\* A packet is put into the buffer for sending.
LEMMA Submitted ==
    ASSUME PmaOK, NEW n \in Nat,
           pma' = [pma EXCEPT ![qsb_offset_tx] = CopyToPma(pma[qsb_offset_tx], Packet(n))]
    PROVE  PmaOK' /\ Holds(qsb_offset_tx, Packet(n))' /\ pma'[qsb_offset_rx] = pma[qsb_offset_rx]
<1> DEFINE b == WriteBytes(pma[qsb_offset_tx], Packet(n), 0)
<1>1. qsb_offset_tx = 0 /\ qsb_offset_rx = 1
  BY DEF qsb_offset_tx, qsb_offset_rx
<1>2. BufferOK(pma[qsb_offset_tx])
  BY <1>1 DEF PmaOK
<1>3. BufferOK(b) /\ b.count = Len(Packet(n)) /\ CopyFromPma(b, PACKET_SIZE) = Packet(n)
  BY <1>2, PacketWritten
<1>4. pma' = [pma EXCEPT ![qsb_offset_tx] = b]
  BY DEF CopyToPma
<1> HIDE DEF b
<1>5. PmaOK' /\ pma'[qsb_offset_tx] = b /\ \A q \in {0, 1} : q # qsb_offset_tx => pma'[q] = pma[q]
  BY <1>1, <1>3, <1>4, OneBuffer
<1> QED BY <1>1, <1>3, <1>5 DEF Holds

\* A notification.
LEMMA SingleTransmit ==
    ASSUME EndpointInv, ~IsDbl, Transmit
    PROVE  Packets'
<1> DEFINE vt == StatTxSet("valid")
<1>1. /\ todo = <<>> /\ host_stage = "idle"
      /\ ep_state_tx' = ep_state_tx + 1 /\ sent' = sent + 1
      /\ UNCHANGED <<role, reg, masked, got, host_toggle, host_stage,
                     ep_outstanig_rx_acks, ep_state_rx>>
  BY DEF Transmit, hostVars
<1>2. /\ RegisterInv /\ SingleInUse /\ InterruptInUse /\ ep_state_rx = sgl_buf_ready
      /\ ep_outstanig_rx_acks = 0 /\ PmaOK /\ Received /\ role = "interrupt_in"
      /\ sent \in Nat /\ "SETUP" \notin reg /\ "CTR_RX" \notin reg
  BY SingleFacts DEF Transmit
<1>3. ep_state_tx = sgl_buf_0_pkts /\ ~TxDue /\ ~InDue
  BY <1>1, <1>2 DEF Transmit, CanTransmit, SingleInUse
<1>4. sent = Len(got) /\ (host_toggle <=> "DTOG_TX" \in reg)
  BY <1>1, <1>2, <1>3 DEF InterruptInUse
<1>5. todo' = <<vt>>
  BY DEF Transmit, TransmitOps
<1>6. Pending' = {vt}
  <2>1. vt \in Operations
    BY UsedOps
  <2> HIDE DEF vt
  <2>2. Elements(<<vt>>) = {vt}
    BY <2>1, TupleFacts
  <2> QED BY <1>5, <2>2, ElementsPrimed
<1>7. pma' = [pma EXCEPT ![qsb_offset_tx] = CopyToPma(pma[qsb_offset_tx], Packet(sent))]
  <2>1. TxOffset(reg) = qsb_offset_tx
    BY DEF TxOffset, qsb_offset_tx
  <2> QED BY <2>1 DEF Transmit
<1>8. PmaOK' /\ Holds(qsb_offset_tx, Packet(Len(got)))'
  <2>1. PICK n \in Nat : n = sent
    BY <1>2
  <2>2. PmaOK' /\ Holds(qsb_offset_tx, Packet(n))'
    BY <1>2, <1>7, <2>1, Submitted
  <2>3. Len(got)' = n
    BY <1>1, <1>4, <2>1
  <2> QED BY <2>2, <2>3
<1>9. TxDue' /\ ~InDue' /\ ~SetupDue' /\ ~OutDue'
  <2>1. /\ Call("setup").name = "setup" /\ Call("out").name = "out" /\ Call("in").name = "in"
        /\ vt.name = "toggle_bits"
    BY UsedOps
  <2>2. "CTR_TX" \notin reg
    BY <1>3 DEF InDue
  <2> HIDE DEF vt
  <2>3. Call("setup") # vt /\ Call("out") # vt /\ Call("in") # vt
    BY <2>1
  <2>4. TxDue'
    BY <1>6 DEF TxDue, vt
  <2> QED BY <1>1, <1>2, <1>6, <2>2, <2>3, <2>4 DEF InDue, SetupDue, OutDue
<1>10. InterruptInUse'
  <2>1. sent' = Len(got') + 1
    BY <1>1, <1>2, <1>4
  <2> QED BY <1>1, <1>4, <1>8, <1>9, <2>1 DEF InterruptInUse
<1>11. SingleInUse'
  BY <1>1, <1>3, <1>9 DEF SingleInUse, sgl_buf_0_pkts, sgl_buf_1_pkt
<1>12. SingleSetup' /\ ControlInUse' /\ Received'
  BY <1>1, <1>2 DEF SingleSetup, ControlInUse, Received, InOrder
<1> QED BY <1>1, <1>2, <1>8, <1>10, <1>11, <1>12, SinglePackets

\* The host fetches a packet: what is then due is the handling of its completion.
LEMMA Fetched ==
    ASSUME EndpointInv, ~IsDbl, HostIn
    PROVE  /\ host_stage # "quiet" /\ TxDue /\ ~InDue /\ ep_state_tx = sgl_buf_1_pkt
           /\ ~TxDue' /\ InDue' /\ (SetupDue' <=> SetupDue) /\ (OutDue' <=> OutDue)
           /\ "DTOG_TX" \in reg' <=> "DTOG_TX" \notin reg
           /\ "DTOG_RX" \in reg' <=> "DTOG_RX" \in reg
           /\ SingleInUse' /\ SingleSetup'
<1>1. /\ StatTx \subseteq reg
      /\ role = "interrupt_in" => host_stage = "idle"
      /\ role = "control" => host_stage \in {"reply", "status"}
      /\ UNCHANGED <<todo, ep_state_tx, role>>
      /\ host_stage' \in {"confirm", "idle"}
  BY DEF HostIn, driverVars
<1>2. reg' = (Xor(reg, {"DTOG_TX"}) \cup {"CTR_TX"}) \ {"STAT_TX0"}
  BY DEF HostIn
<1>3. /\ RegisterInv /\ SingleInUse /\ role \in {"interrupt_in", "control"}
  BY SingleFacts
<1>4. host_stage # "quiet"
  BY <1>1, <1>3
<1>5. TxDue
  BY <1>1 DEF TxDue
<1>6. ~InDue /\ ep_state_tx = sgl_buf_1_pkt /\ ~(SetupDue /\ OutDue)
  BY <1>3, <1>4, <1>5 DEF SingleInUse
<1>7. StatTxSet("valid") \notin Pending
  BY <1>1, <1>3, <1>4, UsedFacts
<1>8. /\ ~(StatTx \subseteq reg') /\ "CTR_TX" \in reg'
      /\ "CTR_RX" \in reg' <=> "CTR_RX" \in reg
      /\ "SETUP" \in reg' <=> "SETUP" \in reg
      /\ "DTOG_TX" \in reg' <=> "DTOG_TX" \notin reg
      /\ "DTOG_RX" \in reg' <=> "DTOG_RX" \in reg
  BY <1>2 DEF StatTx, Xor
<1>9. Pending' = Pending
  BY <1>1 DEF Pending
<1>10. ~TxDue' /\ InDue' /\ (SetupDue' <=> SetupDue) /\ (OutDue' <=> OutDue)
  BY <1>7, <1>8, <1>9 DEF TxDue, InDue, SetupDue, OutDue
<1>11. SingleInUse'
  BY <1>1, <1>6, <1>10 DEF SingleInUse
<1>12. SingleSetup'
  BY <1>1 DEF SingleSetup
<1> QED BY <1>4, <1>5, <1>6, <1>8, <1>10, <1>11, <1>12

LEMMA SingleFetch ==
    ASSUME EndpointInv, ~IsDbl, HostIn
    PROVE  Packets'
<1> DEFINE buffer == pma[qsb_offset_tx]
<1>1. /\ role = "interrupt_in" => host_stage = "idle"
      /\ role = "control" => host_stage \in {"reply", "status"}
      /\ host_toggle' = IF role = "control" THEN TRUE ELSE ~host_toggle
      /\ host_stage' = IF host_stage = "reply" THEN "confirm" ELSE "idle"
      /\ UNCHANGED <<role, pma, todo, sent, ep_outstanig_rx_acks, ep_state_tx, ep_state_rx>>
      /\ got' = IF host_toggle = ("DTOG_TX" \in reg) /\ buffer.count > 0
                THEN Append(got, CopyFromPma(buffer, PACKET_SIZE)) ELSE got
  BY DEF HostIn, driverVars
<1>2. /\ InterruptInUse /\ ControlInUse /\ ep_state_rx = sgl_buf_ready
      /\ ep_outstanig_rx_acks = 0 /\ PmaOK /\ Received /\ role \in {"interrupt_in", "control"}
      /\ host_toggle \in BOOLEAN
  BY SingleFacts
<1>3. PICK n \in Nat : n = Len(got)
  BY SingleFacts
<1>4. ASSUME Holds(qsb_offset_tx, Packet(n)), host_toggle <=> "DTOG_TX" \in reg
      PROVE  got' = Append(got, Packet(n)) /\ Received' /\ Len(got') = n + 1
  <2>1. buffer.count = Len(Packet(n)) /\ CopyFromPma(buffer, PACKET_SIZE) = Packet(n)
    BY <1>4 DEF Holds
  <2>2. Len(Packet(n)) \in 1 .. 3
    BY PacketFacts
  <2> HIDE DEF buffer
  <2>3. buffer.count \in 1 .. 3
    BY <2>1, <2>2
  <2>4. host_toggle = ("DTOG_TX" \in reg) /\ buffer.count > 0
    BY <1>2, <1>4, <2>3
  <2>5. got' = Append(got, Packet(n))
    BY <1>1, <2>1, <2>4 DEF buffer
  <2> QED BY <1>2, <1>3, <2>5, NextReceived
<1>5. PmaOK'
  BY <1>1, <1>2 DEF PmaOK
<1>6. CASE role = "interrupt_in"
  <2>1. /\ sent = n + 1 /\ Holds(qsb_offset_tx, Packet(n)) /\ ~SetupDue
        /\ host_toggle <=> "DTOG_TX" \in reg
    BY <1>1, <1>2, <1>3, <1>6, Fetched DEF InterruptInUse
  <2>2. Received' /\ Len(got') = n + 1
    BY <1>4, <2>1
  <2>3. host_toggle' <=> "DTOG_TX" \in reg'
    BY <1>1, <1>6, <2>1, Fetched
  <2>4. sent' = Len(got')
    BY <1>1, <2>1, <2>2
  <2>5. ~SetupDue' /\ ~TxDue'
    BY <2>1, Fetched
  <2>6. InterruptInUse' /\ ControlInUse'
    BY <1>1, <1>6, <2>3, <2>4, <2>5 DEF InterruptInUse, ControlInUse
  <2> QED BY <1>1, <1>2, <1>5, <2>2, <2>6, Fetched, SinglePackets
<1>7. CASE role = "control" /\ host_stage = "reply"
  <2>1. AwaitingReply /\ host_toggle
    BY <1>2, <1>7 DEF ControlInUse
  <2>2. /\ sent = n + 1 /\ Holds(qsb_offset_tx, Packet(n)) /\ ~SetupDue /\ ~OutDue
        /\ "DTOG_TX" \in reg /\ "DTOG_RX" \in reg
    BY <1>3, <2>1, Fetched DEF AwaitingReply
  <2>3. Received' /\ Len(got') = n + 1
    BY <1>4, <2>1, <2>2
  <2>4. sent' = Len(got')
    BY <1>1, <2>2, <2>3
  <2>5. ~SetupDue' /\ ~TxDue' /\ ~OutDue' /\ "DTOG_RX" \in reg'
    BY <2>2, Fetched
  <2>6. Confirming'
    BY <2>4, <2>5 DEF Confirming
  <2>7. InterruptInUse' /\ ControlInUse'
    BY <1>1, <1>7, <2>6 DEF InterruptInUse, ControlInUse
  <2> QED BY <1>1, <1>2, <1>5, <2>3, <2>7, Fetched, SinglePackets
<1>8. CASE role = "control" /\ host_stage = "status"
  <2>1. AwaitingStatus /\ host_toggle
    BY <1>2, <1>8 DEF ControlInUse
  <2>2. ~OutDue /\ ~SetupDue /\ sent = n /\ buffer.count = 0
    BY <1>3, <2>1, Fetched DEF AwaitingStatus
  <2>3. got' = got
    BY <1>1, <2>2
  <2>4. ~SetupDue' /\ ~TxDue' /\ ~OutDue'
    BY <2>2, Fetched
  <2>5. AtRest'
    BY <1>1, <1>3, <2>2, <2>3, <2>4 DEF AtRest
  <2>6. InterruptInUse' /\ ControlInUse' /\ Received'
    BY <1>1, <1>2, <1>8, <2>3, <2>5 DEF InterruptInUse, ControlInUse, Received, InOrder
  <2> QED BY <1>1, <1>2, <1>5, <2>6, Fetched, SinglePackets
<1> QED BY <1>1, <1>2, <1>6, <1>7, <1>8

----------------------------------------------------------------------------
(* Endpoint 0.                                                               *)

LEMMA ResponseElements ==
    ASSUME NEW s \in Seq(Operations)
    PROVE  LET vt == StatTxSet("valid")
               st == StatTxSet("stall")
               vr == StatRxSet("valid")
               sr == StatRxSet("stall")
           IN  /\ Elements(<<vt>> \o <<vr>> \o s) = {vt, vr} \cup Elements(s)
               /\ Elements(<<>> \o <<vr>> \o s) = {vr} \cup Elements(s)
               /\ Elements(<<st, sr>> \o <<vr>> \o s) = {st, sr, vr} \cup Elements(s)
<1> DEFINE vt == StatTxSet("valid")
           st == StatTxSet("stall")
           vr == StatRxSet("valid")
           sr == StatRxSet("stall")
<1>1. vt \in Operations /\ st \in Operations /\ vr \in Operations /\ sr \in Operations
  BY UsedOps
<1> HIDE DEF vt, st, vr, sr
<1>2. Elements(<<vt>> \o <<vr>> \o s) = {vt, vr} \cup Elements(s)
  <2>1. <<vt>> \o <<vr>> = <<vt, vr>>
    BY JoinedTwo
  <2>2. Elements(<<vt, vr>> \o s) = {vt, vr} \cup Elements(s)
    BY <1>1, PairBefore
  <2> QED BY <2>1, <2>2
<1>3. Elements(<<>> \o <<vr>> \o s) = {vr} \cup Elements(s)
  <2>1. <<>> \o <<vr>> = <<vr>>
    BY JoinedOne
  <2>2. Elements(<<vr>> \o s) = {vr} \cup Elements(s)
    BY <1>1, ConsFacts
  <2> QED BY <2>1, <2>2
<1>4. Elements(<<st, sr>> \o <<vr>> \o s) = {st, sr, vr} \cup Elements(s)
  <2>1. <<st, sr>> \o <<vr>> = <<st, sr, vr>>
    BY JoinedThree
  <2>2. Elements(<<st, sr, vr>> \o s) = {st, sr, vr} \cup Elements(s)
    BY <1>1, TripleBefore
  <2> QED BY <2>1, <2>2
<1> QED BY <1>2, <1>3, <1>4 DEF vt, st, vr, sr

\* The callback for a received packet is due, and afterwards what it asked for.
LEMMA ReceivedCall ==
    ASSUME EndpointInv, ~IsDbl, NEW what \in {"setup", "out"}, NextIs(what)
    PROVE  /\ host_stage # "quiet"
           /\ what = "setup" => SetupDue /\ ~OutDue
           /\ what = "out" => OutDue /\ ~SetupDue
           /\ ep_state_tx = (IF TxDue \/ InDue THEN sgl_buf_1_pkt ELSE sgl_buf_0_pkts)
<1>1. RegisterInv /\ Typed /\ SingleInUse
  BY SingleFacts DEF RegisterInv
<1>2. host_stage # "quiet" /\ todo # <<>>
  BY <1>1, CallNext
<1>3. Call(what) \in Pending
  <2>1. Head(todo) = Call(what)
    BY <1>1, CallIs
  <2>2. 1 \in DOMAIN todo /\ Head(todo) = todo[1]
    BY <1>1, <1>2 DEF Typed
  <2> QED BY <2>1, <2>2 DEF Pending
<1> QED BY <1>1, <1>2, <1>3 DEF SetupDue, OutDue, SingleInUse

LEMMA AfterResponse ==
    ASSUME EndpointInv, ~IsDbl, NEW what \in {"setup", "out"}, NextIs(what), reg' = reg,
           NEW submits \in BOOLEAN,
           IF submits THEN todo' = <<StatTxSet("valid")>> \o <<StatRxSet("valid")>> \o Tail(todo)
           ELSE \/ todo' = <<>> \o <<StatRxSet("valid")>> \o Tail(todo)
                \/ todo' = <<StatTxSet("stall"), StatRxSet("stall")>> \o <<StatRxSet("valid")>>
                           \o Tail(todo)
    PROVE  /\ ~SetupDue' /\ ~OutDue' /\ (InDue' <=> InDue)
           /\ TxDue' <=> submits \/ TxDue
<1> DEFINE vt == StatTxSet("valid")
           st == StatTxSet("stall")
           vr == StatRxSet("valid")
           sr == StatRxSet("stall")
           cs == Call("setup")
           co == Call("out")
           ci == Call("in")
           kt == CtrTxClear
           E == Elements(Tail(todo))
<1>1. RegisterInv /\ Typed /\ todo # <<>>
  BY SingleFacts DEF RegisterInv, NextIs
<1>2. Head(todo) = Call(what)
  BY <1>1, CallIs
<1>3. "CTR_RX" \notin reg /\ Tail(todo) \in Rest
  BY <1>1, CallSingle
<1>4. Tail(todo) \in Seq(Operations) /\ E \in {{}, {kt, ci}, {ci}}
  BY <1>3, RestElements DEF OnlySent
<1>5. Pending = {Call(what)} \cup E
  BY <1>1, <1>2, HeadTailFacts DEF Pending, Elements, Typed
<1>6. IF submits THEN Elements(todo') = {vt, vr} \cup E
                 ELSE Elements(todo') = {vr} \cup E \/ Elements(todo') = {st, sr, vr} \cup E
  BY <1>4, ResponseElements
<1>7. Pending' = Elements(todo')
  BY ElementsPrimed
<1>8. /\ vt.name = "toggle_bits" /\ vr.name = "toggle_bits" /\ st.name = "toggle_bits"
      /\ sr.name = "toggle_bits" /\ kt.name = "ctr_clear"
      /\ cs.name = "setup" /\ co.name = "out" /\ ci.name = "in"
      /\ vt.mask = StatTx /\ vt.val = StatTx /\ st.val # StatTx
      /\ vr.mask = StatRx /\ sr.mask = StatRx /\ StatTx # StatRx
      /\ Call(what).name = what
  BY UsedOps
<1> HIDE DEF vt, st, vr, sr, cs, co, ci, kt, E
<1>9. cs \notin Pending' /\ co \notin Pending' /\ (ci \in Pending' <=> ci \in E)
  BY <1>4, <1>6, <1>7, <1>8
<1>10. vt \in Pending' <=> submits
  BY <1>4, <1>6, <1>7, <1>8
<1>11. vt \notin Pending /\ (ci \in Pending <=> ci \in E)
  BY <1>4, <1>5, <1>8
<1> QED BY <1>3, <1>9, <1>10, <1>11 DEF TxDue, InDue, SetupDue, OutDue, vt, cs, co, ci

\* What has to be shown of a step at endpoint 0 in use.
LEMMA ControlPackets ==
    ASSUME EndpointInv, role = "control", role' = role, host_stage' # "quiet", PmaOK', Received',
           ep_state_rx' = ep_state_rx, ep_outstanig_rx_acks' = ep_outstanig_rx_acks,
           SingleInUse', ControlInUse'
    PROVE  Packets'
<1>1. ~IsDbl
  BY DEF IsDbl
<1>2. SingleSetup' /\ InterruptInUse'
  BY DEF SingleSetup, InterruptInUse
<1> QED BY <1>1, <1>2, SingleFacts, SinglePackets

\* A SETUP packet.
LEMMA SingleHandleSetup ==
    ASSUME EndpointInv, ~IsDbl, HandleSetup
    PROVE  Packets'
<1> DEFINE packet == CopyFromPma(pma[qsb_offset_rx], 8)
           vt == StatTxSet("valid")
           st == StatTxSet("stall")
           vr == StatRxSet("valid")
           sr == StatRxSet("stall")
           replies == packet[2] = ReadRequest /\ CanTransmit
           first == CASE replies -> TransmitOps
                      [] packet[2] = RefusedRequest -> <<st, sr>>
                      [] OTHER -> <<>>
<1>1. /\ NextIs("setup")
      /\ IF replies THEN SubmitReply(Packet(packet[1])) ELSE UNCHANGED <<pma, ep_state_tx>>
      /\ todo' = first \o <<vr>> \o Tail(todo)
      /\ UNCHANGED <<role, reg, sent, got, host_toggle, host_stage, ep_state_rx,
                     ep_outstanig_rx_acks>>
  BY DEF HandleSetup, historyVars, hostVars
<1>2. /\ host_stage # "quiet" /\ SetupDue /\ ~OutDue
      /\ ep_state_tx = (IF TxDue \/ InDue THEN sgl_buf_1_pkt ELSE sgl_buf_0_pkts)
  BY <1>1, ReceivedCall
<1>3. /\ InterruptInUse /\ ControlInUse /\ PmaOK /\ Received
      /\ role \in {"interrupt_in", "control"}
      /\ role = "interrupt_in" => host_stage = "idle"
  BY <1>2, SingleFacts
<1>4. role = "control"
  BY <1>2, <1>3 DEF InterruptInUse
<1>5. host_stage \in {"reply", "data"}
  <2>1. host_stage \in {"idle", "reply", "confirm", "data", "status"}
    BY <1>2 DEF EndpointInv, Ranges
  <2> QED BY <1>2, <1>3, <1>4, <2>1 DEF ControlInUse, AtRest, Confirming, AwaitingStatus
<1>6. PICK n \in Nat : n = Len(got)
  BY SingleFacts
<1>7. TransmitOps = <<vt>>
  BY DEF TransmitOps
<1>8. Received'
  BY <1>1, <1>3 DEF Received, InOrder
<1>9. CASE host_stage = "reply"
  <2>1. AwaitingReply /\ host_toggle
    BY <1>3, <1>4, <1>9 DEF ControlInUse
  <2>2. /\ sent = n + 1 /\ "DTOG_TX" \in reg /\ "DTOG_RX" \in reg /\ ~InDue /\ ~TxDue
        /\ reg \cap StatTx = TxStatus("nak")
        /\ packet[1] = n /\ packet[2] \in {ReadRequest, RefusedRequest}
    BY <1>2, <1>6, <2>1 DEF AwaitingReply, HoldsSetup
  <2>3. ep_state_tx = sgl_buf_0_pkts /\ CanTransmit
    BY <1>2, <2>2 DEF CanTransmit, sgl_buf_0_pkts, sgl_buf_1_pkt, dbl_buf_en_2_pkts
  <2>4. reg' \cap StatTx # TxStatus("stall")
    <3>1. TxStatus("nak") # TxStatus("stall")
      BY DEF TxStatus
    <3> QED BY <1>1, <2>2, <3>1
  <2>5. CASE packet[2] = ReadRequest
    <3>1. replies /\ packet[2] # RefusedRequest
      BY <2>3, <2>5 DEF ReadRequest, RefusedRequest
    <3> HIDE DEF packet, replies
    <3>2. first = <<vt>>
      BY <1>7, <3>1
    <3> USE DEF packet
    <3>3. SubmitReply(Packet(packet[1])) /\ todo' = <<vt>> \o <<vr>> \o Tail(todo)
      BY <1>1, <3>1, <3>2
    <3> HIDE DEF replies, first
    <3>4. ~SetupDue' /\ ~OutDue' /\ ~InDue' /\ TxDue'
      BY <1>1, <2>2, <3>3, AfterResponse
    <3>5. pma' = [pma EXCEPT ![qsb_offset_tx] = CopyToPma(pma[qsb_offset_tx], Packet(n))]
          /\ ep_state_tx' = sgl_buf_1_pkt
      BY <2>2, <3>3 DEF SubmitReply
    <3>6. PmaOK' /\ Holds(qsb_offset_tx, Packet(n))'
      BY <1>3, <3>5, Submitted
    <3>7. AwaitingReply'
      BY <1>1, <1>6, <2>2, <2>4, <3>4, <3>6 DEF AwaitingReply
    <3>8. ControlInUse' /\ SingleInUse'
      BY <1>1, <1>9, <2>1, <3>4, <3>5, <3>7 DEF ControlInUse, SingleInUse
    <3> QED BY <1>1, <1>2, <1>4, <1>8, <3>6, <3>8, ControlPackets
  <2>6. CASE packet[2] = RefusedRequest
    <3>1. ~replies /\ first = <<st, sr>>
      BY <2>6 DEF ReadRequest, RefusedRequest
    <3>2. UNCHANGED <<pma, ep_state_tx>> /\ todo' = <<st, sr>> \o <<vr>> \o Tail(todo)
      BY <1>1, <3>1
    <3> HIDE DEF replies, first
    <3>3. ~SetupDue' /\ ~OutDue' /\ ~InDue' /\ ~TxDue'
      BY <1>1, <2>2, <3>2, AfterResponse
    <3>4. PmaOK'
      BY <1>3, <3>2 DEF PmaOK
    <3>5. AwaitingReply'
      BY <1>1, <1>6, <2>2, <3>3 DEF AwaitingReply
    <3>6. ControlInUse' /\ SingleInUse'
      BY <1>1, <1>9, <2>1, <2>3, <3>2, <3>3, <3>5 DEF ControlInUse, SingleInUse
    <3> QED BY <1>1, <1>2, <1>4, <1>8, <3>4, <3>6, ControlPackets
  <2> QED BY <2>2, <2>5, <2>6
<1>10. CASE host_stage = "data"
  <2>1. SendingData /\ host_toggle
    BY <1>3, <1>4, <1>10 DEF ControlInUse
  <2>2. /\ sent = n + 1 /\ "DTOG_TX" \in reg /\ "DTOG_RX" \in reg /\ ~InDue /\ ~TxDue
        /\ packet[2] = WriteRequest
    BY <1>2, <1>6, <2>1 DEF SendingData, HoldsSetup
  <2>3. ~replies /\ first = <<>>
    BY <2>2 DEF ReadRequest, WriteRequest, RefusedRequest
  <2>4. UNCHANGED <<pma, ep_state_tx>> /\ todo' = <<>> \o <<vr>> \o Tail(todo)
    BY <1>1, <2>3
  <2> HIDE DEF replies, first
  <2>5. ~SetupDue' /\ ~OutDue' /\ ~InDue' /\ ~TxDue'
    BY <1>1, <2>2, <2>4, AfterResponse
  <2>6. PmaOK'
    BY <1>3, <2>4 DEF PmaOK
  <2>7. SendingData'
    BY <1>1, <1>6, <2>2, <2>5 DEF SendingData
  <2>8. ControlInUse' /\ SingleInUse'
    BY <1>1, <1>2, <1>10, <2>1, <2>2, <2>4, <2>5, <2>7 DEF ControlInUse, SingleInUse
  <2> QED BY <1>1, <1>2, <1>4, <1>8, <2>6, <2>8, ControlPackets
<1> QED BY <1>5, <1>9, <1>10

\* A packet of the data stage or the status stage.
LEMMA SingleHandleOut ==
    ASSUME EndpointInv, ~IsDbl, HandleControlOut
    PROVE  Packets'
<1> DEFINE packet == CopyFromPma(pma[qsb_offset_rx], PACKET_SIZE)
           vt == StatTxSet("valid")
           vr == StatRxSet("valid")
           replies == packet # <<>> /\ CanTransmit
           first == IF replies THEN TransmitOps ELSE <<>>
<1>1. /\ NextIs("out") /\ role = "control"
      /\ IF replies THEN SubmitReply(<<>>) ELSE UNCHANGED <<pma, ep_state_tx>>
      /\ got' = IF packet # <<>> THEN Append(got, packet) ELSE got
      /\ todo' = first \o <<vr>> \o Tail(todo)
      /\ UNCHANGED <<role, reg, sent, host_toggle, host_stage, ep_state_rx, ep_outstanig_rx_acks>>
  BY DEF HandleControlOut, hostVars
<1>2. /\ host_stage # "quiet" /\ OutDue /\ ~SetupDue
      /\ ep_state_tx = (IF TxDue \/ InDue THEN sgl_buf_1_pkt ELSE sgl_buf_0_pkts)
      /\ SingleInUse
  BY <1>1, ReceivedCall, SingleFacts
<1>3. ControlInUse /\ PmaOK /\ Received
  BY SingleFacts
<1>4. host_stage \in {"idle", "status"}
  <2>1. host_stage \in {"idle", "reply", "confirm", "data", "status"}
    BY <1>2 DEF EndpointInv, Ranges
  <2> QED BY <1>1, <1>2, <1>3, <2>1 DEF ControlInUse, AwaitingReply, Confirming, SendingData
<1>5. PICK n \in Nat : n = Len(got)
  BY SingleFacts
<1>6. TransmitOps = <<vt>>
  BY DEF TransmitOps
<1>7. CASE host_stage = "idle"
  <2>1. sent = n /\ ~TxDue /\ pma[qsb_offset_rx].count = 0
    BY <1>1, <1>2, <1>3, <1>5, <1>7 DEF ControlInUse, AtRest
  <2>2. packet = <<>>
    BY <2>1, EmptyRead
  <2>3. ~replies /\ first = <<>>
    BY <2>2
  <2>4. /\ UNCHANGED <<pma, ep_state_tx, got>> /\ todo' = <<>> \o <<vr>> \o Tail(todo)
    BY <1>1, <2>2, <2>3
  <2> HIDE DEF replies, first, packet
  <2>5. ~SetupDue' /\ ~OutDue' /\ (InDue' <=> InDue) /\ ~TxDue'
    BY <1>1, <2>1, <2>4, AfterResponse
  <2>6. PmaOK' /\ Received'
    BY <1>3, <2>4 DEF PmaOK, Received, InOrder
  <2>7. AtRest'
    BY <1>1, <1>5, <2>1, <2>4, <2>5 DEF AtRest
  <2>8. ControlInUse' /\ SingleInUse'
    BY <1>1, <1>2, <1>7, <2>1, <2>4, <2>5, <2>7 DEF ControlInUse, SingleInUse
  <2> QED BY <1>1, <1>2, <2>6, <2>8, ControlPackets
<1>8. CASE host_stage = "status"
  <2>1. AwaitingStatus /\ host_toggle
    BY <1>1, <1>3, <1>8 DEF ControlInUse
  <2>2. /\ sent = n + 1 /\ Holds(qsb_offset_rx, Packet(n)) /\ ~TxDue /\ ~InDue /\ "DTOG_TX" \in reg
    BY <1>2, <1>5, <2>1 DEF AwaitingStatus
  <2>3. packet = Packet(n) /\ Packet(n) # <<>>
    BY <2>2, PacketFacts DEF Holds
  <2>4. ep_state_tx = sgl_buf_0_pkts /\ CanTransmit
    BY <1>2, <2>2 DEF CanTransmit, sgl_buf_0_pkts, sgl_buf_1_pkt, dbl_buf_en_2_pkts
  <2>5. replies /\ first = <<vt>>
    BY <1>6, <2>3, <2>4
  <2>6. /\ SubmitReply(<<>>) /\ got' = Append(got, Packet(n))
        /\ todo' = <<vt>> \o <<vr>> \o Tail(todo)
    BY <1>1, <2>3, <2>5
  <2> HIDE DEF replies, first, packet
  <2>7. ~SetupDue' /\ ~OutDue' /\ ~InDue' /\ TxDue'
    BY <1>1, <2>2, <2>6, AfterResponse
  <2>8. Received' /\ Len(got') = n + 1
    BY <1>3, <1>5, <2>6, NextReceived
  <2>9. PmaOK' /\ pma'[qsb_offset_tx].count = 0 /\ ep_state_tx' = sgl_buf_1_pkt
    <3> DEFINE b == WriteBytes(pma[qsb_offset_tx], <<>>, 0)
    <3>1. qsb_offset_tx = 0
      BY DEF qsb_offset_tx
    <3>2. BufferOK(pma[qsb_offset_tx])
      BY <1>3, <3>1 DEF PmaOK
    <3>3. BufferOK(b) /\ b.count = 0
      BY <3>2, EmptyWritten
    <3>4. pma' = [pma EXCEPT ![qsb_offset_tx] = b] /\ ep_state_tx' = sgl_buf_1_pkt
      BY <2>6 DEF SubmitReply, CopyToPma
    <3> HIDE DEF b
    <3>5. PmaOK' /\ pma'[qsb_offset_tx] = b
      BY <1>3, <3>1, <3>3, <3>4, OneBuffer
    <3> QED BY <3>3, <3>4, <3>5
  <2>10. AwaitingStatus'
    <3>1. sent' = Len(got')
      BY <1>1, <2>2, <2>8
    <3> QED BY <1>1, <2>2, <2>7, <2>9, <3>1 DEF AwaitingStatus
  <2>11. ControlInUse' /\ SingleInUse'
    BY <1>1, <1>8, <2>1, <2>7, <2>9, <2>10 DEF ControlInUse, SingleInUse
  <2> QED BY <1>1, <1>2, <2>8, <2>9, <2>11, ControlPackets
<1> QED BY <1>4, <1>7, <1>8

\* The host begins a transfer.
LEMMA SingleSetupPacket ==
    ASSUME EndpointInv, NEW kind \in {ReadRequest, WriteRequest, RefusedRequest}, HostSetup(kind)
    PROVE  Packets'
<1>1. /\ role = "control" /\ host_stage = "idle" /\ reg \cap CtrBits = {} /\ todo = <<>>
      /\ pma' = Stored(qsb_offset_rx, Setup(sent, kind))
      /\ reg' = (reg \ {"STAT_RX0", "STAT_TX0"})
                \cup {"CTR_RX", "SETUP", "DTOG_RX", "DTOG_TX", "STAT_RX1", "STAT_TX1"}
      /\ sent' = sent + 1 /\ host_toggle' = TRUE
      /\ host_stage' = (IF kind = WriteRequest THEN "data" ELSE "reply")
      /\ UNCHANGED <<role, todo, ep_state_rx, ep_state_tx, ep_outstanig_rx_acks, got>>
  BY DEF HostSetup, driverVars
<1>2. ~IsDbl
  BY <1>1 DEF IsDbl
<1>3. SingleInUse /\ ControlInUse /\ PmaOK /\ Received
  BY <1>2, SingleFacts
<1>4. PICK n \in Nat : n = Len(got)
  BY <1>2, SingleFacts
<1>5. AtRest
  BY <1>1, <1>3 DEF ControlInUse
<1>6. sent = n /\ ~TxDue
  BY <1>4, <1>5 DEF AtRest
<1>7. Pending = {} /\ "CTR_TX" \notin reg /\ ~InDue
  BY <1>1, <1>2, NothingDue
<1>8. ep_state_tx = sgl_buf_0_pkts
  BY <1>1, <1>2, <1>3, <1>6, <1>7 DEF SingleInUse
<1>9. Pending' = {}
  BY <1>1, <1>7 DEF Pending
<1>10. /\ "CTR_RX" \in reg' /\ "SETUP" \in reg' /\ "DTOG_TX" \in reg' /\ "DTOG_RX" \in reg'
       /\ "CTR_TX" \notin reg' /\ ~(StatTx \subseteq reg')
       /\ reg' \cap StatTx = TxStatus("nak")
  BY <1>1, <1>7 DEF StatTx, TxStatus
<1>11. SetupDue' /\ ~OutDue' /\ ~InDue' /\ ~TxDue'
  BY <1>9, <1>10 DEF SetupDue, OutDue, InDue, TxDue
<1>12. /\ PmaOK' /\ pma'[qsb_offset_rx].count = 2
       /\ CopyFromPma(pma'[qsb_offset_rx], 8)[1] = n
       /\ CopyFromPma(pma'[qsb_offset_rx], 8)[2] = kind
  <2> DEFINE old == pma[qsb_offset_rx]
             s == Setup(sent, kind)
             last == old.words[(Len(s) + 2) \div 2][2]
             b == WriteBytes(old, s, last)
  <2>1. qsb_offset_rx = 1
    BY DEF qsb_offset_rx
  <2>2. BufferOK(old)
    BY <1>3, <2>1 DEF PmaOK
  <2>3. pma' = [pma EXCEPT ![qsb_offset_rx] = b]
    BY <1>1 DEF Stored
  <2> HIDE DEF old, last
  <2>4. BufferOK(b) /\ b.count = 2 /\ CopyFromPma(b, 8)[1] = sent /\ CopyFromPma(b, 8)[2] = kind
    BY <2>2, SetupWritten
  <2> HIDE DEF b
  <2>5. PmaOK' /\ pma'[qsb_offset_rx] = b
    BY <1>3, <2>1, <2>3, <2>4, OneBuffer
  <2> QED BY <1>6, <2>4, <2>5
<1>13. sent' = Len(got)' + 1 /\ n = Len(got)'
  BY <1>1, <1>4, <1>6
<1>14. kind = WriteRequest => SendingData'
  BY <1>10, <1>11, <1>12, <1>13 DEF SendingData, HoldsSetup
<1>15. kind # WriteRequest => AwaitingReply'
  <2>1. kind # WriteRequest => kind \in {ReadRequest, RefusedRequest}
    OBVIOUS
  <2> QED BY <1>10, <1>11, <1>12, <1>13, <2>1 DEF AwaitingReply, HoldsSetup
<1>16. ControlInUse' /\ SingleInUse'
  BY <1>1, <1>8, <1>11, <1>14, <1>15 DEF ControlInUse, SingleInUse
<1>17. Received'
  BY <1>1, <1>3 DEF Received, InOrder
<1> QED BY <1>1, <1>12, <1>16, <1>17, ControlPackets

\* The host sends a packet of the data stage, or confirms what it has read.
LEMMA SingleReceive ==
    ASSUME EndpointInv, ~IsDbl, HostOutControl
    PROVE  Packets'
<1> DEFINE bytes == IF host_stage = "data" THEN Packet(sent - 1) ELSE <<>>
           accepted == (Xor(reg, {"DTOG_RX"}) \cup {"CTR_RX"}) \ {"SETUP", "STAT_RX0"}
<1>1. /\ host_stage \in {"data", "confirm"} /\ StatRx \subseteq reg
      /\ Receive(bytes, qsb_offset_rx, accepted)
      /\ host_stage' = (IF host_stage = "data" THEN "status" ELSE "idle")
      /\ UNCHANGED <<role, todo, ep_state_rx, ep_state_tx, ep_outstanig_rx_acks, sent, got,
                     host_toggle>>
  BY DEF HostOutControl, driverVars, historyVars
<1>2. /\ RegisterInv /\ SingleInUse /\ ControlInUse /\ PmaOK /\ Received
      /\ role \in {"interrupt_in", "control"}
      /\ role = "interrupt_in" => host_stage \in {"quiet", "idle"}
      /\ host_toggle \in BOOLEAN
  BY SingleFacts
<1>3. role = "control" /\ host_stage # "quiet"
  BY <1>1, <1>2
<1>4. PICK n \in Nat : n = Len(got)
  BY SingleFacts
<1>5. Call("setup") \notin Pending
  BY <1>1, <1>2, <1>3, UsedFacts
<1>6. "DTOG_RX" \in reg /\ host_toggle
  BY <1>1, <1>2, <1>3 DEF ControlInUse, Confirming, SendingData
<1>7. pma' = Stored(qsb_offset_rx, bytes) /\ reg' = accepted
  BY <1>1, <1>6 DEF Receive
<1>8. Pending' = Pending
  BY <1>1 DEF Pending
<1>9. /\ "CTR_RX" \in reg' /\ "SETUP" \notin reg'
      /\ "CTR_TX" \in reg' <=> "CTR_TX" \in reg
      /\ "DTOG_TX" \in reg' <=> "DTOG_TX" \in reg
      /\ StatTx \subseteq reg' <=> StatTx \subseteq reg
  BY <1>7 DEF Xor, StatTx
<1>10. /\ ~SetupDue' /\ OutDue'
       /\ InDue' <=> InDue
       /\ TxDue' <=> TxDue
  BY <1>5, <1>8, <1>9 DEF SetupDue, OutDue, InDue, TxDue
<1> DEFINE old == pma[qsb_offset_rx]
           last == old.words[(Len(bytes) + 2) \div 2][2]
           b == WriteBytes(old, bytes, last)
<1>11. qsb_offset_rx = 1
  BY DEF qsb_offset_rx
<1>12. BufferOK(old)
  BY <1>2, <1>11 DEF PmaOK
<1>13. pma' = [pma EXCEPT ![qsb_offset_rx] = b]
  BY <1>7 DEF Stored
<1>14. b = WriteBytes(old, bytes, last)
  OBVIOUS
<1>15. bytes = IF host_stage = "data" THEN Packet(sent - 1) ELSE <<>>
  OBVIOUS
<1> HIDE DEF old, last, b, bytes, accepted
<1>16. BufferOK(b) => PmaOK' /\ pma'[qsb_offset_rx] = b
  BY <1>2, <1>11, <1>13, OneBuffer
<1>17. Received'
  BY <1>1, <1>2 DEF Received, InOrder
<1>18. SingleInUse'
  BY <1>1, <1>2, <1>3, <1>10 DEF SingleInUse
<1>19. CASE host_stage = "data"
  <2>1. sent = n + 1 /\ ~TxDue /\ ~InDue /\ "DTOG_TX" \in reg
    BY <1>2, <1>3, <1>4, <1>19 DEF ControlInUse, SendingData
  <2>2. b = WriteBytes(old, Packet(n), last)
    <3>1. sent - 1 = n
      BY <2>1
    <3> QED BY <1>14, <1>15, <1>19, <3>1
  <2>3. BufferOK(b) /\ b.count = Len(Packet(n)) /\ CopyFromPma(b, PACKET_SIZE) = Packet(n)
    BY <1>12, <2>2, PacketWritten
  <2>4. PmaOK' /\ Holds(qsb_offset_rx, Packet(n))'
    BY <1>16, <2>3 DEF Holds
  <2>5. sent' = Len(got)' + 1 /\ n = Len(got)'
    BY <1>1, <1>4, <2>1
  <2>6. AwaitingStatus'
    BY <1>9, <1>10, <2>1, <2>4, <2>5 DEF AwaitingStatus
  <2>7. ControlInUse'
    BY <1>1, <1>6, <1>19, <2>6 DEF ControlInUse
  <2> QED BY <1>1, <1>3, <1>17, <1>18, <1>19, <2>4, <2>7, ControlPackets
<1>20. CASE host_stage = "confirm"
  <2>1. sent = n /\ ~TxDue
    BY <1>2, <1>3, <1>4, <1>20 DEF ControlInUse, Confirming
  <2>2. b = WriteBytes(old, <<>>, last)
    BY <1>14, <1>15, <1>20
  <2>3. BufferOK(b) /\ b.count = 0
    BY <1>12, <2>2, EmptyWritten
  <2>4. PmaOK' /\ pma'[qsb_offset_rx].count = 0
    BY <1>16, <2>3
  <2>5. sent' = Len(got)'
    BY <1>1, <1>4, <2>1
  <2>6. AtRest'
    BY <1>10, <2>1, <2>4, <2>5 DEF AtRest
  <2>7. ControlInUse'
    BY <1>1, <1>20, <2>6 DEF ControlInUse
  <2> QED BY <1>1, <1>3, <1>17, <1>18, <1>20, <2>4, <2>7, ControlPackets
<1> QED BY <1>1, <1>19, <1>20

\* The host takes a STALL for the end of a refused request.
LEMMA SingleInStall ==
    ASSUME EndpointInv, ~IsDbl, HostInStall
    PROVE  Packets'
<1>1. /\ host_stage = "reply" /\ reg \cap StatTx = TxStatus("stall")
      /\ got' = Append(got, Packet(sent - 1)) /\ host_stage' = "idle"
      /\ UNCHANGED <<role, reg, pma, todo, ep_state_rx, ep_state_tx, ep_outstanig_rx_acks, sent,
                     host_toggle>>
  BY DEF HostInStall, driverVars
<1>2. /\ SingleInUse /\ ControlInUse /\ PmaOK /\ Received
      /\ role \in {"interrupt_in", "control"}
      /\ role = "interrupt_in" => host_stage \in {"quiet", "idle"}
  BY SingleFacts
<1>3. role = "control"
  BY <1>1, <1>2
<1>4. PICK n \in Nat : n = Len(got)
  BY SingleFacts
<1>5. AwaitingReply
  BY <1>1, <1>2, <1>3 DEF ControlInUse
<1>6. TxStatus("stall") # TxStatus("nak")
  BY DEF TxStatus
<1>7. sent = n + 1 /\ ~SetupDue /\ ~TxDue /\ ~OutDue
  BY <1>1, <1>4, <1>5, <1>6 DEF AwaitingReply
<1>8. Received' /\ Len(got') = n + 1
  <2>1. sent - 1 = n
    BY <1>7
  <2>2. got' = Append(got, Packet(Len(got)))
    BY <1>1, <1>4, <2>1
  <2> QED BY <1>2, <1>4, <2>2, NextReceived
<1>9. Pending' = Pending
  BY <1>1 DEF Pending
<1>10. /\ ~SetupDue' /\ ~TxDue' /\ ~OutDue'
       /\ InDue' <=> InDue
  BY <1>1, <1>7, <1>9 DEF SetupDue, OutDue, InDue, TxDue
<1>11. AtRest'
  <2>1. sent' = Len(got')
    BY <1>1, <1>7, <1>8
  <2> QED BY <1>10, <2>1 DEF AtRest
<1>12. ControlInUse' /\ SingleInUse'
  BY <1>1, <1>2, <1>7, <1>10, <1>11 DEF ControlInUse, SingleInUse
<1>13. PmaOK'
  BY <1>1, <1>2 DEF PmaOK
<1> QED BY <1>1, <1>3, <1>8, <1>12, <1>13, ControlPackets

\* A single-buffered endpoint, in every step.
LEMMA SingleNext ==
    ASSUME EndpointInv, ~IsDbl, [Next]_vars
    PROVE  Packets'
<1>1. role \in {"interrupt_in", "control"}
  BY SingleFacts
<1>2. CASE ReadRegister \/ UNCHANGED vars
  BY <1>2, PacketsFrame DEF EndpointInv
<1>3. CASE WriteRegister
  BY <1>3, SingleUseWrite, SingleQuietWrite
<1>4. CASE Poll
  BY <1>4, SinglePoll
<1>5. ASSUME NEW pause, HandleBulkOut(pause) PROVE FALSE
  BY <1>1, <1>5 DEF HandleBulkOut
<1>6. CASE HandleSetup
  BY <1>6, SingleHandleSetup
<1>7. CASE HandleControlOut
  BY <1>7, SingleHandleOut
<1>8. CASE HandleIn
  BY <1>8, SingleHandleIn
<1>9. CASE Unpause \/ HostOutBulk
  BY <1>1, <1>9 DEF Unpause, HostOutBulk
<1>10. CASE HostIn
  BY <1>10, SingleFetch
<1>11. CASE HostOutControl
  BY <1>11, SingleReceive
<1>12. CASE HostInStall
  BY <1>12, SingleInStall
<1>13. CASE HostResumes
  BY <1>13, SingleResumes
<1>14. CASE Transmit
  BY <1>14, SingleTransmit
<1>15. ASSUME NEW kind \in {ReadRequest, WriteRequest, RefusedRequest}, HostSetup(kind)
       PROVE  Packets'
  BY <1>15, SingleSetupPacket
<1>16. CASE Reconfigure
  BY <1>16, SingleReconfigure
<1>17. ASSUME NEW stall \in BOOLEAN, StallSet(stall) PROVE Packets'
  BY <1>17, SingleStall
<1> QED BY <1>2, <1>3, <1>4, <1>5, <1>6, <1>7, <1>8, <1>9, <1>10, <1>11, <1>12, <1>13, <1>14,
           <1>15, <1>16, <1>17 DEF Next, Driver, Host

----------------------------------------------------------------------------
(* The endpoint as a whole.                                                  *)

LEMMA EndpointInit == Init => EndpointInv
<1> SUFFICES ASSUME Init PROVE EndpointInv
  OBVIOUS
<1>1. RegisterInv
  BY InitInv
<1>2. /\ role \in Roles /\ latch = NotRead /\ sent = 0 /\ got = <<>> /\ host_toggle = FALSE
      /\ host_stage = "quiet" /\ configs = 0 /\ pma = [o \in {0, 1} |-> EmptyBuffer]
  BY DEF Init
<1>3. Ranges
  BY <1>2, FsDevAssumption DEF Ranges
<1>4. PmaOK
  <2>1. BufferOK(EmptyBuffer)
    BY DEF BufferOK, EmptyBuffer
  <2> QED BY <1>2, <2>1 DEF PmaOK
<1>5. Received
  <2>1. <<>> \in Seq(Seq(Nat)) /\ Len(<<>>) = 0
    OBVIOUS
  <2> QED BY <1>2, <2>1 DEF Received, InOrder
<1>6. CASE IsDbl
  <2>1. role \in {"bulk_out", "bulk_in"}
    BY <1>6 DEF IsDbl
  <2>2. DataInv /\ ep_state_tx \in 0 .. 4
    BY <1>1, <2>1, BulkInit
  <2> QED BY <1>1, <1>3, <1>4, <1>5, <2>2 DEF EndpointInv, Packets
<1>7. CASE ~IsDbl
  <2>1. role # "bulk_in"
    BY <1>7 DEF IsDbl
  <2>2. DataInv
    BY <1>1, <1>7, SingleInit
  <2> QED BY <1>1, <1>3, <1>4, <1>5, <2>1, <2>2 DEF EndpointInv, Packets
<1> QED BY <1>6, <1>7

LEMMA EndpointNext == EndpointInv /\ [Next]_vars => EndpointInv'
<1> SUFFICES ASSUME EndpointInv, [Next]_vars PROVE EndpointInv'
  OBVIOUS
<1>1. RegisterInv'
  BY NextInv DEF EndpointInv
<1>2. Ranges'
  BY RangesKept DEF EndpointInv
<1>3. Packets'
  BY <1>1, BulkNext, SingleNext DEF IsDbl
<1> QED BY <1>1, <1>2, <1>3 DEF EndpointInv

\* What the driver takes the endpoint to be, by the endpoint's kind.
LEMMA AgreesBulkIn ==
    ASSUME EndpointInv, role = "bulk_in"
    PROVE  RegisterAgrees
<1> SUFFICES ASSUME todo = <<>> PROVE RegisterAgrees
  BY DEF RegisterAgrees
<1> DEFINE completed == IF "CTR_TX" \in reg THEN 1 ELSE 0
           waiting == IF masked THEN 0 ELSE IF NoFreeBuffer(reg) THEN 2 ELSE 1
<1>1. /\ Typed /\ DoubleSetup /\ host_stage \in {"quiet", "idle"}
      /\ host_stage = "quiet" => reg \cap CtrBits = {}
  BY DEF EndpointInv, RegisterInv, AccessInv, EndpointTyped, QuietSetup, Packets, DataInv
<1>2. TxStateAfterSetup(role) = 2
  BY DEF TxStateAfterSetup, dbl_buf_en_0_pkts
<1>3. ep_state_tx = 2 + completed + waiting
  <2>1. CASE host_stage = "quiet"
    <3>1. "CTR_TX" \notin reg
      BY <1>1, <2>1 DEF CtrBits
    <3> QED BY <1>1, <1>2, <2>1, <3>1, DoubleSetupOver
  <2>2. CASE host_stage = "idle"
    <3>1. PICK giving \in BOOLEAN, called \in BOOLEAN, n \in Nat, given \in Nat, due \in Nat :
             /\ InShape(giving, called) /\ InCounts(giving, called, given, due)
             /\ InWith(n, given, due)
             /\ sent \in Nat /\ n <= given /\ given <= sent /\ sent - n + due <= 2
      BY <2>2, InCases
    <3>2. ~giving /\ ~called
      BY <3>1, InTodo DEF InShape
    <3>3. given = sent /\ due = completed
      BY <3>1, <3>2 DEF InCounts
    <3>4. /\ NoFreeBuffer(reg) <=> ("DTOG_TX" \in reg <=> "DTOG_RX" \in reg)
          /\ "DTOG_TX" \in reg <=> n % 2 = 1
          /\ "DTOG_RX" \in reg <=> sent % 2 = 1
          /\ masked <=> sent = n
          /\ ep_state_tx = 2 + (sent - n) + completed
      BY <3>1, <3>3 DEF InWith, NoFreeBuffer, SW_BUF_TX, dbl_buf_en_0_pkts
    <3>5. sent \in {n, n + 1, n + 2}
      BY <3>1, <3>3
    <3>6. n % 2 \in {0, 1} /\ (n + 1) % 2 = 1 - (n % 2) /\ (n + 2) % 2 = n % 2
      BY Parity
    <3>7. sent = n + 2 => NoFreeBuffer(reg)
      BY <3>4, <3>6
    <3>8. sent = n + 1 => ~NoFreeBuffer(reg)
      BY <3>4, <3>6
    <3>9. completed \in Nat
      OBVIOUS
    <3> HIDE DEF completed
    <3>10. sent - n = waiting
      <4>1. CASE sent = n
        BY <3>4, <4>1
      <4>2. CASE sent = n + 1
        BY <3>4, <3>8, <4>2
      <4>3. CASE sent = n + 2
        BY <3>4, <3>7, <4>3
      <4> QED BY <3>5, <4>1, <4>2, <4>3
    <3> QED BY <3>4, <3>9, <3>10
  <2> QED BY <1>1, <2>1, <2>2
<1> QED BY <1>2, <1>3 DEF RegisterAgrees

LEMMA AgreesBulkOut ==
    ASSUME EndpointInv, role = "bulk_out"
    PROVE  RegisterAgrees
<1> SUFFICES ASSUME todo = <<>> PROVE RegisterAgrees
  BY DEF RegisterAgrees
<1>1. /\ Typed /\ DoubleSetup /\ BulkOutInUse /\ OtherDirection /\ host_stage \in {"quiet", "idle"}
      /\ host_stage = "quiet" => reg \cap CtrBits = {}
      /\ sent \in Nat /\ Len(got) \in Nat
  BY DEF EndpointInv, RegisterInv, AccessInv, EndpointTyped, QuietSetup, Packets, DataInv, Ranges,
         Received
<1>2. TxStateAfterSetup(role) = 0 /\ RxStateAfterSetup(role) = 2
  BY DEF TxStateAfterSetup, RxStateAfterSetup, sgl_buf_0_pkts, dbl_buf_ready_0
<1>3. ep_state_tx = 0 /\ "CTR_TX" \notin reg
  BY <1>1 DEF OtherDirection, sgl_buf_0_pkts
<1>4. /\ ep_state_rx % 2 = (IF ("DTOG_RX" \in reg) = ("CTR_RX" \in reg) THEN 0 ELSE 1)
      /\ masked <=> ("CTR_RX" \in reg \/ ep_outstanig_rx_acks = 1)
  <2>1. CASE host_stage = "quiet"
    <3>1. "CTR_RX" \notin reg
      BY <1>1, <2>1 DEF CtrBits
    <3>2. ep_state_rx = 2 /\ ep_outstanig_rx_acks = 0 /\ "DTOG_RX" \notin reg /\ ~masked
      BY <1>1, <1>2, <2>1, DoubleSetupOver
    <3> QED BY <3>1, <3>2
  <2>2. CASE host_stage = "idle"
    <3>1. PICK unread \in BOOLEAN, returned \in BOOLEAN :
             OutShape(unread, returned) /\ OutWith(unread, returned)
      BY <1>1, <2>2, OutCases
    <3>2. ~returned /\ (unread <=> "CTR_RX" \in reg)
      BY <3>1, OutTodo DEF OutShape
    <3>3. PICK n \in Nat : n = Len(got)
      BY <1>1
    <3>4. /\ "DTOG_RX" \in reg <=> sent % 2 = 1
          /\ masked <=> unread \/ ep_outstanig_rx_acks = 1
          /\ ep_outstanig_rx_acks \in 0 .. 1
          /\ ep_state_rx = 2 + 2 * ep_outstanig_rx_acks + (n % 2)
          /\ sent = IF unread THEN n + 1 ELSE n
      BY <3>1, <3>2, <3>3 DEF OutWith, dbl_buf_ready_0
    <3>5. n % 2 \in {0, 1} /\ (n + 1) % 2 = 1 - (n % 2)
      BY Parity
    <3>6. ep_state_rx % 2 = n % 2
      <4>1. ep_outstanig_rx_acks = 0 \/ ep_outstanig_rx_acks = 1
        BY <3>4
      <4>2. ep_state_rx \in {2, 3, 4, 5} /\ (ep_state_rx \in {2, 4} <=> n % 2 = 0)
        BY <3>4, <3>5, <4>1
      <4> QED BY <3>5, <4>2
    <3>7. ("DTOG_RX" \in reg) = ("CTR_RX" \in reg) <=> n % 2 = 0
      <4>1. CASE "CTR_RX" \in reg
        BY <3>2, <3>4, <3>5, <4>1
      <4>2. CASE "CTR_RX" \notin reg
        BY <3>2, <3>4, <3>5, <4>2
      <4> QED BY <4>1, <4>2
    <3> QED BY <3>2, <3>4, <3>5, <3>6, <3>7
  <2> QED BY <1>1, <2>1, <2>2
<1> QED BY <1>2, <1>3, <1>4 DEF RegisterAgrees

LEMMA AgreesSingle ==
    ASSUME EndpointInv, ~IsDbl
    PROVE  RegisterAgrees
<1> SUFFICES ASSUME todo = <<>> PROVE RegisterAgrees
  BY DEF RegisterAgrees
<1>1. RegisterInv /\ SingleInUse /\ role \in {"interrupt_in", "control"}
  BY SingleFacts
<1>2. Pending = {}
  BY <1>1, NothingToDo
<1>3. (TxDue <=> StatTx \subseteq reg) /\ (InDue <=> "CTR_TX" \in reg)
  BY <1>2 DEF TxDue, InDue
<1>4. TxStateAfterSetup(role) = 0
  BY <1>1 DEF TxStateAfterSetup, sgl_buf_0_pkts
<1>5. ep_state_tx = (IF "CTR_TX" \in reg THEN 1 ELSE 0) + (IF StatTx \subseteq reg THEN 1 ELSE 0)
  <2>1. CASE host_stage = "quiet"
    <3>1. ep_state_tx = 0 /\ "CTR_TX" \notin reg /\ ~(StatTx \subseteq reg)
      BY <1>1, <1>2, <2>1 DEF RegisterInv, AccessInv, QuietSetup, CtrBits, sgl_buf_0_pkts
    <3> QED BY <3>1
  <2>2. CASE host_stage # "quiet"
    <3>1. /\ ~(TxDue /\ InDue)
          /\ ep_state_tx = (IF TxDue \/ InDue THEN 1 ELSE 0)
      BY <1>1, <2>2 DEF SingleInUse, sgl_buf_0_pkts, sgl_buf_1_pkt
    <3> QED BY <1>3, <3>1
  <2> QED BY <2>1, <2>2
<1> QED BY <1>1, <1>4, <1>5 DEF RegisterAgrees

LEMMA EndpointRanges ==
    ASSUME EndpointInv
    PROVE  /\ ep_state_rx \in sgl_buf_ready .. dbl_buf_paused_1
           /\ ep_state_tx \in sgl_buf_0_pkts .. dbl_buf_en_2_pkts
           /\ ep_outstanig_rx_acks \in 0 .. 2
<1>1. RegisterInv /\ Typed /\ DataInv /\ (role = "bulk_in" => ep_state_tx \in 0 .. 4)
      /\ Len(got) \in Nat
  BY DEF EndpointInv, Packets, RegisterInv, Received
<1>2. ep_state_rx \in 0 .. 5 /\ ep_outstanig_rx_acks \in 0 .. 2
  <2>1. CASE role # "bulk_out"
    BY <1>1, <2>1 DEF DataInv, OtherDirection, sgl_buf_ready
  <2>2. CASE role = "bulk_out"
    <3>1. host_stage \in {"quiet", "idle"} /\ IsDbl
      BY <1>1, <2>2 DEF RegisterInv, AccessInv, EndpointTyped, IsDbl
    <3>2. CASE host_stage = "quiet"
      <4>1. ep_outstanig_rx_acks = 0 /\ ep_state_rx = RxStateAfterSetup(role)
        BY <1>1, <3>1, <3>2 DEF DataInv, DoubleSetup
      <4> QED BY <2>2, <4>1 DEF RxStateAfterSetup, dbl_buf_ready_0
    <3>3. CASE host_stage = "idle"
      <4>1. PICK n \in Nat : n = Len(got)
        BY <1>1
      <4>2. /\ ep_outstanig_rx_acks \in 0 .. 1
            /\ ep_state_rx = 2 + 2 * ep_outstanig_rx_acks + (n % 2)
        BY <1>1, <2>2, <3>3, <4>1 DEF DataInv, BulkOutInUse, dbl_buf_ready_0
      <4>3. n % 2 \in {0, 1}
        BY Parity
      <4> QED BY <4>2, <4>3
    <3> QED BY <3>1, <3>2, <3>3
  <2> QED BY <2>1, <2>2
<1>3. ep_state_tx \in 0 .. 4
  <2>1. CASE role = "bulk_in"
    BY <1>1, <2>1
  <2>2. CASE role = "bulk_out"
    BY <1>1, <2>2 DEF DataInv, OtherDirection, sgl_buf_0_pkts
  <2>3. CASE role \in {"interrupt_in", "control"}
    <3>1. ~IsDbl
      BY <2>3 DEF IsDbl
    <3> QED BY <1>1, <3>1 DEF DataInv, SingleInUse, RegisterInv, AccessInv, QuietSetup,
                              sgl_buf_0_pkts, sgl_buf_1_pkt
  <2> QED BY <1>1, <2>1, <2>2, <2>3 DEF Typed
<1> QED BY <1>2, <1>3 DEF sgl_buf_ready, dbl_buf_paused_1, sgl_buf_0_pkts, dbl_buf_en_2_pkts

LEMMA EndpointSafe == EndpointInv => Inv
<1> SUFFICES ASSUME EndpointInv PROVE Inv
  OBVIOUS
<1>1. RegisterInv /\ Typed /\ Ranges /\ PmaOK /\ Received /\ DataInv
  BY DEF EndpointInv, Packets, RegisterInv
<1>2. RegisterAgrees
  BY <1>1, AgreesBulkIn, AgreesBulkOut, AgreesSingle DEF IsDbl
<1>3. TypeOK
  <2>1. DOMAIN pma = {0, 1} /\ \A o \in {0, 1} : pma[o].count \in 0 .. 3 /\ DOMAIN pma[o].words = 1 .. 2
    BY <1>1 DEF PmaOK, BufferOK
  <2> QED BY <1>1, <2>1, EndpointRanges DEF TypeOK, Ranges, Typed, Received
<1> QED BY <1>1, <1>2, <1>3 DEF Inv, Received, RegisterInv

\* An endpoint's packets come out once each, in order and unharmed, and what the driver
\* takes its state to be is what its register says, for every number of packets and
\* configurations and all four kinds of endpoint: neither side reads or writes a buffer
\* that is the other's, and the data toggles do not part, whenever the driver's accesses,
\* transfers, halts, new configurations and endpoint 0's SETUP packets come.
THEOREM EndpointCorrect == Spec => []Inv
<1>1. EndpointInv /\ [Next]_vars => EndpointInv'
  BY EndpointNext
<1>2. EndpointInv => Inv
  BY EndpointSafe
<1> QED BY <1>1, <1>2, EndpointInit, PTL DEF Spec
=============================================================================
