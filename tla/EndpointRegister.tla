-------------------------- MODULE EndpointRegister --------------------------
(***************************************************************************)
(* An endpoint register of the USB peripheral: what a write to it does,    *)
(* what the operations of qsb_fsdev_ep.h write, and what these operations  *)
(* are for. A value of the register is the set of its bits that are 1; EA  *)
(* stands for the address field, and the names with 1 and 0 for the high   *)
(* and the low bit of a field.                                             *)
(***************************************************************************)

StatRx == {"STAT_RX1", "STAT_RX0"}
StatTx == {"STAT_TX1", "STAT_TX0"}
RwBits == {"TYPE1", "TYPE0", "KIND", "EA"}          \* USB_EP_RW_BITS_MSK
ToggledBits == {"DTOG_RX", "DTOG_TX"} \cup StatRx \cup StatTx
CtrBits == {"CTR_RX", "CTR_TX"}                     \* USB_EP_W0_BITS_MSK
RegisterBits == RwBits \cup ToggledBits \cup CtrBits \cup {"SETUP"}

\* The buffer under control of software has the bit of the other direction.
SW_BUF_TX == "DTOG_RX"
SW_BUF_RX == "DTOG_TX"

\* USB_EP_TYPE_xxx
EpType(type) ==
    CASE type = "bulk" -> {} [] type = "control" -> {"TYPE0"}
      [] type = "interrupt" -> {"TYPE1", "TYPE0"}

\* USB_EP_STAT_RX_xxx and USB_EP_STAT_TX_xxx
RxStatus(status) ==
    CASE status = "disabled" -> {} [] status = "stall" -> {"STAT_RX0"}
      [] status = "nak" -> {"STAT_RX1"} [] status = "valid" -> StatRx
TxStatus(status) ==
    CASE status = "disabled" -> {} [] status = "stall" -> {"STAT_TX0"}
      [] status = "nak" -> {"STAT_TX1"} [] status = "valid" -> StatTx

Xor(a, b) == (a \ b) \cup (b \ a)

\* What the peripheral makes of a value written.
Written(reg, value) ==
    (value \cap RwBits)
    \cup Xor(reg \cap ToggledBits, value \cap ToggledBits)
    \cup (reg \cap value \cap CtrBits)
    \cup (reg \cap {"SETUP"})

----------------------------------------------------------------------------
(* The operations; those with `reads` compute the value from the register.  *)

ToggleBits(val, mask) == [name |-> "toggle_bits", reads |-> TRUE, val |-> val, mask |-> mask]
StatRxSet(status) == ToggleBits(RxStatus(status), StatRx)
StatTxSet(status) == ToggleBits(TxStatus(status), StatTx)
DtogRxClear == ToggleBits({}, {"DTOG_RX"})
DtogTxClear == ToggleBits({}, {"DTOG_TX"})
SwBufRxSet == ToggleBits({SW_BUF_RX}, {SW_BUF_RX})
SwBufTxClear == ToggleBits({}, {SW_BUF_TX})
CtrRxClear == [name |-> "ctr_clear", reads |-> TRUE, val |-> {}, mask |-> {"CTR_RX"}]
CtrTxClear == [name |-> "ctr_clear", reads |-> TRUE, val |-> {}, mask |-> {"CTR_TX"}]
SetAllRwBits(val) == [name |-> "set_all_rw_bits", reads |-> FALSE, val |-> val, mask |-> RwBits]
SwBufToggle(bit) == [name |-> "sw_buf_toggle", reads |-> FALSE, val |-> {}, mask |-> {bit}]

\* Mutant: the flags are written as they were read.
ValueToWriteFlags(op, read) ==
    CASE op.name = "toggle_bits" ->
            Xor(read \cap (RwBits \cup CtrBits \cup op.mask), op.val)
      [] op.name = "ctr_clear" -> (read \cap (RwBits \cup CtrBits)) \ op.mask
      [] op.name = "set_all_rw_bits" -> CtrBits \cup op.val
      [] op.name = "sw_buf_toggle" -> {"KIND", "EA"} \cup CtrBits \cup op.mask

\* The value written, from the one read before.
ValueToWrite(op, read) ==
    CASE op.name = "toggle_bits" ->
            Xor((read \cap (RwBits \cup op.mask)) \cup CtrBits, op.val)
      [] op.name = "ctr_clear" -> (read \cap RwBits) \cup (CtrBits \ op.mask)
      [] op.name = "set_all_rw_bits" -> CtrBits \cup op.val
      [] op.name = "sw_buf_toggle" -> {"KIND", "EA"} \cup CtrBits \cup op.mask

\* What the operation is for, by its comment: the bits of its mask, and no
\* others. (That of qsb_ep_set_all_rw_bits() adds that the flags are cleared,
\* which a write of 1 does not do.)
Intended(op, reg) ==
    IF op.name = "sw_buf_toggle" THEN Xor(reg, op.mask) ELSE (reg \ op.mask) \cup op.val
=============================================================================
