------------------------------- MODULE FsDev -------------------------------
(***************************************************************************)
(* One endpoint between the driver (qsb_drv_fsdev_plus.c) and the USB      *)
(* peripheral, which share its register: the driver reads, modifies and    *)
(* writes it while the peripheral sets flags and toggles bits. The         *)
(* endpoint is one of the four kinds the firmware has. Packets, or control *)
(* transfers, are numbered.                                                *)
(***************************************************************************)
EXTENDS Integers, Sequences, EndpointRegister, PacketMemory

CONSTANTS
    Roles,          \* of "bulk_out", "bulk_in", "interrupt_in", "control"
    MaxPackets,     \* bound: packets, or control transfers, per configuration
    MaxConfigs      \* bound: times SET_CONFIGURATION is handled, and halts

ASSUME FsDevAssumption ==
    /\ Roles \subseteq {"bulk_out", "bulk_in", "interrupt_in", "control"}
    /\ MaxPackets \in Nat /\ MaxConfigs \in Nat

VARIABLES
    role,
    reg,            \* the endpoint register
    masked,         \* double buffering: VALID reads as NAK, no buffer is free
    pma,            \* the two packet buffers, by their offset in BTABLE
    todo,           \* what the driver has yet to do, one operation at a time
    latch,          \* the register as the operation under way has read it
    ep_state_rx, ep_state_tx, ep_outstanig_rx_acks,
    sent,           \* packets given to the endpoint, control transfers begun
    got,            \* history: packets that came out of it, transfers ended
    host_toggle,    \* the host's data toggle (DATA0 is FALSE)
    host_stage,     \* where the host is in a control transfer; "quiet" while it
                    \* waits for a request about this endpoint to be handled
    configs

driverVars == <<ep_state_rx, ep_state_tx, ep_outstanig_rx_acks>>
historyVars == <<sent, got>>
hostVars == <<host_toggle, host_stage>>
vars == <<role, reg, masked, pma, todo, latch, driverVars, historyVars, hostVars, configs>>

IsDbl == role \in {"bulk_out", "bulk_in"}

\* ep_state_tx_e
sgl_buf_0_pkts == 0
sgl_buf_1_pkt == 1
dbl_buf_en_0_pkts == 2
dbl_buf_en_1_pkt == 3
dbl_buf_en_2_pkts == 4
\* ep_state_rx_e: the lowest bit is the offset of the next packet.
sgl_buf_ready == 0
dbl_buf_ready_0 == 2
dbl_buf_ready_1 == 3
dbl_buf_paused_0 == 4
dbl_buf_paused_1 == 5

\* Packets of 1, 2 and 3 bytes, and the SETUP packets of control transfers.
Packet(n) == [i \in 1 .. 1 + (n % 3) |-> 10 * n + i]
ReadRequest == 0
WriteRequest == 1
RefusedRequest == 2
Setup(n, kind) == <<n, kind>>
EmptyBuffer == [count |-> 0, words |-> << <<0, 0>>, <<0, 0>> >>]
\* More than any packet is long.
PACKET_SIZE == 64

NotRead == {"nothing"}
BitValue(bit) == IF bit \in reg THEN 1 ELSE 0

----------------------------------------------------------------------------
(* The register. *)

\* What the driver reads: a masked VALID is NAK.
Visible ==
    IF masked THEN reg \ {IF role = "bulk_out" THEN "STAT_RX0" ELSE "STAT_TX0"} ELSE reg

\* Whether the peripheral has no buffer once its status becomes VALID, or after
\* a transaction.
NoFreeBuffer(r) == IF role = "bulk_out" THEN ("DTOG_RX" \in r) = (SW_BUF_RX \in r)
                                        ELSE ("DTOG_TX" \in r) = (SW_BUF_TX \in r)
Valid(r) == IF role = "bulk_out" THEN StatRx \subseteq r ELSE StatTx \subseteq r

\* The mask goes when the driver gives a buffer, and comes with VALID.
MaskedAfterWrite(r, value) ==
    IF ~("KIND" \in r) \/ ~Valid(r) THEN FALSE
    ELSE IF (IF role = "bulk_out" THEN SW_BUF_RX ELSE SW_BUF_TX) \in value THEN FALSE
    ELSE IF Valid(reg) THEN masked ELSE NoFreeBuffer(r)

Call(what) == [name |-> what, reads |-> FALSE, val |-> {}, mask |-> {}]
IsRegisterOp(op) == op.mask # {}

ReadRegister ==
    /\ todo # <<>> /\ Head(todo).reads /\ latch = NotRead
    /\ latch' = Visible
    /\ UNCHANGED <<role, reg, masked, pma, todo, driverVars, historyVars, hostVars, configs>>

WriteRegister ==
    /\ todo # <<>> /\ IsRegisterOp(Head(todo))
    /\ Head(todo).reads => latch # NotRead
    /\ LET value == ValueToWrite(Head(todo), latch)
       IN  /\ reg' = Written(reg, value)
           /\ masked' = MaskedAfterWrite(reg', value)
    /\ todo' = Tail(todo)
    /\ latch' = NotRead
    /\ UNCHANGED <<role, pma, driverVars, historyVars, hostVars, configs>>

----------------------------------------------------------------------------
(* The driver. *)

\* Mutant: the buffer bit is left as the configuration before had it.
EpSetupOpsNoSwBuf(r) ==
    CASE r = "bulk_out" -> <<DtogRxClear, StatRxSet("valid")>>
      [] r = "bulk_in" -> <<DtogTxClear, StatTxSet("valid")>>
      [] r = "interrupt_in" -> <<DtogTxClear, StatTxSet("nak")>>
      [] r = "control" -> <<DtogTxClear, StatTxSet("nak"), DtogRxClear, StatRxSet("valid")>>

\* What qsb_dev_ep_setup() does to the register after its type.
EpSetupOps(r) ==
    CASE r = "bulk_out" -> <<DtogRxClear, SwBufRxSet, StatRxSet("valid")>>
      [] r = "bulk_in" -> <<DtogTxClear, SwBufTxClear, StatTxSet("valid")>>
      [] r = "interrupt_in" -> <<DtogTxClear, StatTxSet("nak")>>
      [] r = "control" -> <<DtogTxClear, StatTxSet("nak"), DtogRxClear, StatRxSet("valid")>>

TypeBits(r) ==
    IF r \in {"bulk_out", "bulk_in"} THEN EpType("bulk") \cup {"KIND", "EA"}
    ELSE IF r = "interrupt_in" THEN EpType("interrupt") \cup {"EA"} ELSE EpType("control")
SetupOps(r) == <<SetAllRwBits(TypeBits(r))>> \o EpSetupOps(r)
TxStateAfterSetup(r) == IF r = "bulk_in" THEN dbl_buf_en_0_pkts ELSE sgl_buf_0_pkts
RxStateAfterSetup(r) == IF r = "bulk_out" THEN dbl_buf_ready_0 ELSE sgl_buf_ready

\* SET_CONFIGURATION: qsb_internal_ep_reset() and qsb_dev_ep_setup(). Packets in
\* the endpoint are gone, and both sides start with DATA0. No completion is
\* unpolled, and the host waits for the end of the request.
Reconfigure ==
    /\ role # "control" /\ todo = <<>> /\ configs < MaxConfigs
    /\ reg \cap CtrBits = {} /\ host_stage = "idle"
    /\ todo' = <<StatTxSet("disabled"), StatRxSet("disabled")>> \o SetupOps(role)
    /\ ep_state_rx' = RxStateAfterSetup(role)
    /\ ep_state_tx' = TxStateAfterSetup(role)
    /\ ep_outstanig_rx_acks' = 0
    /\ sent' = 0 /\ got' = <<>> /\ pma' = [o \in {0, 1} |-> EmptyBuffer]
    /\ host_toggle' = FALSE /\ host_stage' = "quiet"
    /\ configs' = configs + 1
    /\ UNCHANGED <<role, reg, masked, latch>>

\* qsb_dev_ep_stall_set() for the single-buffered endpoint, when no packet is in it.
StallSet(stall) ==
    /\ role = "interrupt_in" /\ todo = <<>> /\ configs < MaxConfigs
    /\ ep_state_tx = sgl_buf_0_pkts /\ host_stage = "idle" /\ reg \cap CtrBits = {}
    /\ todo' = IF stall THEN <<StatTxSet("stall")>> ELSE <<StatTxSet("nak"), DtogTxClear>>
    /\ host_toggle' = IF stall THEN host_toggle ELSE FALSE
    /\ host_stage' = "quiet"
    /\ configs' = configs + 1
    /\ UNCHANGED <<role, reg, masked, pma, latch, driverVars, historyVars>>

\* The request is over.
HostResumes ==
    /\ host_stage = "quiet" /\ todo = <<>>
    /\ host_stage' = "idle"
    /\ UNCHANGED <<role, reg, masked, pma, todo, latch, driverVars, historyVars,
                   host_toggle, configs>>

\* Mutant: with double buffering the packet always goes to the first buffer.
TxOffsetFirst(r) == qsb_offset_tx

\* The buffer qsb_dev_ep_transmit_packet() copies a packet to.
TxOffset(r) == IF IsDbl /\ SW_BUF_TX \in r THEN 1 ELSE 0

CanTransmit == ep_state_tx \notin {sgl_buf_1_pkt, dbl_buf_en_2_pkts}
TransmitOps == <<IF IsDbl THEN SwBufToggle(SW_BUF_TX) ELSE StatTxSet("valid")>>

\* qsb_dev_ep_transmit_packet() from the main loop.
Transmit ==
    /\ role \in {"bulk_in", "interrupt_in"} /\ todo = <<>> /\ host_stage = "idle"
    /\ sent < MaxPackets /\ CanTransmit
    /\ pma' = [pma EXCEPT ![TxOffset(reg)] = CopyToPma(@, Packet(sent))]
    /\ ep_state_tx' = ep_state_tx + 1
    /\ todo' = TransmitOps
    /\ sent' = sent + 1
    /\ UNCHANGED <<role, reg, masked, latch, ep_state_rx, ep_outstanig_rx_acks, got, hostVars,
                   configs>>

\* Mutant: the flag is cleared after the callback.
HandlerOpsLateClear(what, clear) == <<Call(what), clear>>
HandlerOps(what, clear) == <<clear, Call(what)>>

\* qsb_dev_poll() with a transfer completed: one reading of the register decides
\* about both directions.
Poll ==
    /\ todo = <<>> /\ reg \cap CtrBits # {}
    /\ todo' =
        (IF "CTR_RX" \in reg
         THEN HandlerOps(IF "SETUP" \in reg THEN "setup" ELSE "out", CtrRxClear) ELSE <<>>)
        \o (IF "CTR_TX" \in reg THEN HandlerOps("in", CtrTxClear) ELSE <<>>)
    /\ UNCHANGED <<role, reg, masked, pma, latch, driverVars, historyVars, hostVars, configs>>

NextIs(what) == todo # <<>> /\ Head(todo).name = what

\* The callback for a packet of a double-buffered OUT endpoint, which reads it
\* and may pause the endpoint, and the acknowledgement after it.
HandleBulkOut(pause) ==
    /\ NextIs("out") /\ role = "bulk_out"
    /\ got' = Append(got, CopyFromPma(pma[ep_state_rx % 2], PACKET_SIZE))
    /\ LET paused == pause \/ ep_state_rx > dbl_buf_ready_1
           next == IF ep_state_rx % 2 = 0 THEN 1 ELSE 0
       IN  /\ ep_state_rx' = (IF paused THEN dbl_buf_paused_0 ELSE dbl_buf_ready_0) + next
           /\ ep_outstanig_rx_acks' = ep_outstanig_rx_acks + (IF paused THEN 1 ELSE 0)
           /\ todo' = (IF paused THEN <<>> ELSE <<SwBufToggle(SW_BUF_RX)>>) \o Tail(todo)
    /\ UNCHANGED <<role, reg, masked, pma, latch, ep_state_tx, sent, hostVars, configs>>

\* qsb_dev_ep_unpause() from the main loop.
Unpause ==
    /\ role = "bulk_out" /\ todo = <<>> /\ ep_state_rx >= dbl_buf_paused_0
    /\ ep_state_rx' = ep_state_rx - 2
    /\ todo' = [i \in 1 .. ep_outstanig_rx_acks |-> SwBufToggle(SW_BUF_RX)]
    /\ ep_outstanig_rx_acks' = 0
    /\ UNCHANGED <<role, reg, masked, pma, latch, ep_state_tx, historyVars, hostVars, configs>>

\* The reply or status packet of a transfer on endpoint 0.
SubmitReply(bytes) ==
    /\ pma' = [pma EXCEPT ![qsb_offset_tx] = CopyToPma(@, bytes)]
    /\ ep_state_tx' = sgl_buf_1_pkt

\* A SETUP packet on endpoint 0: a reply, a data stage to come, or a stall.
\* Receiving is enabled again whatever the handler did.
HandleSetup ==
    /\ NextIs("setup")
    /\ LET packet == CopyFromPma(pma[qsb_offset_rx], 8)
           replies == packet[2] = ReadRequest /\ CanTransmit
       IN  /\ IF replies THEN SubmitReply(Packet(packet[1])) ELSE UNCHANGED <<pma, ep_state_tx>>
           /\ todo' = (CASE replies -> TransmitOps
                         [] packet[2] = RefusedRequest -> <<StatTxSet("stall"), StatRxSet("stall")>>
                         [] OTHER -> <<>>)
                      \o <<StatRxSet("valid")>> \o Tail(todo)
    /\ UNCHANGED <<role, reg, masked, latch, ep_state_rx, ep_outstanig_rx_acks, historyVars,
                   hostVars, configs>>

\* A packet on endpoint 0 of the data stage, after which the status is
\* submitted, or of the status stage, which is empty.
HandleControlOut ==
    /\ NextIs("out") /\ role = "control"
    /\ LET packet == CopyFromPma(pma[qsb_offset_rx], PACKET_SIZE)
           replies == packet # <<>> /\ CanTransmit
       IN  /\ IF replies THEN SubmitReply(<<>>) ELSE UNCHANGED <<pma, ep_state_tx>>
           /\ got' = IF packet # <<>> THEN Append(got, packet) ELSE got
           /\ todo' = (IF replies THEN TransmitOps ELSE <<>>)
                      \o <<StatRxSet("valid")>> \o Tail(todo)
    /\ UNCHANGED <<role, reg, masked, latch, ep_state_rx, ep_outstanig_rx_acks, sent,
                   hostVars, configs>>

\* A sent packet; the callbacks submit the next ones from the main loop.
HandleIn ==
    /\ NextIs("in")
    /\ ep_state_tx' = IF ep_state_tx \in {sgl_buf_0_pkts, dbl_buf_en_0_pkts}
                      THEN ep_state_tx ELSE ep_state_tx - 1
    /\ todo' = Tail(todo)
    /\ UNCHANGED <<role, reg, masked, pma, latch, ep_state_rx, ep_outstanig_rx_acks,
                   historyVars, hostVars, configs>>

----------------------------------------------------------------------------
(* The peripheral and the host. *)

\* The peripheral writes a packet it receives; an odd byte leaves the other half.
Stored(offset, bytes) ==
    [pma EXCEPT ![offset] = WriteBytes(@, bytes, @.words[(Len(bytes) + 2) \div 2][2])]

\* A packet is received: at the wrong data toggle it is acknowledged and dropped.
Receive(bytes, offset, accepted) ==
    IF host_toggle = ("DTOG_RX" \in reg)
    THEN pma' = Stored(offset, bytes) /\ reg' = accepted
    ELSE UNCHANGED <<pma, reg>>

HostOutBulk ==
    /\ role = "bulk_out" /\ host_stage = "idle" /\ sent < MaxPackets
    /\ StatRx \subseteq reg /\ ~masked /\ "CTR_RX" \notin reg
    /\ Receive(Packet(sent), BitValue("DTOG_RX"),
               Xor(reg, {"DTOG_RX"}) \cup {"CTR_RX"})
    /\ masked' = NoFreeBuffer(reg')
    /\ sent' = sent + 1
    /\ host_toggle' = ~host_toggle
    /\ UNCHANGED <<role, todo, latch, driverVars, got, host_stage, configs>>

\* The host fetches a packet; at the wrong data toggle it takes it for one it
\* already has. A single-buffered endpoint then has NAK.
HostIn ==
    /\ role = "bulk_in" => host_stage = "idle" /\ ~masked /\ "CTR_TX" \notin reg
    /\ role = "interrupt_in" => host_stage = "idle"
    /\ role = "control" => host_stage \in {"reply", "status"}
    /\ role # "bulk_out" /\ StatTx \subseteq reg
    /\ LET buffer == pma[IF IsDbl THEN BitValue("DTOG_TX") ELSE qsb_offset_tx]
       IN  got' = IF host_toggle = ("DTOG_TX" \in reg) /\ buffer.count > 0
                  THEN Append(got, CopyFromPma(buffer, PACKET_SIZE)) ELSE got
    /\ reg' = (Xor(reg, {"DTOG_TX"}) \cup {"CTR_TX"}) \ (IF IsDbl THEN {} ELSE {"STAT_TX0"})
    /\ masked' = (IsDbl /\ NoFreeBuffer(reg'))
    /\ host_toggle' = IF role = "control" THEN TRUE ELSE ~host_toggle
    /\ host_stage' = IF host_stage = "reply" THEN "confirm" ELSE "idle"
    /\ UNCHANGED <<role, pma, todo, latch, driverVars, sent, configs>>

\* SETUP is always accepted; it sets both toggles and both directions to NAK.
\* The host has left the device the time to finish with the transfer before.
HostSetup(kind) ==
    /\ role = "control" /\ host_stage = "idle" /\ sent < MaxPackets
    /\ reg \cap CtrBits = {} /\ todo = <<>>
    /\ pma' = Stored(qsb_offset_rx, Setup(sent, kind))
    /\ reg' = (reg \ {"STAT_RX0", "STAT_TX0"})
              \cup {"CTR_RX", "SETUP", "DTOG_RX", "DTOG_TX", "STAT_RX1", "STAT_TX1"}
    /\ sent' = sent + 1
    /\ host_toggle' = TRUE
    /\ host_stage' = IF kind = WriteRequest THEN "data" ELSE "reply"
    /\ UNCHANGED <<role, masked, todo, latch, driverVars, got, configs>>

\* The data stage of a write, or the host's confirmation of a read; then the
\* endpoint has NAK.
HostOutControl ==
    /\ host_stage \in {"data", "confirm"} /\ StatRx \subseteq reg
    /\ Receive(IF host_stage = "data" THEN Packet(sent - 1) ELSE <<>>, qsb_offset_rx,
               (Xor(reg, {"DTOG_RX"}) \cup {"CTR_RX"}) \ {"SETUP", "STAT_RX0"})
    /\ host_stage' = IF host_stage = "data" THEN "status" ELSE "idle"
    /\ UNCHANGED <<role, masked, todo, latch, driverVars, historyVars, host_toggle, configs>>

\* A refused request ends with a STALL.
HostInStall ==
    /\ host_stage = "reply" /\ reg \cap StatTx = TxStatus("stall")
    /\ got' = Append(got, Packet(sent - 1))
    /\ host_stage' = "idle"
    /\ UNCHANGED <<role, reg, masked, pma, todo, latch, driverVars, sent, host_toggle, configs>>

----------------------------------------------------------------------------
\* After a bus reset, or a SET_CONFIGURATION, on a cleared register.
Init ==
    /\ role \in Roles
    /\ reg = {} /\ masked = FALSE /\ pma = [o \in {0, 1} |-> EmptyBuffer]
    /\ todo = SetupOps(role) /\ latch = NotRead
    /\ ep_state_rx = RxStateAfterSetup(role)
    /\ ep_state_tx = TxStateAfterSetup(role)
    /\ ep_outstanig_rx_acks = 0
    /\ sent = 0 /\ got = <<>>
    /\ host_toggle = FALSE /\ host_stage = "quiet"
    /\ configs = 0

Driver ==
    \/ ReadRegister \/ WriteRegister
    \/ Poll
    \/ \E pause \in BOOLEAN : HandleBulkOut(pause)
    \/ HandleSetup \/ HandleControlOut \/ HandleIn
    \/ Unpause

Host == HostIn \/ HostOutControl \/ HostInStall \/ HostResumes

Next ==
    \/ Driver
    \/ Host
    \/ Transmit
    \/ HostOutBulk
    \/ \E kind \in {ReadRequest, WriteRequest, RefusedRequest} : HostSetup(kind)
    \/ Reconfigure
    \/ \E stall \in BOOLEAN : StallSet(stall)

\* The main loop runs on, a paused endpoint is unpaused, and the host fetches
\* what it asked for.
Spec == Init /\ [][Next]_vars /\ WF_vars(Driver) /\ WF_vars(Host)

----------------------------------------------------------------------------
(* Properties. *)

TypeOK ==
    /\ role \in Roles
    /\ reg \subseteq RegisterBits
    /\ masked \in BOOLEAN
    /\ DOMAIN pma = {0, 1}
    /\ \A o \in {0, 1} : pma[o].count \in 0 .. 3 /\ DOMAIN pma[o].words = 1 .. 2
    /\ latch \in (SUBSET RegisterBits) \cup {NotRead}
    /\ ep_state_rx \in sgl_buf_ready .. dbl_buf_paused_1
    /\ ep_state_tx \in sgl_buf_0_pkts .. dbl_buf_en_2_pkts
    /\ ep_outstanig_rx_acks \in 0 .. 2
    /\ sent \in 0 .. MaxPackets
    /\ got \in Seq(Seq(Nat))
    /\ host_toggle \in BOOLEAN
    /\ host_stage \in {"quiet", "idle", "reply", "confirm", "data", "status"}
    /\ configs \in 0 .. MaxConfigs

\* The packets that came out are the first ones that went in, in order: no
\* buffer is overwritten before it is read, none is read twice, and the data
\* toggles of the two sides agree.
InOrder == \A i \in 1 .. Len(got) : got[i] = Packet(i - 1)

\* What the driver takes the endpoint's state to be (ep_state_rx, ep_state_tx,
\* ep_outstanig_rx_acks) is what its register says, whenever the driver does
\* nothing with the endpoint: which buffer is next, how many packets it has.
RegisterAgrees ==
    todo = <<>> =>
        LET completed == IF "CTR_TX" \in reg THEN 1 ELSE 0
            waiting == CASE role = "bulk_in" ->
                              (IF masked THEN 0 ELSE IF NoFreeBuffer(reg) THEN 2 ELSE 1)
                         [] role = "bulk_out" -> 0
                         [] OTHER -> (IF StatTx \subseteq reg THEN 1 ELSE 0)
        IN  /\ ep_state_tx = TxStateAfterSetup(role) + completed + waiting
            /\ role = "bulk_out" =>
                   /\ ep_state_rx % 2
                        = (IF ("DTOG_RX" \in reg) = ("CTR_RX" \in reg) THEN 0 ELSE 1)
                   /\ masked <=> ("CTR_RX" \in reg \/ ep_outstanig_rx_acks = 1)

\* The operations and callbacks under way.
Pending == {todo[i] : i \in DOMAIN todo}

\* An operation is for the bits of its mask, all of one kind, and only a toggle of the
\* buffer bit may write without having read: it finds a bulk endpoint, whose type it
\* writes as well. SETUP packets are for the control endpoint.
Fits(op) ==
    \/ /\ op.name \in IF IsDbl THEN {"out", "in"} ELSE {"setup", "out", "in"}
       /\ ~op.reads /\ op.mask = {}
    \/ /\ op.name = "toggle_bits" /\ op.reads /\ op.val \subseteq op.mask
       /\ op.mask \in {StatRx, StatTx, {"DTOG_RX"}, {"DTOG_TX"}}
    \/ /\ op.name = "ctr_clear" /\ op.reads /\ op.val = {}
       /\ op.mask \in {{"CTR_RX"}, {"CTR_TX"}}
    \/ /\ op.name = "set_all_rw_bits" /\ ~op.reads
       /\ op.val = TypeBits(role) /\ op.mask = RwBits
    \/ /\ op.name = "sw_buf_toggle" /\ ~op.reads /\ op.val = {}
       /\ op.mask \in {{SW_BUF_RX}, {SW_BUF_TX}}
       /\ IsDbl /\ reg \cap RwBits = TypeBits(role)

OperationsFit == \A op \in Pending : Fits(op)

\* The endpoint has the type of its role, or is about to get it before the host uses it;
\* only the control endpoint has SETUP packets and transfers of several stages.
EndpointTyped ==
    /\ reg \cap RwBits \in {{}, TypeBits(role)}
    /\ reg \cap RwBits # TypeBits(role) =>
          host_stage = "quiet" /\ \E op \in Pending : op.name = "set_all_rw_bits"
    /\ masked => IsDbl
    /\ role # "control" => host_stage \in {"quiet", "idle"} /\ "SETUP" \notin reg
    /\ role = "interrupt_in" => "CTR_RX" \notin reg

\* Whatever the peripheral did since the register was read, what the driver is going to
\* compute from the value is still the same.
LatchIsGood ==
    latch # NotRead =>
        /\ todo # <<>> /\ Head(todo).reads
        /\ latch \cap RwBits = reg \cap RwBits
        /\ Head(todo).name = "toggle_bits"
              => latch \cap Head(todo).mask = Visible \cap Head(todo).mask

\* Status and toggles are set while the host is quiet, except for the status of a
\* single-buffered endpoint. Such an endpoint is not left with VALID for transmission.
QuietSetup ==
    /\ host_stage = "quiet" =>
          /\ reg \cap CtrBits = {}
          /\ \A op \in Pending : op.mask # {}
          /\ ~IsDbl => /\ ep_state_tx = sgl_buf_0_pkts
                       /\ \A op \in Pending : op.mask = StatTx => op.val # StatTx
                       /\ StatTx \subseteq reg => \E op \in Pending : op.mask = StatTx
    /\ IsDbl /\ host_stage # "quiet" => \A op \in Pending : op.name # "toggle_bits"

\* What the main loop has yet to do about a packet sent from a single-buffered endpoint,
\* whose status is not VALID until that is done.
SentPending(ops) ==
    \/ /\ ops = <<>> /\ ~(StatTx \subseteq reg /\ "CTR_TX" \in reg)
       /\ \/ ep_state_tx = sgl_buf_1_pkt
          \/ ep_state_tx = sgl_buf_0_pkts /\ ~(StatTx \subseteq reg) /\ "CTR_TX" \notin reg
    \/ /\ ops = <<CtrTxClear, Call("in")>>
       /\ ep_state_tx = sgl_buf_1_pkt /\ ~(StatTx \subseteq reg)
    \/ /\ ops = <<Call("in")>>
       /\ ep_state_tx = sgl_buf_1_pkt /\ ~(StatTx \subseteq reg) /\ "CTR_TX" \notin reg

\* What it has yet to do about a packet received, before those: nothing, calling the
\* handler, or setting the status as the handler asked; no packet is received meanwhile.
ReceivedPending(ops) ==
    \/ todo = ops /\ ("CTR_RX" \in reg => ~(StatRx \subseteq reg))
    \/ /\ ~(StatRx \subseteq reg)
       /\ \/ /\ "CTR_RX" \in reg
             /\ \/ todo = <<CtrRxClear, Call("setup")>> \o ops /\ "SETUP" \in reg
                \/ todo = <<CtrRxClear, Call("out")>> \o ops
          \/ /\ "CTR_RX" \notin reg
             /\ \/ todo = <<Call("setup")>> \o ops /\ ~(StatTx \subseteq reg)
                \/ todo = <<Call("out")>> \o ops
                \/ /\ todo = <<StatTxSet("stall"), StatRxSet("stall"), StatRxSet("valid")>> \o ops
                   /\ ~(StatTx \subseteq reg)
                \/ todo = <<StatRxSet("stall"), StatRxSet("valid")>> \o ops
                \/ todo = <<StatRxSet("valid")>> \o ops

\* A packet is being submitted.
Submitting ==
    /\ ep_state_tx = sgl_buf_1_pkt /\ ~(StatTx \subseteq reg) /\ "CTR_TX" \notin reg
    /\ \/ todo = <<StatTxSet("valid")>> /\ role = "interrupt_in"
       \/ /\ todo = <<StatTxSet("valid"), StatRxSet("valid")>>
          /\ "CTR_RX" \notin reg /\ ~(StatRx \subseteq reg)

\* A single-buffered endpoint in use.
SingleBuffered ==
    ~IsDbl /\ host_stage # "quiet" =>
        /\ {"CTR_RX", "SETUP"} \subseteq reg => ~(StatTx \subseteq reg)
        /\ \/ Submitting
           \/ \E ops \in {<<>>, <<CtrTxClear, Call("in")>>, <<Call("in")>>} :
                 ReceivedPending(ops) /\ SentPending(ops)

\* Why the operations do not disturb the peripheral, nor the peripheral them.
AccessInv == OperationsFit /\ EndpointTyped /\ LatchIsGood /\ QuietSetup /\ SingleBuffered

\* A packet is in one of the buffers, or a SETUP packet in that for reception.
Holds(offset, bytes) ==
    pma[offset].count = Len(bytes) /\ CopyFromPma(pma[offset], PACKET_SIZE) = bytes
HoldsSetup(n, kinds) ==
    LET packet == CopyFromPma(pma[qsb_offset_rx], 8)
    IN  pma[qsb_offset_rx].count = 2 /\ packet[1] = n /\ packet[2] \in kinds

\* What an endpoint has nothing to do with stays as it was set up.
OtherDirection ==
    /\ role # "bulk_out" => ep_state_rx = sgl_buf_ready /\ ep_outstanig_rx_acks = 0
    /\ role = "bulk_out" => ep_state_tx = sgl_buf_0_pkts /\ "CTR_TX" \notin reg
    /\ role = "bulk_in" => "CTR_RX" \notin reg

\* The set-up of a double-buffered endpoint, of which n operations are done: status
\* disabled, type, toggle, buffer bit, status VALID. The peripheral masks VALID when
\* it comes with both bits equal, so that the order matters.
SetupList == <<StatTxSet("disabled"), StatRxSet("disabled")>> \o SetupOps(role)
DoubleSetup ==
    IsDbl /\ host_stage = "quiet" =>
        LET n == 6 - Len(todo)
        IN  /\ n \in 0 .. 6 /\ \A i \in 1 .. Len(todo) : todo[i] = SetupList[n + i]
            /\ sent = 0 /\ got = <<>> /\ ~host_toggle /\ ep_outstanig_rx_acks = 0
            /\ ep_state_tx = TxStateAfterSetup(role) /\ ep_state_rx = RxStateAfterSetup(role)
            /\ n \in 2 .. 5 \/ (n = 1 /\ role = "bulk_in") => ~Valid(reg) /\ ~masked
            /\ n >= 4 => (IF role = "bulk_in" THEN "DTOG_TX" ELSE "DTOG_RX") \notin reg
            /\ n >= 5 => (IF role = "bulk_in" THEN SW_BUF_TX \notin reg ELSE SW_BUF_RX \in reg)
            /\ n = 6 => Valid(reg) /\ (masked <=> role = "bulk_in")

\* A double-buffered OUT endpoint in use: packet k goes to buffer k % 2. A packet is
\* unread until its callback; then it is given back at once or by unpausing.
BulkOutInUse ==
    role = "bulk_out" /\ host_stage = "idle" =>
        LET n == Len(got)
            unread == "CTR_RX" \in reg \/ todo = <<Call("out")>>
            returned == todo = <<SwBufToggle(SW_BUF_RX)>>
        IN  /\ StatRx \subseteq reg
            /\ "CTR_RX" \in reg => todo \in {<<>>, <<CtrRxClear, Call("out")>>}
            /\ "CTR_RX" \notin reg => todo \in {<<>>, <<Call("out")>>, <<SwBufToggle(SW_BUF_RX)>>}
            /\ host_toggle <=> "DTOG_RX" \in reg
            /\ "DTOG_RX" \in reg <=> sent % 2 = 1
            /\ masked <=> NoFreeBuffer(reg)
            /\ masked <=> unread \/ returned \/ ep_outstanig_rx_acks = 1
            /\ unread \/ returned => ep_outstanig_rx_acks = 0
            /\ ep_outstanig_rx_acks \in 0 .. 1
            /\ ep_state_rx = dbl_buf_ready_0 + 2 * ep_outstanig_rx_acks + (n % 2)
            /\ IF unread THEN sent = n + 1 /\ Holds(n % 2, Packet(n)) ELSE sent = n

\* A double-buffered IN endpoint in use: the packets not yet fetched are in the
\* buffers of their numbers' parity; those given to the peripheral are as many as it
\* takes the buffer bit and its toggle to mean.
BulkInInUse ==
    role = "bulk_in" /\ host_stage = "idle" =>
        LET n == Len(got)
            given == sent - (IF todo = <<SwBufToggle(SW_BUF_TX)>> THEN 1 ELSE 0)
            completed == (IF "CTR_TX" \in reg THEN 1 ELSE 0) + (IF todo = <<Call("in")>> THEN 1 ELSE 0)
        IN  /\ StatTx \subseteq reg
            /\ \/ todo \in {<<>>, <<Call("in")>>, <<SwBufToggle(SW_BUF_TX)>>}
               \/ todo = <<CtrTxClear, Call("in")>> /\ "CTR_TX" \in reg
            /\ host_toggle <=> "DTOG_TX" \in reg
            /\ "DTOG_TX" \in reg <=> n % 2 = 1
            /\ SW_BUF_TX \in reg <=> given % 2 = 1
            /\ n <= given
            /\ masked <=> given = n
            /\ ep_state_tx = dbl_buf_en_0_pkts + (sent - n) + completed
            /\ \A k \in n .. sent - 1 : Holds(k % 2, Packet(k))

\* What is due at a single-buffered endpoint: the host's fetching a packet submitted,
\* the handling of its completion, of a SETUP packet or of another one received.
TxDue == StatTxSet("valid") \in Pending \/ StatTx \subseteq reg
InDue == Call("in") \in Pending \/ "CTR_TX" \in reg
SetupDue == Call("setup") \in Pending \/ {"CTR_RX", "SETUP"} \subseteq reg
OutDue == Call("out") \in Pending \/ ("CTR_RX" \in reg /\ "SETUP" \notin reg)

\* Both toggles start anew, or are going to; a halt comes when nothing is due.
SingleSetup ==
    ~IsDbl /\ host_stage = "quiet" =>
        /\ sent = Len(got)
        /\ \A op \in Pending : op.mask = {"DTOG_TX"} => op.val = {} /\ ~host_toggle
        /\ (\E op \in Pending : op.mask = {"DTOG_TX"}) \/ (host_toggle <=> "DTOG_TX" \in reg)

SingleInUse ==
    ~IsDbl /\ host_stage # "quiet" =>
        /\ ep_state_tx = (IF TxDue \/ InDue THEN sgl_buf_1_pkt ELSE sgl_buf_0_pkts)
        /\ ~(TxDue /\ InDue) /\ ~(SetupDue /\ OutDue)

InterruptInUse ==
    role = "interrupt_in" /\ host_stage = "idle" =>
        /\ ~SetupDue
        /\ host_toggle <=> "DTOG_TX" \in reg
        /\ IF TxDue THEN sent = Len(got) + 1 /\ Holds(qsb_offset_tx, Packet(Len(got)))
                    ELSE sent = Len(got)

\* The stages of a control transfer. The host uses DATA1, and so does the endpoint
\* after a SETUP packet.
AtRest ==
    /\ sent = Len(got) /\ ~SetupDue /\ ~TxDue
    /\ OutDue => pma[qsb_offset_rx].count = 0
AwaitingReply ==
    /\ sent = Len(got) + 1 /\ {"DTOG_TX", "DTOG_RX"} \subseteq reg /\ ~OutDue /\ ~InDue
    /\ SetupDue => /\ ~TxDue /\ reg \cap StatTx = TxStatus("nak")
                   /\ HoldsSetup(Len(got), {ReadRequest, RefusedRequest})
    /\ TxDue => /\ Holds(qsb_offset_tx, Packet(Len(got)))
                /\ reg \cap StatTx # TxStatus("stall")
Confirming ==
    sent = Len(got) /\ "DTOG_RX" \in reg /\ ~SetupDue /\ ~OutDue /\ ~TxDue
SendingData ==
    /\ sent = Len(got) + 1 /\ {"DTOG_TX", "DTOG_RX"} \subseteq reg
    /\ ~OutDue /\ ~InDue /\ ~TxDue
    /\ SetupDue => HoldsSetup(Len(got), {WriteRequest})
AwaitingStatus ==
    /\ "DTOG_TX" \in reg /\ ~SetupDue
    /\ IF OutDue THEN /\ sent = Len(got) + 1 /\ Holds(qsb_offset_rx, Packet(Len(got)))
                      /\ ~TxDue /\ ~InDue
                 ELSE sent = Len(got) /\ TxDue /\ pma[qsb_offset_tx].count = 0
ControlInUse ==
    role = "control" =>
        /\ host_stage = "idle" => AtRest
        /\ host_stage = "reply" => AwaitingReply /\ host_toggle
        /\ host_stage = "confirm" => Confirming /\ host_toggle
        /\ host_stage = "data" => SendingData /\ host_toggle
        /\ host_stage = "status" => AwaitingStatus /\ host_toggle

\* Where the packets are, and what is due about them.
DataInv ==
    /\ OtherDirection
    /\ DoubleSetup /\ BulkOutInUse /\ BulkInInUse
    /\ SingleSetup /\ SingleInUse /\ InterruptInUse /\ ControlInUse

\* The endpoint's packets and the driver's picture of the register are right.
Inv == TypeOK /\ InOrder /\ RegisterAgrees /\ AccessInv /\ DataInv

\* Every write to the register changes what its operation is for, as the
\* comments of qsb_fsdev_ep.h say, and nothing else, whatever the peripheral
\* changed since the driver read it; the status of a masked endpoint excepted.
AtomicEffect ==
    [][(todo # <<>> /\ IsRegisterOp(Head(todo)) /\ todo' = Tail(todo))
       => LET status == IF masked THEN StatRx \cup StatTx ELSE {}
          IN  reg' \ status = Intended(Head(todo), reg) \ status]_vars

\* All that was sent comes out and is polled, after every SET_CONFIGURATION too,
\* whatever toggle and buffer bits the one before has left.
Delivered ==
    []<>(todo = <<>> /\ Len(got) = sent /\ host_stage = "idle" /\ reg \cap CtrBits = {})
=============================================================================
