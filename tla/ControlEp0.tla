----------------------------- MODULE ControlEp0 -----------------------------
(***************************************************************************)
(* Control transfers on endpoint 0: the host, the endpoint's hardware, the *)
(* SETUP, OUT and IN handlers of qsb_control.c, what the requests of       *)
(* qsb_standard.c and usb_cdc.cpp change (address, configuration), and the *)
(* bus reset.                                                              *)
(*                                                                         *)
(* dev is what the firmware keeps, the endpoint register included; the     *)
(* handlers are functions of it, so that the order in which qsb_dev_poll() *)
(* calls them is visible.                                                  *)
(***************************************************************************)
EXTENDS Integers

CONSTANTS
    MaxPacketSize0,     \* bMaxPacketSize0 of the device descriptor (64)
    ctrl_buf_len,       \* size of the control buffer (256)
    Lengths,            \* values of wLength, and lengths of replies
    HostMay,            \* what the host may do besides orderly requests:
                        \* "abandon" a request whose IN packet it has not
                        \* fetched; send a SETUP packet ("hurry") or "reset"
                        \* the bus before the device has polled the end of
                        \* the transfer before
    MaxRequests         \* bound: SETUP packets and bus resets

ASSUME ControlAssumption ==
    /\ MaxPacketSize0 \in Nat \ {0} /\ ctrl_buf_len \in Nat
    /\ Lengths \subseteq Nat /\ HostMay \subseteq {"abandon", "hurry", "reset"}
    /\ MaxRequests \in Nat

VARIABLES
    dev,                \* control_state, ep_state_tx[0], current_config,
                        \* configured, STAT_TX, STAT_RX, packet buffer, address
    ctr_rx, ctr_tx,     \* CTR_RX and CTR_TX of the endpoint register
    rx_packet,          \* the packet received: SETUP or not, request, length
    reset,              \* the bus has been reset (RESET in ISTR)
    host,               \* stage and request of the host's control transfer,
                        \* bytes of it done, outcome of the last one, address
    requests            \* number of SETUP packets and resets so far

vars == <<dev, ctr_rx, ctr_tx, rx_packet, reset, host, requests>>

Least(a, b) == IF a <= b THEN a ELSE b

\* A request: its direction and wLength, the bytes the device has for it,
\* whether a handler knows it, and the state it changes.
DataRequests ==
    [dir : {"in", "out"}, wLength : Lengths, reply : Lengths, handled : BOOLEAN,
     effect : {"none"}]
PlainRequests ==
    [dir : {"out"}, wLength : {0}, reply : {0}, handled : {TRUE},
     effect : {"address", "configure", "deconfigure"}]
Requests == DataRequests \cup PlainRequests

sgl_buf_0_pkts == 0
sgl_buf_1_pkt == 1

----------------------------------------------------------------------------
(* The driver. *)

\* qsb_dev_ep_transmit_packet() on endpoint 0; its result is ignored.
TransmitPacket(d, len) ==
    IF d.ep_state_tx # sgl_buf_0_pkts
    THEN d
    ELSE [d EXCEPT !.packet = [first |-> d.first, len |-> len],
                   !.ep_state_tx = sgl_buf_1_pkt, !.stat_tx = "valid"]

\* stall(): both directions.
Stall(d) == [d EXCEPT !.stat_tx = "stall", !.stat_rx = "stall", !.state = "IDLE"]

----------------------------------------------------------------------------
(* The handlers of qsb_control.c. *)

\* Mutant: no zero-length packet.
NeedsZlpNever(d) == FALSE

\* The reply ends with a full packet and is shorter than announced.
NeedsZlp(d) == d.ctrl_len = MaxPacketSize0 /\ d.ctrl_len < d.wLength

SendDataIn(d) ==
    IF MaxPacketSize0 < d.ctrl_len
    THEN [TransmitPacket(d, MaxPacketSize0) EXCEPT
             !.state = "DATA_IN", !.first = @ + MaxPacketSize0,
             !.ctrl_len = @ - MaxPacketSize0, !.wLength = @ - MaxPacketSize0]
    ELSE [TransmitPacket(d, d.ctrl_len) EXCEPT
             !.state = IF NeedsZlp(d) THEN "DATA_IN" ELSE "LAST_DATA_IN",
             !.first = @ + d.ctrl_len, !.ctrl_len = 0]

\* Mutants: the reply is not limited to wLength; the address is set at once.
DispatchUnlimited(d) ==
    IF d.req.dir = "in" THEN [d EXCEPT !.ctrl_len = d.req.reply] ELSE d
DispatchAddress(d) ==
    [d EXCEPT !.ctrl_len = IF d.req.dir = "in" THEN Least(@, d.req.reply) ELSE @,
              !.address = IF d.req.effect = "address" THEN 1 ELSE @]

\* A handler answers with at most the bytes asked for; SET_CONFIGURATION acts
\* at once (cdc_set_config() takes note of it), SET_ADDRESS does not.
Dispatch(d) ==
    CASE d.req.effect = "configure"   ->
            [d EXCEPT !.current_config = 1, !.configured = 1]
      [] d.req.effect = "deconfigure" ->
            [d EXCEPT !.current_config = 0, !.configured = 0]
      [] d.req.dir = "in"             -> [d EXCEPT !.ctrl_len = Least(@, d.req.reply)]
      [] OTHER                        -> d

SubmitStatusIn(d) == [TransmitPacket(d, 0) EXCEPT !.state = "STATUS_IN"]

HandleRequestNoData(d) ==
    LET d1 == Dispatch([d EXCEPT !.first = 0, !.ctrl_len = d.wLength])
    IN  CASE ~d.req.handled                 -> Stall(d)
          [] d.req.handled /\ d.wLength > 0 -> SendDataIn(d1)
          [] d.req.handled /\ d.wLength = 0 -> SubmitStatusIn(d1)

ExpectOut(d) ==
    [d EXCEPT !.first = 0, !.ctrl_len = 0,
              !.state = IF d.wLength > MaxPacketSize0 THEN "DATA_OUT"
                                                      ELSE "LAST_DATA_OUT"]

\* Mutants: the length is not checked; a request that fills the buffer is refused.
PrepareDataOutUnchecked(d) == ExpectOut(d)
PrepareDataOutStrict(d) == IF d.wLength >= ctrl_buf_len THEN Stall(d) ELSE ExpectOut(d)

PrepareDataOut(d) == IF d.wLength > ctrl_buf_len THEN Stall(d) ELSE ExpectOut(d)

\* qsb_internal_control_setup().
ControlSetup(d, req) ==
    LET d1 == [d EXCEPT !.req = req, !.wLength = req.wLength]
    IN  IF req.wLength = 0 \/ req.dir = "in" THEN HandleRequestNoData(d1)
                                             ELSE PrepareDataOut(d1)

\* What is missing fits into one packet.
LastOut(d) == d.wLength - d.ctrl_len <= MaxPacketSize0

\* qsb_internal_control_out() for a packet of len bytes.
ControlOut(d, len) ==
    LET expected == Least(MaxPacketSize0, d.wLength - d.ctrl_len)
        d1 == [d EXCEPT !.ctrl_len = @ + expected]
    IN  CASE d.state \in {"DATA_OUT", "LAST_DATA_OUT"} /\ len < expected -> Stall(d)
          [] d.state = "DATA_OUT" /\ len >= expected ->
                [d1 EXCEPT !.state = IF LastOut(d1) THEN "LAST_DATA_OUT"
                                                    ELSE "DATA_OUT"]
          [] d.state = "LAST_DATA_OUT" /\ len >= expected ->
                IF d.req.handled THEN SubmitStatusIn(Dispatch(d1)) ELSE Stall(d1)
          [] d.state = "STATUS_OUT" -> [d EXCEPT !.state = "IDLE"]
          [] OTHER -> Stall(d)

\* The host has fetched a packet: qsb_internal_control_in().
ControlIn(d) ==
    CASE d.state = "DATA_IN"      -> SendDataIn(d)
      [] d.state = "LAST_DATA_IN" -> [d EXCEPT !.state = "STATUS_OUT"]
      [] d.state = "STATUS_IN"    ->
            [d EXCEPT !.state = "IDLE",
                      !.address = IF d.req.effect = "address" THEN 1 ELSE @]
      [] OTHER                    -> Stall(d)

----------------------------------------------------------------------------
(* The main loop. *)

\* A turn of the CTR loop of qsb_dev_poll(): the received packet first.  The
\* RX status is set to VALID whatever the handler did.
AfterRx(d) ==
    IF ctr_rx
    THEN [(IF rx_packet.setup THEN ControlSetup(d, rx_packet.req)
                              ELSE ControlOut(d, rx_packet.len))
             EXCEPT !.stat_rx = "valid"]
    ELSE d

AfterTx(d) ==
    IF ctr_tx THEN ControlIn([d EXCEPT !.ep_state_tx = sgl_buf_0_pkts]) ELSE d

\* The loop does not look for a reset that comes while it is running.
PollTransfer ==
    /\ ctr_rx \/ ctr_tx
    /\ dev' = AfterTx(AfterRx(dev))
    /\ ctr_rx' = FALSE /\ ctr_tx' = FALSE
    /\ UNCHANGED <<rx_packet, reset, host, requests>>

\* The RESET branch: qsb_internal_dev_reset().  configured, which
\* usb_cdc_is_connected() returns, and control_state are kept, and so are the
\* CTR flags: qsb_ep_set_all_rw_bits() writes ones to them.
PollReset ==
    /\ reset
    /\ reset' = FALSE
    /\ dev' = [dev EXCEPT !.current_config = 0, !.address = 0,
                          !.ep_state_tx = sgl_buf_0_pkts,
                          !.stat_tx = "nak", !.stat_rx = "valid"]
    /\ UNCHANGED <<ctr_rx, ctr_tx, rx_packet, host, requests>>

----------------------------------------------------------------------------
(* Host and hardware. *)

NoRequest == [dir |-> "out", wLength |-> 0, reply |-> 0, handled |-> TRUE,
              effect |-> "none"]

FirstStage(req) == CASE req.wLength = 0                     -> "status_in"
                     [] req.wLength > 0 /\ req.dir = "in"  -> "data_in"
                     [] req.wLength > 0 /\ req.dir = "out" -> "data_out"

\* A SETUP packet, which ends an unfinished request: the hardware sets both
\* directions to NAK.
HostSetup ==
    /\ ~reset /\ ~ctr_rx
    /\ ctr_tx => "hurry" \in HostMay
    /\ host.stage # "idle" /\ dev.stat_tx = "valid" => "abandon" \in HostMay
    /\ requests < MaxRequests
    /\ \E req \in Requests :
          /\ host' = [host EXCEPT !.stage = FirstStage(req), !.req = req,
                                  !.done = 0, !.outcome = "none"]
          /\ rx_packet' = [setup |-> TRUE, req |-> req, len |-> 8]
    /\ requests' = requests + 1
    /\ ctr_rx' = TRUE
    /\ dev' = [dev EXCEPT !.stat_tx = "nak", !.stat_rx = "nak"]
    /\ UNCHANGED <<ctr_tx, reset>>

\* The host fetches the packet submitted.
HostIn ==
    /\ ~reset /\ dev.stat_tx = "valid"
    /\ dev' = [dev EXCEPT !.stat_tx = "nak"]
    /\ ctr_tx' = TRUE
    /\ LET done == host.done + dev.packet.len
       IN  \/ /\ host.stage = "data_in"
              /\ host' = [host EXCEPT !.done = done,
                            !.stage = IF dev.packet.len < MaxPacketSize0
                                         \/ done = host.req.wLength
                                      THEN "status_out" ELSE "data_in"]
           \/ /\ host.stage = "status_in"
              /\ host' = [host EXCEPT !.stage = "idle", !.outcome = "ok",
                            !.address = IF host.req.effect = "address" THEN 1 ELSE @]
    /\ UNCHANGED <<ctr_rx, rx_packet, reset, requests>>

\* The host is told that the request has failed.
HostInStall ==
    /\ ~reset /\ host.stage \in {"data_in", "status_in"}
    /\ dev.stat_tx = "stall"
    /\ host' = [host EXCEPT !.stage = "idle", !.outcome = "stall"]
    /\ UNCHANGED <<dev, ctr_rx, ctr_tx, rx_packet, reset, requests>>

\* The host sends data, or the empty packet of the status stage.
HostOut ==
    /\ ~reset /\ ~ctr_rx /\ dev.stat_rx = "valid"
    /\ LET len == Least(MaxPacketSize0, host.req.wLength - host.done)
       IN  \/ /\ host.stage = "data_out"
              /\ rx_packet' = [setup |-> FALSE, req |-> NoRequest, len |-> len]
              /\ host' = [host EXCEPT !.done = @ + len,
                            !.stage = IF host.done + len = host.req.wLength
                                      THEN "status_in" ELSE "data_out"]
           \/ /\ host.stage = "status_out"
              /\ rx_packet' = [setup |-> FALSE, req |-> NoRequest, len |-> 0]
              /\ host' = [host EXCEPT !.stage = "idle", !.outcome = "ok"]
    /\ ctr_rx' = TRUE
    /\ dev' = [dev EXCEPT !.stat_rx = "nak"]
    /\ UNCHANGED <<ctr_tx, reset, requests>>

\* The reset clears the endpoint registers but for the CTR flags.
BusReset ==
    /\ requests < MaxRequests /\ ~reset
    /\ ctr_rx \/ ctr_tx => "reset" \in HostMay
    /\ requests' = requests + 1
    /\ reset' = TRUE
    /\ dev' = [dev EXCEPT !.stat_tx = "disabled", !.stat_rx = "disabled"]
    /\ host' = [host EXCEPT !.stage = "idle", !.outcome = "none", !.address = 0]
    /\ rx_packet' = [rx_packet EXCEPT !.setup = FALSE]
    /\ UNCHANGED <<ctr_rx, ctr_tx>>

----------------------------------------------------------------------------
\* The state after the first bus reset.
Init ==
    /\ dev = [state |-> "IDLE", req |-> NoRequest, wLength |-> 0, first |-> 0,
              ctrl_len |-> 0, ep_state_tx |-> sgl_buf_0_pkts,
              packet |-> [first |-> 0, len |-> 0],
              stat_tx |-> "nak", stat_rx |-> "valid",
              address |-> 0, current_config |-> 0, configured |-> 0]
    /\ ctr_rx = FALSE /\ ctr_tx = FALSE
    /\ rx_packet = [setup |-> FALSE, req |-> NoRequest, len |-> 0]
    /\ reset = FALSE
    /\ host = [stage |-> "idle", req |-> NoRequest, done |-> 0,
               outcome |-> "none", address |-> 0]
    /\ requests = 0

Next == PollTransfer \/ PollReset \/ HostSetup \/ HostIn \/ HostInStall
        \/ HostOut \/ BusReset

\* The main loop polls for ever; a host that has started a request goes on with
\* it as far as the device lets it.  Nobody owes a request or a reset.
Fairness ==
    /\ WF_vars(PollTransfer) /\ WF_vars(PollReset)
    /\ WF_vars(HostIn) /\ WF_vars(HostInStall) /\ WF_vars(HostOut)

Spec == Init /\ [][Next]_vars /\ Fairness

----------------------------------------------------------------------------
(* Properties *)

States == {"IDLE", "DATA_IN", "LAST_DATA_IN", "STATUS_IN", "DATA_OUT",
           "LAST_DATA_OUT", "STATUS_OUT"}

\* What dev may hold at all.
AnyRequest == [dir : {"in", "out"}, wLength : Nat, reply : Nat, handled : BOOLEAN,
               effect : {"none", "address", "configure", "deconfigure"}]
Devices == [state : States, req : AnyRequest, wLength : Nat, first : Nat,
            ctrl_len : Nat, ep_state_tx : {sgl_buf_0_pkts, sgl_buf_1_pkt},
            packet : [first : Nat, len : 0 .. MaxPacketSize0],
            stat_tx : {"disabled", "nak", "valid", "stall"},
            stat_rx : {"disabled", "nak", "valid", "stall"},
            address : 0 .. 1, current_config : 0 .. 1, configured : 0 .. 1]

TypeOK ==
    /\ dev \in Devices
    /\ dev.state \in {"DATA_OUT", "LAST_DATA_OUT", "STATUS_IN"}
          => dev.ctrl_len <= ctrl_buf_len
    /\ host \in [stage : {"idle", "data_in", "data_out", "status_in", "status_out"},
                 req : Requests \cup {NoRequest}, done : Nat,
                 outcome : {"none", "ok", "stall"}, address : 0 .. 1]
    /\ rx_packet \in [setup : BOOLEAN, req : Requests \cup {NoRequest}, len : Nat]
    /\ ctr_rx \in BOOLEAN /\ ctr_tx \in BOOLEAN /\ reset \in BOOLEAN
    /\ requests \in 0 .. MaxRequests

\* The host gets the reply, all of it, in order and not more than it asked for,
\* and knows where it ends: by its length, a short packet or an empty one.
ReplyIsComplete ==
    /\ host.stage = "status_out"
          => host.done = Least(host.req.wLength, host.req.reply)
    /\ host.stage = "data_in" /\ dev.stat_tx = "valid" => dev.packet.first = host.done

Possible == host.req.handled
            /\ (host.req.dir = "out" => host.req.wLength <= ctrl_buf_len)
DataArrived ==
    host.req.dir = "out" /\ host.req.wLength > 0
        => host.done = host.req.wLength /\ dev.ctrl_len = host.req.wLength
ConfigurationSet ==
    host.req.effect \in {"configure", "deconfigure"}
        => /\ dev.current_config = dev.configured
           /\ dev.current_config = IF host.req.effect = "configure" THEN 1 ELSE 0

\* Host and device agree on how a request ended: it succeeds if and only if a
\* handler knew it and its data fitted, with all of the data received, and with
\* SET_CONFIGURATION carried out.
OutcomesAgree ==
    /\ host.outcome = "ok" => Possible /\ DataArrived /\ ConfigurationSet
    /\ host.outcome = "stall" => ~Possible

\* The address changes when the status stage of SET_ADDRESS is over, not
\* before: during a request the device answers at the address the host uses.
AddressesAgree == ~reset /\ host.stage # "idle" => dev.address = host.address

\* No request hangs, whatever request was given up before it.
RequestsEnd == host.stage # "idle" ~> host.stage = "idle"

\* "submit STATUS IN packet": once the device has handled what the host sent,
\* a host that waits for the status packet finds it, or a stall.
StatusSubmitted ==
    host.stage = "status_in" /\ ~reset /\ ~ctr_rx => dev.stat_tx # "nak"

(* The phases of a control transfer, between a host that at most gives up *)
(* requests and the device: the inductive invariant.                      *)

PacketWaits == ~ctr_tx /\ dev.stat_tx = "valid" /\ dev.ep_state_tx = sgl_buf_1_pkt
PacketFetched == ctr_tx /\ dev.stat_tx = "nak" /\ dev.ep_state_tx = sgl_buf_1_pkt
NoPacket == ~ctr_tx /\ dev.stat_tx # "valid"

\* The device has the host's request and, so far, the same address.
Serving == dev.req = host.req /\ host.outcome = "none" /\ dev.address = host.address

Resetting == /\ reset /\ ~ctr_rx /\ ~ctr_tx
             /\ host.stage = "idle" /\ host.outcome = "none" /\ host.address = 0
             /\ dev.stat_tx = "disabled"

AtRest == /\ ~reset /\ ~ctr_rx /\ NoPacket
          /\ host.stage = "idle" /\ dev.address = host.address

SetupReceived ==
    /\ ~reset /\ ctr_rx /\ NoPacket /\ dev.stat_tx = "nak"
    /\ rx_packet.setup /\ rx_packet.req = host.req
    /\ host.stage = FirstStage(host.req) /\ host.req \in Requests
    /\ host.done = 0 /\ host.outcome = "none" /\ dev.address = host.address

\* The bytes of the reply: those before dev.first are in packets, ctrl_len are
\* left, and wLength goes down with them.
ReplyLen == Least(host.req.wLength, host.req.reply)
ReplyAdvances ==
    /\ dev.first + dev.ctrl_len = ReplyLen
    /\ dev.ctrl_len > 0 => dev.first + dev.wLength = host.req.wLength

\* The packet that ends the reply, for the host too, is the last one.
Replying ==
    /\ ~reset /\ ~ctr_rx /\ Serving /\ Possible
    /\ host.stage = "data_in" /\ host.req.dir = "in" /\ ReplyAdvances
    /\ \/ /\ PacketWaits /\ dev.packet.first = host.done
          /\ dev.first = host.done + dev.packet.len
          /\ \/ /\ dev.state = "DATA_IN" /\ dev.packet.len = MaxPacketSize0
                /\ dev.first < host.req.wLength
             \/ /\ dev.state = "LAST_DATA_IN" /\ dev.ctrl_len = 0
                /\ dev.packet.len < MaxPacketSize0 \/ dev.first = host.req.wLength
       \/ /\ PacketFetched /\ dev.first = host.done
          /\ dev.state = "DATA_IN" /\ dev.first < host.req.wLength

\* The reply has arrived; the device may not know yet.
ReplySeen == \/ PacketFetched /\ dev.state = "LAST_DATA_IN"
             \/ NoPacket /\ dev.state = "STATUS_OUT"
Replied == /\ ~reset /\ ~ctr_rx /\ Serving /\ Possible /\ ReplySeen
           /\ host.stage = "status_out" /\ host.req.dir = "in" /\ host.done = ReplyLen
StatusSent == /\ ~reset /\ ctr_rx /\ ~rx_packet.setup /\ ReplySeen
              /\ host.stage = "idle" /\ host.req.dir = "in"
              /\ dev.address = host.address

\* The data of a request that fits arrive, packet by packet.
Receiving ==
    /\ ~reset /\ Serving /\ NoPacket /\ dev.stat_tx = "nak"
    /\ host.req.dir = "out" /\ host.req.effect = "none"
    /\ host.req.wLength <= ctrl_buf_len
    /\ dev.wLength = host.req.wLength /\ dev.ctrl_len < dev.wLength
    /\ dev.state = IF LastOut(dev) THEN "LAST_DATA_OUT" ELSE "DATA_OUT"
    /\ host.stage = IF host.done = host.req.wLength THEN "status_in" ELSE "data_out"
    /\ \/ ~ctr_rx /\ host.done = dev.ctrl_len
       \/ /\ ctr_rx /\ ~rx_packet.setup /\ host.done = dev.ctrl_len + rx_packet.len
          /\ rx_packet.len = Least(MaxPacketSize0, dev.wLength - dev.ctrl_len)

\* A host that does not notice the stall at once sends more of its data.
Refused == /\ ~reset /\ ~ctr_tx /\ dev.stat_tx = "stall" /\ dev.state = "IDLE"
           /\ ctr_rx => ~rx_packet.setup
           /\ ~Possible /\ dev.address = host.address
           /\ host.done <= host.req.wLength
           /\ \/ /\ host.stage \in {"data_in", "data_out", "status_in"}
                 /\ host.outcome = "none"
              \/ host.stage = "idle" /\ host.outcome = "stall" /\ ctr_rx

Confirming == /\ ~reset /\ ~ctr_rx /\ Serving /\ Possible /\ PacketWaits
              /\ dev.state = "STATUS_IN" /\ host.stage = "status_in"
              /\ dev.packet.len = 0 /\ DataArrived /\ ConfigurationSet
Confirmed == /\ ~reset /\ ~ctr_rx /\ PacketFetched /\ dev.req = host.req
             /\ dev.state = "STATUS_IN" /\ host.stage = "idle"
             /\ host.address = IF host.req.effect = "address" THEN 1 ELSE dev.address

\* A packet that was never fetched is in the way of the next one, which is
\* dropped: the request given up before blocks this one.
Blocked == dev.ep_state_tx = sgl_buf_1_pkt /\ NoPacket /\ ~reset
Stuck == /\ ~ctr_rx /\ Blocked /\ dev.stat_tx = "nak"
         /\ host.stage \in {"data_in", "status_in"}
         /\ host.outcome = "none" /\ dev.address = host.address

Phase == \/ Resetting \/ AtRest \/ SetupReceived \/ Replying \/ Replied \/ StatusSent
         \/ Receiving \/ Refused \/ Confirming \/ Confirmed \/ Stuck

ControlInv == /\ TypeOK /\ OutcomesAgree /\ Phase
              /\ Blocked => "abandon" \in HostMay
=============================================================================
