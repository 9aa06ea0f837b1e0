-------------------------- MODULE ControlEp0Proofs --------------------------
(* Theorems about control transfers (module ControlEp0), for every packet   *)
(* and buffer size and all requests, with a host that waits for the device  *)
(* to have noted the end of a transfer before the next one, but may give up *)
(* a request at any point.                                                  *)
EXTENDS ControlEp0, TLAPS

USE DEF sgl_buf_0_pkts, sgl_buf_1_pkt

\* Neither a SETUP packet nor a reset comes while a flag is still raised.
PatientHost == HostMay \subseteq {"abandon"}

----------------------------------------------------------------------------
(* The handlers. *)

LEMMA LeastFacts ==
    ASSUME NEW a \in Nat, NEW b \in Nat
    PROVE  /\ Least(a, b) \in Nat /\ Least(a, b) <= a /\ Least(a, b) <= b
           /\ Least(a, b) = a \/ Least(a, b) = b
BY DEF Least

\* What no handler but those of requests changes.
Kept(d, e) ==
    /\ e.req = d.req /\ e.address = d.address
    /\ e.current_config = d.current_config /\ e.configured = d.configured

\* What submitting a packet changes, and what becomes of it.
Submitted(d, e, len) ==
    IF d.ep_state_tx = 0
    THEN /\ e.packet.first = d.first /\ e.packet.len = len
         /\ e.ep_state_tx = 1 /\ e.stat_tx = "valid"
    ELSE e.packet = d.packet /\ e.ep_state_tx = 1 /\ e.stat_tx = d.stat_tx

LEMMA TransmitFacts ==
    ASSUME NEW d \in Devices, NEW len \in 0 .. MaxPacketSize0
    PROVE  LET e == TransmitPacket(d, len)
           IN  /\ e \in Devices /\ Kept(d, e) /\ Submitted(d, e, len)
               /\ e.state = d.state /\ e.wLength = d.wLength /\ e.first = d.first
               /\ e.ctrl_len = d.ctrl_len /\ e.stat_rx = d.stat_rx
<1>1. CASE d.ep_state_tx # 0
  BY <1>1 DEF TransmitPacket, Devices, Kept, Submitted
<1>2. CASE d.ep_state_tx = 0
  <2> DEFINE p == [first |-> d.first, len |-> len]
  <2>1. p \in [first : Nat, len : 0 .. MaxPacketSize0] /\ p.first = d.first /\ p.len = len
    BY DEF Devices
  <2>2. TransmitPacket(d, len)
          = [d EXCEPT !.packet = p, !.ep_state_tx = 1, !.stat_tx = "valid"]
    BY <1>2 DEF TransmitPacket
  <2> HIDE DEF p
  <2> QED BY <1>2, <2>1, <2>2 DEF Devices, Kept, Submitted
<1> QED BY <1>1, <1>2

\* The next packet of the reply: as much as there is and fits.
LEMMA SendFacts ==
    ASSUME NEW d \in Devices, d.ctrl_len <= d.wLength
    PROVE  LET e == SendDataIn(d)
               n == Least(MaxPacketSize0, d.ctrl_len)
           IN  /\ n \in 0 .. MaxPacketSize0 /\ n <= d.ctrl_len
               /\ e \in Devices /\ Kept(d, e) /\ Submitted(d, e, n)
               /\ e.first = d.first + n /\ e.ctrl_len = d.ctrl_len - n
               /\ \/ /\ d.ctrl_len > MaxPacketSize0 /\ n = MaxPacketSize0
                     /\ e.state = "DATA_IN" /\ e.wLength = d.wLength - n
                  \/ /\ d.ctrl_len <= MaxPacketSize0 /\ n = d.ctrl_len
                     /\ e.wLength = d.wLength
                     /\ e.state = IF n = MaxPacketSize0 /\ n < d.wLength
                                  THEN "DATA_IN" ELSE "LAST_DATA_IN"
<1> DEFINE M == MaxPacketSize0
           n == Least(M, d.ctrl_len)
           t == TransmitPacket(d, n)
<1>1. M \in Nat /\ M > 0 /\ d.ctrl_len \in Nat /\ d.wLength \in Nat /\ d.first \in Nat
  BY ControlAssumption DEF Devices
<1>2. n \in 0 .. M /\ n <= d.ctrl_len
  <2>1. n \in Nat /\ n <= M /\ n <= d.ctrl_len
    BY <1>1, LeastFacts
  <2> HIDE DEF n
  <2> QED BY <1>1, <2>1
<1>3. /\ t \in Devices /\ Kept(d, t) /\ Submitted(d, t, n)
      /\ t.wLength = d.wLength /\ t.first = d.first /\ t.ctrl_len = d.ctrl_len
  BY <1>2, TransmitFacts
<1>4. CASE M < d.ctrl_len
  <2>1. n = M /\ d.wLength - M \in Nat
    BY <1>1, <1>4 DEF Least
  <2>2. SendDataIn(d) = [t EXCEPT !.state = "DATA_IN", !.first = @ + M,
                                  !.ctrl_len = @ - M, !.wLength = @ - M]
    BY <1>4, <2>1 DEF SendDataIn
  <2>3. t.first + M \in Nat /\ t.ctrl_len - M \in Nat /\ t.wLength - M \in Nat
    BY <1>1, <1>3, <1>4, <2>1
  <2> HIDE DEF t, n
  <2>4. SendDataIn(d) \in Devices
    BY <1>3, <2>2, <2>3 DEF Devices, States
  <2>5. /\ SendDataIn(d).first = d.first + M /\ SendDataIn(d).ctrl_len = d.ctrl_len - M
        /\ SendDataIn(d).wLength = d.wLength - M /\ SendDataIn(d).state = "DATA_IN"
    BY <1>3, <2>2 DEF Devices
  <2>6. Kept(d, SendDataIn(d)) /\ Submitted(d, SendDataIn(d), n)
    BY <1>3, <2>2 DEF Devices, Kept, Submitted
  <2> QED BY <1>2, <1>4, <2>1, <2>4, <2>5, <2>6 DEF n
<1>5. CASE ~(M < d.ctrl_len)
  <2>1. n = d.ctrl_len /\ d.ctrl_len <= M
    BY <1>1, <1>5 DEF Least
  <2> DEFINE s == IF NeedsZlp(d) THEN "DATA_IN" ELSE "LAST_DATA_IN"
  <2>2. SendDataIn(d) = [t EXCEPT !.state = s, !.first = @ + d.ctrl_len, !.ctrl_len = 0]
    BY <1>5, <2>1 DEF SendDataIn
  <2>3. s = IF n = M /\ n < d.wLength THEN "DATA_IN" ELSE "LAST_DATA_IN"
    BY <2>1 DEF NeedsZlp
  <2>4. s \in States
    BY DEF States
  <2>5. t.first + d.ctrl_len \in Nat
    BY <1>1, <1>3
  <2> HIDE DEF t, n, s
  <2>6. SendDataIn(d) \in Devices
    <3>1. t \in Devices
      BY <1>3
    <3>2. \A f \in Nat : [t EXCEPT !.state = s, !.first = f, !.ctrl_len = 0] \in Devices
      BY <2>4, <3>1 DEF Devices
    <3> QED BY <2>2, <2>5, <3>2
  <2>7. /\ SendDataIn(d).first = d.first + d.ctrl_len /\ SendDataIn(d).ctrl_len = 0
        /\ SendDataIn(d).wLength = d.wLength /\ SendDataIn(d).state = s
    BY <1>3, <2>2 DEF Devices
  <2>8. Kept(d, SendDataIn(d)) /\ Submitted(d, SendDataIn(d), n)
    BY <1>3, <2>2 DEF Devices, Kept, Submitted
  <2>9. d.ctrl_len - n = 0
    BY <1>1, <2>1
  <2> QED BY <1>2, <2>1, <2>3, <2>6, <2>7, <2>8, <2>9 DEF n
<1> QED BY <1>4, <1>5

LEMMA StallFacts ==
    ASSUME NEW d \in Devices
    PROVE  LET e == Stall(d)
           IN  /\ e \in Devices /\ Kept(d, e)
               /\ e.state = "IDLE" /\ e.stat_tx = "stall"
               /\ e.ep_state_tx = d.ep_state_tx /\ e.ctrl_len = d.ctrl_len
BY DEF Stall, Devices, Kept, States

LEMMA ConfigTyped ==
    ASSUME NEW d \in Devices, NEW c \in 0 .. 1
    PROVE  [d EXCEPT !.current_config = c, !.configured = c] \in Devices
BY DEF Devices

\* What a request changes: its bytes, and the configuration.
LEMMA DispatchFacts ==
    ASSUME NEW d \in Devices,
           d.req.effect \in {"configure", "deconfigure"}
             => d.req.dir = "out" /\ d.req.wLength = 0
    PROVE  LET e == Dispatch(d)
           IN  /\ e \in Devices /\ e.req = d.req /\ e.address = d.address
               /\ e.state = d.state /\ e.wLength = d.wLength /\ e.first = d.first
               /\ e.ep_state_tx = d.ep_state_tx /\ e.stat_tx = d.stat_tx
               /\ e.packet = d.packet
               /\ e.ctrl_len = IF d.req.dir = "in" THEN Least(d.ctrl_len, d.req.reply)
                                                   ELSE d.ctrl_len
               /\ d.req.effect \in {"configure", "deconfigure"}
                     => /\ e.current_config = e.configured
                        /\ e.current_config = IF d.req.effect = "configure" THEN 1 ELSE 0
<1>1. d.ctrl_len \in Nat /\ d.req.reply \in Nat
  BY DEF Devices, AnyRequest
<1>2. Least(d.ctrl_len, d.req.reply) \in Nat
  BY <1>1, LeastFacts
<1>3. CASE d.req.effect = "configure"
  <2>1. Dispatch(d) = [d EXCEPT !.current_config = 1, !.configured = 1]
    BY <1>3 DEF Dispatch
  <2>2. d.req.dir # "in"
    BY <1>3
  <2>3. Dispatch(d) \in Devices
    <3>1. 1 \in 0 .. 1
      OBVIOUS
    <3>2. [d EXCEPT !.current_config = 1, !.configured = 1] \in Devices
      BY <3>1, ConfigTyped, Zenon
    <3> QED BY <2>1, <3>2, Zenon
  <2>4. /\ Dispatch(d).current_config = 1 /\ Dispatch(d).configured = 1
        /\ Dispatch(d).req = d.req /\ Dispatch(d).address = d.address
        /\ Dispatch(d).state = d.state /\ Dispatch(d).wLength = d.wLength
        /\ Dispatch(d).first = d.first /\ Dispatch(d).ep_state_tx = d.ep_state_tx
        /\ Dispatch(d).stat_tx = d.stat_tx /\ Dispatch(d).packet = d.packet
        /\ Dispatch(d).ctrl_len = d.ctrl_len
    BY <2>1 DEF Devices
  <2> QED BY <1>3, <2>2, <2>3, <2>4
<1>4. CASE d.req.effect = "deconfigure"
  <2>1. Dispatch(d) = [d EXCEPT !.current_config = 0, !.configured = 0]
    BY <1>4 DEF Dispatch
  <2>2. d.req.dir # "in"
    BY <1>4
  <2>3. Dispatch(d) \in Devices
    <3>1. 0 \in 0 .. 1
      OBVIOUS
    <3>2. [d EXCEPT !.current_config = 0, !.configured = 0] \in Devices
      BY <3>1, ConfigTyped, Zenon
    <3> QED BY <2>1, <3>2, Zenon
  <2>4. /\ Dispatch(d).current_config = 0 /\ Dispatch(d).configured = 0
        /\ Dispatch(d).req = d.req /\ Dispatch(d).address = d.address
        /\ Dispatch(d).state = d.state /\ Dispatch(d).wLength = d.wLength
        /\ Dispatch(d).first = d.first /\ Dispatch(d).ep_state_tx = d.ep_state_tx
        /\ Dispatch(d).stat_tx = d.stat_tx /\ Dispatch(d).packet = d.packet
        /\ Dispatch(d).ctrl_len = d.ctrl_len
    BY <2>1 DEF Devices
  <2> QED BY <1>4, <2>2, <2>3, <2>4
<1>5. CASE d.req.effect \notin {"configure", "deconfigure"} /\ d.req.dir = "in"
  <2>1. Dispatch(d) = [d EXCEPT !.ctrl_len = Least(d.ctrl_len, d.req.reply)]
    BY <1>5 DEF Dispatch, Devices
  <2> QED BY <1>2, <1>5, <2>1 DEF Devices
<1>6. CASE d.req.effect \notin {"configure", "deconfigure"} /\ d.req.dir # "in"
  <2>1. Dispatch(d) = d
    BY <1>6 DEF Dispatch
  <2> QED BY <1>6, <2>1
<1> QED BY <1>3, <1>4, <1>5, <1>6

\* qsb_dev_poll() itself sets a field of the register before or after a handler.
LEMMA RxValidFacts ==
    ASSUME NEW d \in Devices
    PROVE  LET e == [d EXCEPT !.stat_rx = "valid"]
           IN  /\ e \in Devices /\ Kept(d, e)
               /\ e.state = d.state /\ e.wLength = d.wLength /\ e.first = d.first
               /\ e.ctrl_len = d.ctrl_len /\ e.ep_state_tx = d.ep_state_tx
               /\ e.packet = d.packet /\ e.stat_tx = d.stat_tx
BY DEF Devices, Kept

LEMMA FreeTxFacts ==
    ASSUME NEW d \in Devices
    PROVE  LET e == [d EXCEPT !.ep_state_tx = 0]
           IN  /\ e \in Devices /\ Kept(d, e)
               /\ e.state = d.state /\ e.wLength = d.wLength /\ e.first = d.first
               /\ e.ctrl_len = d.ctrl_len /\ e.ep_state_tx = 0
               /\ e.packet = d.packet /\ e.stat_tx = d.stat_tx
BY DEF Devices, Kept

\* A request begins: what the SETUP packet says, and nothing sent or received.
LEMMA BeginFacts ==
    ASSUME NEW d \in Devices, NEW req \in AnyRequest
    PROVE  LET e == [d EXCEPT !.req = req, !.wLength = req.wLength]
               f == [e EXCEPT !.first = 0, !.ctrl_len = e.wLength]
           IN  /\ e \in Devices /\ e.req = req /\ e.wLength = req.wLength
               /\ e.address = d.address /\ e.ep_state_tx = d.ep_state_tx
               /\ e.stat_tx = d.stat_tx /\ e.ctrl_len = d.ctrl_len
               /\ f \in Devices /\ f.req = req /\ f.wLength = req.wLength
               /\ f.address = d.address /\ f.ep_state_tx = d.ep_state_tx
               /\ f.stat_tx = d.stat_tx /\ f.first = 0 /\ f.ctrl_len = req.wLength
<1> DEFINE e == [d EXCEPT !.req = req, !.wLength = req.wLength]
<1>1. req.wLength \in Nat
  BY DEF AnyRequest
<1>2. /\ e \in Devices /\ e.req = req /\ e.wLength = req.wLength
      /\ e.address = d.address /\ e.ep_state_tx = d.ep_state_tx
      /\ e.stat_tx = d.stat_tx /\ e.ctrl_len = d.ctrl_len
  BY <1>1 DEF Devices
<1> DEFINE f == [e EXCEPT !.first = 0, !.ctrl_len = e.wLength]
<1> HIDE DEF e
<1>3. /\ f \in Devices /\ f.req = e.req /\ f.wLength = e.wLength
      /\ f.address = e.address /\ f.ep_state_tx = e.ep_state_tx
      /\ f.stat_tx = e.stat_tx /\ f.first = 0 /\ f.ctrl_len = e.wLength
  BY <1>1, <1>2 DEF Devices
<1> QED BY <1>2, <1>3 DEF e

LEMMA ExpectFacts ==
    ASSUME NEW d \in Devices
    PROVE  LET e == ExpectOut(d)
           IN  /\ e \in Devices /\ Kept(d, e)
               /\ e.wLength = d.wLength /\ e.ctrl_len = 0
               /\ e.ep_state_tx = d.ep_state_tx /\ e.stat_tx = d.stat_tx
               /\ e.state = IF d.wLength > MaxPacketSize0 THEN "DATA_OUT"
                                                          ELSE "LAST_DATA_OUT"
<1> DEFINE s == IF d.wLength > MaxPacketSize0 THEN "DATA_OUT" ELSE "LAST_DATA_OUT"
<1>1. ExpectOut(d) = [d EXCEPT !.first = 0, !.ctrl_len = 0, !.state = s]
  BY DEF ExpectOut
<1>2. s \in States
  BY DEF States
<1> DEFINE n == 0
           e == [d EXCEPT !.first = n, !.ctrl_len = n, !.state = s]
<1>3. n \in Nat /\ n = 0
  OBVIOUS
<1> HIDE DEF s, n
<1>4. /\ e \in Devices /\ Kept(d, e) /\ e.wLength = d.wLength /\ e.ctrl_len = n
      /\ e.ep_state_tx = d.ep_state_tx /\ e.stat_tx = d.stat_tx /\ e.state = s
  BY <1>2, <1>3 DEF Devices, Kept
<1>5. ExpectOut(d) = e
  BY <1>1 DEF n
<1> HIDE DEF e
<1> QED BY <1>3, <1>4, <1>5 DEF s

\* An empty packet is submitted for the status stage.
LEMMA StatusFacts ==
    ASSUME NEW d \in Devices
    PROVE  LET e == SubmitStatusIn(d)
           IN  /\ e \in Devices /\ Kept(d, e) /\ Submitted(d, e, 0)
               /\ e.state = "STATUS_IN" /\ e.ctrl_len = d.ctrl_len
<1> DEFINE t == TransmitPacket(d, 0)
<1>1. 0 \in 0 .. MaxPacketSize0
  BY ControlAssumption
<1>2. t \in Devices /\ Kept(d, t) /\ Submitted(d, t, 0) /\ t.ctrl_len = d.ctrl_len
  BY <1>1, TransmitFacts
<1>3. SubmitStatusIn(d) = [t EXCEPT !.state = "STATUS_IN"]
  BY DEF SubmitStatusIn
<1> HIDE DEF t
<1> QED BY <1>2, <1>3 DEF Devices, States, Kept, Submitted

----------------------------------------------------------------------------
(* What the type invariant says of single values. *)

LEMMA RequestFacts ==
    ASSUME NEW req \in Requests \cup {NoRequest}
    PROVE  /\ req \in AnyRequest
           /\ req.wLength \in Nat /\ req.reply \in Nat /\ req.handled \in BOOLEAN
           /\ req.dir \in {"in", "out"}
           /\ req.effect # "none" => req.dir = "out" /\ req.wLength = 0 /\ req.handled
<1>1. CASE req \in DataRequests
  BY <1>1, ControlAssumption DEF DataRequests, AnyRequest
<1>2. CASE req \in PlainRequests
  <2>1. /\ req.dir = "out" /\ req.wLength = 0 /\ req.reply = 0
        /\ req.effect \in {"address", "configure", "deconfigure"}
    BY <1>2 DEF PlainRequests
  <2>2. req.handled
    BY <1>2 DEF PlainRequests
  <2>3. req \in AnyRequest
    <3>1. /\ {"out"} \subseteq {"in", "out"} /\ {0} \subseteq Nat
          /\ {TRUE} \subseteq BOOLEAN
      OBVIOUS
    <3> QED BY <1>2, <3>1 DEF PlainRequests, AnyRequest
  <2> QED BY <2>1, <2>2, <2>3
<1>3. CASE req = NoRequest
  BY <1>3 DEF NoRequest, AnyRequest
<1> QED BY <1>1, <1>2, <1>3 DEF Requests

LEMMA TypeFacts ==
    ASSUME TypeOK
    PROVE  /\ dev \in Devices
           /\ dev.wLength \in Nat /\ dev.first \in Nat /\ dev.ctrl_len \in Nat
           /\ dev.ep_state_tx \in 0 .. 1 /\ dev.packet.len \in 0 .. MaxPacketSize0
           /\ host.req \in Requests \cup {NoRequest} /\ host.done \in Nat
           /\ host.address \in 0 .. 1 /\ rx_packet.len \in Nat
           /\ ctr_rx \in BOOLEAN /\ ctr_tx \in BOOLEAN /\ reset \in BOOLEAN
           /\ MaxPacketSize0 \in Nat /\ MaxPacketSize0 > 0 /\ ctrl_buf_len \in Nat
BY ControlAssumption DEF TypeOK, Devices

\* The main loop changes only what the firmware keeps.
LEMMA PollTyped ==
    ASSUME TypeOK, PollTransfer, dev' \in Devices,
           dev'.state \in {"DATA_OUT", "LAST_DATA_OUT", "STATUS_IN"}
             => dev'.ctrl_len <= ctrl_buf_len
    PROVE  TypeOK'
BY DEF TypeOK, PollTransfer

\* Without an outcome there is nothing to agree on.
LEMMA NoOutcome == host.outcome = "none" => OutcomesAgree
BY DEF OutcomesAgree

----------------------------------------------------------------------------
(* A SETUP packet is handled. *)

LEMMA PollSetup ==
    ASSUME ControlInv, SetupReceived, PollTransfer
    PROVE  ControlInv'
<1> DEFINE c == ControlSetup(dev, host.req)
           d1 == [dev EXCEPT !.req = host.req, !.wLength = host.req.wLength]
<1>1. TypeOK /\ (Blocked => "abandon" \in HostMay)
  BY DEF ControlInv
<1>2. /\ ~reset /\ ctr_rx /\ ~ctr_tx /\ dev.stat_tx = "nak"
      /\ rx_packet.setup /\ rx_packet.req = host.req
      /\ host.stage = FirstStage(host.req)
      /\ host.done = 0 /\ host.outcome = "none" /\ dev.address = host.address
  BY DEF SetupReceived, NoPacket
<1>3. /\ dev' = [c EXCEPT !.stat_rx = "valid"]
      /\ ~ctr_rx' /\ ~ctr_tx' /\ UNCHANGED <<rx_packet, reset, host, requests>>
  BY <1>2 DEF PollTransfer, AfterRx, AfterTx
<1>4. /\ dev \in Devices /\ dev.ep_state_tx \in 0 .. 1
      /\ MaxPacketSize0 \in Nat /\ MaxPacketSize0 > 0 /\ ctrl_buf_len \in Nat
  BY <1>1, TypeFacts
<1>5. /\ host.req \in AnyRequest /\ host.req.wLength \in Nat /\ host.req.reply \in Nat
      /\ host.req.handled \in BOOLEAN /\ host.req.dir \in {"in", "out"}
      /\ host.req.effect # "none"
           => host.req.dir = "out" /\ host.req.wLength = 0 /\ host.req.handled
  BY <1>1, TypeFacts, RequestFacts
<1>6. /\ d1 \in Devices /\ d1.req = host.req /\ d1.wLength = host.req.wLength
      /\ d1.address = dev.address /\ d1.ep_state_tx = dev.ep_state_tx
      /\ d1.stat_tx = dev.stat_tx
  BY <1>4, <1>5, BeginFacts, Zenon
<1>7. OutcomesAgree'
  <2>1. (host.outcome = "none" => OutcomesAgree)'
    BY NoOutcome, PTL
  <2> QED BY <1>2, <1>3, <2>1
<1>8. Blocked' /\ dev.ep_state_tx = 1 => "abandon" \in HostMay
  BY <1>1, <1>2 DEF Blocked, NoPacket
<1> DEFINE Result ==
        /\ c \in Devices /\ c.req = host.req /\ c.address = dev.address
        /\ c.state \in {"DATA_OUT", "LAST_DATA_OUT", "STATUS_IN"}
             => c.ctrl_len <= ctrl_buf_len
<1>9. ASSUME Result
      PROVE  /\ TypeOK' /\ dev'.req = host.req /\ dev'.address = dev.address
             /\ dev'.state = c.state /\ dev'.wLength = c.wLength /\ dev'.first = c.first
             /\ dev'.ctrl_len = c.ctrl_len /\ dev'.ep_state_tx = c.ep_state_tx
             /\ dev'.packet = c.packet /\ dev'.stat_tx = c.stat_tx
             /\ dev'.current_config = c.current_config
             /\ dev'.configured = c.configured
  <2> HIDE DEF c
  <2>1. /\ dev' \in Devices /\ Kept(c, dev')
        /\ dev'.state = c.state /\ dev'.wLength = c.wLength /\ dev'.first = c.first
        /\ dev'.ctrl_len = c.ctrl_len /\ dev'.ep_state_tx = c.ep_state_tx
        /\ dev'.packet = c.packet /\ dev'.stat_tx = c.stat_tx
    BY <1>3, <1>9, RxValidFacts
  <2>2. TypeOK'
    BY <1>1, <1>9, <2>1, PollTyped
  <2> QED BY <1>9, <2>1, <2>2 DEF Kept
<1>10. FirstStage(host.req) \in {"status_in", "data_in", "data_out"}
  <2>1. host.req.wLength = 0 \/ host.req.wLength > 0
    BY <1>5
  <2> QED BY <1>5, <2>1 DEF FirstStage
<1>11. Possible' <=> Possible
  BY <1>3 DEF Possible
<1>12. ASSUME c = Stall(d1), ~Possible
       PROVE  ControlInv'
  <2> HIDE DEF d1
  <2>1. /\ c \in Devices /\ Kept(d1, c) /\ c.state = "IDLE" /\ c.stat_tx = "stall"
        /\ c.ep_state_tx = d1.ep_state_tx
    BY <1>6, <1>12, StallFacts
  <2> HIDE DEF c
  <2>2. Result
    BY <1>6, <2>1 DEF Kept
  <2>3. /\ TypeOK' /\ dev'.address = dev.address /\ dev'.state = "IDLE"
        /\ dev'.stat_tx = "stall" /\ dev'.ep_state_tx = dev.ep_state_tx
    BY <1>6, <1>9, <2>1, <2>2
  <2>4. Refused'
    BY <1>2, <1>3, <1>5, <1>10, <1>11, <1>12, <2>3 DEF Refused
  <2>5. Blocked' => "abandon" \in HostMay
    BY <1>8, <2>3 DEF Blocked
  <2> QED BY <1>7, <2>3, <2>4, <2>5 DEF ControlInv, Phase
<1>13. ASSUME c.ep_state_tx = 1, c.stat_tx = "nak", dev.ep_state_tx = 1, Result,
              host.stage \in {"data_in", "status_in"}
       PROVE  ControlInv'
  <2> HIDE DEF c
  <2>1. /\ TypeOK' /\ dev'.address = dev.address /\ dev'.stat_tx = "nak"
        /\ dev'.ep_state_tx = 1
    BY <1>9, <1>13
  <2>2. Blocked' /\ Stuck'
    BY <1>2, <1>3, <1>13, <2>1 DEF Stuck, Blocked, NoPacket
  <2> QED BY <1>7, <1>8, <1>13, <2>1, <2>2 DEF ControlInv, Phase
<1>14. CASE (host.req.wLength = 0 \/ host.req.dir = "in") /\ ~host.req.handled
  <2>1. c = Stall(d1)
    BY <1>6, <1>14 DEF ControlSetup, HandleRequestNoData
  <2> QED BY <1>12, <1>14, <2>1 DEF Possible
<1>15. CASE (host.req.wLength = 0 \/ host.req.dir = "in") /\ host.req.handled
  <2> DEFINE f == [d1 EXCEPT !.first = 0, !.ctrl_len = d1.wLength]
             d2 == Dispatch(f)
  <2>1. /\ f \in Devices /\ f.req = host.req /\ f.wLength = host.req.wLength
        /\ f.address = dev.address /\ f.ep_state_tx = dev.ep_state_tx
        /\ f.stat_tx = dev.stat_tx /\ f.first = 0 /\ f.ctrl_len = host.req.wLength
    BY <1>4, <1>5, BeginFacts, Zenon
  <2>2. Possible
    <3>1. host.req.dir = "out" => host.req.wLength <= ctrl_buf_len
      BY <1>4, <1>5, <1>15
    <3> QED BY <1>15, <3>1 DEF Possible
  <2>3. /\ host.req.wLength > 0 => c = SendDataIn(d2)
        /\ host.req.wLength = 0 => c = SubmitStatusIn(d2)
    BY <1>5, <1>6, <1>15 DEF ControlSetup, HandleRequestNoData
  <2> HIDE DEF f, d1
  <2>4. /\ d2 \in Devices /\ d2.req = host.req /\ d2.address = dev.address
        /\ d2.wLength = host.req.wLength /\ d2.first = 0
        /\ d2.ep_state_tx = dev.ep_state_tx /\ d2.stat_tx = dev.stat_tx
        /\ d2.ctrl_len = IF host.req.dir = "in" THEN ReplyLen ELSE host.req.wLength
        /\ host.req.effect \in {"configure", "deconfigure"}
              => /\ d2.current_config = d2.configured
                 /\ d2.current_config = IF host.req.effect = "configure" THEN 1 ELSE 0
    <3>1. f.req.effect \in {"configure", "deconfigure"}
             => f.req.dir = "out" /\ f.req.wLength = 0
      BY <1>5, <2>1
    <3> QED BY <2>1, <3>1, DispatchFacts DEF ReplyLen
  <2>5. ReplyLen \in Nat /\ ReplyLen <= host.req.wLength
    BY <1>5, LeastFacts DEF ReplyLen
  <2> HIDE DEF d2, c
  <2>6. CASE host.req.wLength > 0
    <3>1. host.req.dir = "in" /\ host.stage = "data_in"
      BY <1>2, <1>5, <1>15, <2>6 DEF FirstStage
    <3>2. d2.ctrl_len = ReplyLen /\ d2.ctrl_len <= d2.wLength
      BY <2>4, <2>5, <3>1
    <3> DEFINE n == Least(MaxPacketSize0, d2.ctrl_len)
    <3>3. /\ n \in 0 .. MaxPacketSize0 /\ n <= d2.ctrl_len
          /\ c \in Devices /\ Kept(d2, c) /\ Submitted(d2, c, n)
          /\ c.first = d2.first + n /\ c.ctrl_len = d2.ctrl_len - n
          /\ \/ /\ d2.ctrl_len > MaxPacketSize0 /\ n = MaxPacketSize0
                /\ c.state = "DATA_IN" /\ c.wLength = d2.wLength - n
             \/ /\ d2.ctrl_len <= MaxPacketSize0 /\ n = d2.ctrl_len
                /\ c.wLength = d2.wLength
                /\ c.state = IF n = MaxPacketSize0 /\ n < d2.wLength
                             THEN "DATA_IN" ELSE "LAST_DATA_IN"
      BY <2>3, <2>4, <2>6, <3>2, SendFacts
    <3> HIDE DEF n
    <3>4. c.state \notin {"DATA_OUT", "LAST_DATA_OUT", "STATUS_IN"}
      BY <3>3
    <3>5. Result
      BY <2>4, <3>3, <3>4 DEF Kept
    <3>6. CASE dev.ep_state_tx = 1
      <4>1. c.ep_state_tx = 1 /\ c.stat_tx = "nak"
        BY <1>2, <2>4, <3>3, <3>6 DEF Submitted
      <4> QED BY <1>13, <3>1, <3>5, <3>6, <4>1
    <3>7. CASE dev.ep_state_tx = 0
      <4>1. /\ TypeOK' /\ dev'.req = host.req /\ dev'.address = dev.address
            /\ dev'.state = c.state /\ dev'.wLength = c.wLength /\ dev'.first = c.first
            /\ dev'.ctrl_len = c.ctrl_len /\ dev'.ep_state_tx = c.ep_state_tx
            /\ dev'.packet = c.packet /\ dev'.stat_tx = c.stat_tx
        BY <1>9, <3>5
      <4>2. c.packet.first = 0 /\ c.packet.len = n /\ c.ep_state_tx = 1 /\ c.stat_tx = "valid"
        BY <2>4, <3>3, <3>7 DEF Submitted
      <4>3. PacketWaits' /\ ~Blocked'
        BY <1>3, <4>1, <4>2 DEF PacketWaits, Blocked, NoPacket
      <4>4. /\ c.first = n /\ c.first + c.ctrl_len = ReplyLen
            /\ c.ctrl_len > 0 => c.first + c.wLength = host.req.wLength
            /\ \/ c.state = "DATA_IN" /\ n = MaxPacketSize0 /\ c.first < host.req.wLength
               \/ /\ c.state = "LAST_DATA_IN" /\ c.ctrl_len = 0
                  /\ n < MaxPacketSize0 \/ c.first = host.req.wLength
        BY <1>4, <1>5, <2>4, <2>5, <3>2, <3>3
      <4>5. ReplyLen' = ReplyLen /\ Serving'
        BY <1>2, <1>3, <4>1 DEF ReplyLen, Serving
      <4>6. ReplyAdvances'
        BY <1>3, <4>1, <4>4, <4>5 DEF ReplyAdvances
      <4>7. /\ dev'.packet.first = host'.done
            /\ dev'.first = host'.done + dev'.packet.len
            /\ \/ /\ dev'.state = "DATA_IN" /\ dev'.packet.len = MaxPacketSize0
                  /\ dev'.first < host'.req.wLength
               \/ /\ dev'.state = "LAST_DATA_IN" /\ dev'.ctrl_len = 0
                  /\ dev'.packet.len < MaxPacketSize0 \/ dev'.first = host'.req.wLength
        <5>1. dev'.packet.len = n /\ dev'.packet.first = 0 /\ host'.done = 0
              /\ host'.req = host.req /\ 0 + n = n
          BY <1>2, <1>3, <3>3, <4>1, <4>2
        <5> QED BY <4>1, <4>4, <5>1
      <4>8. Replying'
        BY <1>2, <1>3, <1>11, <2>2, <3>1, <4>3, <4>5, <4>6, <4>7 DEF Replying
      <4> QED BY <1>7, <4>1, <4>3, <4>8 DEF ControlInv, Phase
    <3> QED BY <1>4, <3>6, <3>7
  <2>7. CASE host.req.wLength = 0
    <3>1. host.stage = "status_in"
      BY <1>2, <2>7 DEF FirstStage
    <3>2. d2.ctrl_len = 0
      BY <2>4, <2>5, <2>7
    <3>3. /\ c \in Devices /\ Kept(d2, c) /\ Submitted(d2, c, 0)
          /\ c.state = "STATUS_IN" /\ c.ctrl_len = 0
      BY <2>3, <2>4, <2>7, <3>2, StatusFacts
    <3>4. Result
      BY <1>4, <2>4, <3>3 DEF Kept
    <3>5. CASE dev.ep_state_tx = 1
      <4>1. c.ep_state_tx = 1 /\ c.stat_tx = "nak"
        BY <1>2, <2>4, <3>3, <3>5 DEF Submitted
      <4> QED BY <1>13, <3>1, <3>4, <3>5, <4>1
    <3>6. CASE dev.ep_state_tx = 0
      <4>1. /\ TypeOK' /\ dev'.req = host.req /\ dev'.address = dev.address
            /\ dev'.state = c.state /\ dev'.ep_state_tx = c.ep_state_tx
            /\ dev'.packet = c.packet /\ dev'.stat_tx = c.stat_tx
            /\ dev'.current_config = c.current_config
            /\ dev'.configured = c.configured
        BY <1>9, <3>4
      <4>2. c.packet.len = 0 /\ c.ep_state_tx = 1 /\ c.stat_tx = "valid"
        BY <2>4, <3>3, <3>6 DEF Submitted
      <4>3. PacketWaits' /\ ~Blocked'
        BY <1>3, <4>1, <4>2 DEF PacketWaits, Blocked, NoPacket
      <4>4. ConfigurationSet'
        BY <1>3, <2>4, <3>3, <4>1 DEF ConfigurationSet, Kept
      <4>5. DataArrived'
        BY <1>3, <2>7 DEF DataArrived
      <4>6. Serving'
        BY <1>2, <1>3, <4>1 DEF Serving
      <4>7. Confirming'
        BY <1>2, <1>3, <1>11, <2>2, <3>1, <3>3, <4>1, <4>2, <4>3, <4>4, <4>5, <4>6
           DEF Confirming
      <4> QED BY <1>7, <4>1, <4>3, <4>7 DEF ControlInv, Phase
    <3> QED BY <1>4, <3>5, <3>6
  <2> QED BY <1>5, <2>6, <2>7
<1>16. CASE host.req.wLength > 0 /\ host.req.dir = "out" /\ host.req.wLength > ctrl_buf_len
  <2>1. c = Stall(d1)
    BY <1>5, <1>6, <1>16 DEF ControlSetup, PrepareDataOut
  <2>2. ~Possible
    BY <1>4, <1>5, <1>16 DEF Possible
  <2> QED BY <1>12, <2>1, <2>2
<1>17. CASE host.req.wLength > 0 /\ host.req.dir = "out" /\ host.req.wLength <= ctrl_buf_len
  <2>1. c = ExpectOut(d1)
    BY <1>4, <1>5, <1>6, <1>17 DEF ControlSetup, PrepareDataOut
  <2> HIDE DEF d1
  <2>2. /\ c \in Devices /\ Kept(d1, c) /\ c.wLength = host.req.wLength /\ c.ctrl_len = 0
        /\ c.ep_state_tx = d1.ep_state_tx /\ c.stat_tx = d1.stat_tx
        /\ c.state = IF host.req.wLength > MaxPacketSize0 THEN "DATA_OUT"
                                                          ELSE "LAST_DATA_OUT"
    BY <1>6, <2>1, ExpectFacts
  <2> HIDE DEF c
  <2>3. Result
    BY <1>4, <1>6, <2>2 DEF Kept
  <2>4. /\ TypeOK' /\ dev'.req = host.req /\ dev'.address = dev.address
        /\ dev'.state = c.state /\ dev'.wLength = c.wLength
        /\ dev'.ctrl_len = c.ctrl_len /\ dev'.ep_state_tx = c.ep_state_tx
        /\ dev'.stat_tx = c.stat_tx
    BY <1>9, <2>3
  <2>5. dev'.stat_tx = "nak" /\ dev'.ep_state_tx = dev.ep_state_tx
    BY <1>2, <1>6, <2>2, <2>4
  <2>6. host.stage = "data_out" /\ host.req.effect = "none"
    BY <1>2, <1>5, <1>17 DEF FirstStage
  <2>7. Serving' /\ NoPacket'
    BY <1>2, <1>3, <2>4, <2>5 DEF Serving, NoPacket
  <2>8. LastOut(dev)' <=> host.req.wLength <= MaxPacketSize0
    <3>1. dev'.wLength - dev'.ctrl_len = host.req.wLength
      BY <1>5, <2>2, <2>4
    <3> QED BY <3>1 DEF LastOut
  <2>9. dev'.state = IF LastOut(dev)' THEN "LAST_DATA_OUT" ELSE "DATA_OUT"
    BY <1>4, <1>5, <2>2, <2>4, <2>8
  <2>10. /\ dev'.wLength = host.req.wLength /\ dev'.ctrl_len = 0
         /\ 0 < host.req.wLength /\ host.req.wLength # 0
    BY <1>5, <1>17, <2>2, <2>4
  <2>11. Receiving'
    BY <1>2, <1>3, <1>17, <2>5, <2>6, <2>7, <2>9, <2>10 DEF Receiving
  <2>12. Blocked' => "abandon" \in HostMay
    BY <1>8, <2>5 DEF Blocked
  <2> QED BY <1>7, <2>4, <2>11, <2>12 DEF ControlInv, Phase
<1> QED BY <1>4, <1>5, <1>14, <1>15, <1>16, <1>17

----------------------------------------------------------------------------
(* A data packet is handled, or the end of one the host has fetched. *)

\* What an ended transfer's outcome says stays true.
LEMMA OutcomeKept ==
    ASSUME OutcomesAgree, host' = host,
           dev'.ctrl_len = dev.ctrl_len,
           dev'.current_config = dev.current_config, dev'.configured = dev.configured
    PROVE  OutcomesAgree'
BY DEF OutcomesAgree, Possible, DataArrived, ConfigurationSet

\* A reply brings no data to the device and configures nothing.
LEMMA ReplyKept ==
    ASSUME TypeOK, OutcomesAgree, host' = host, host.req.dir = "in"
    PROVE  OutcomesAgree'
<1>1. host.req.effect = "none"
  BY TypeFacts, RequestFacts
<1> QED BY <1>1 DEF OutcomesAgree, Possible, DataArrived, ConfigurationSet

\* The packet fetched was not the last: the next one is submitted.
LEMMA PollReplying ==
    ASSUME ControlInv, Replying, PollTransfer
    PROVE  ControlInv'
<1> DEFINE f == [dev EXCEPT !.ep_state_tx = 0]
           c == SendDataIn(f)
<1>1. TypeOK
  BY DEF ControlInv
<1>2. /\ ~reset /\ ~ctr_rx /\ dev.req = host.req /\ host.outcome = "none"
      /\ dev.address = host.address /\ Possible
      /\ host.stage = "data_in" /\ host.req.dir = "in" /\ ReplyAdvances
  BY DEF Replying, Serving
<1>3. ctr_tx /\ dev.first = host.done /\ dev.state = "DATA_IN" /\ dev.first < host.req.wLength
  BY <1>2 DEF PollTransfer, Replying, PacketWaits
<1>4. /\ dev \in Devices /\ MaxPacketSize0 \in Nat /\ MaxPacketSize0 > 0
      /\ dev.wLength \in Nat /\ dev.first \in Nat /\ dev.ctrl_len \in Nat
      /\ host.req.wLength \in Nat /\ host.req.reply \in Nat
  BY <1>1, TypeFacts, RequestFacts
<1>5. /\ f \in Devices /\ Kept(dev, f)
      /\ f.state = dev.state /\ f.wLength = dev.wLength /\ f.first = dev.first
      /\ f.ctrl_len = dev.ctrl_len /\ f.ep_state_tx = 0
  BY <1>4, FreeTxFacts, Zenon
<1>6. /\ dev' = c /\ ~ctr_rx' /\ ~ctr_tx'
      /\ UNCHANGED <<rx_packet, reset, host, requests>>
  BY <1>2, <1>3, <1>5 DEF PollTransfer, AfterRx, AfterTx, ControlIn
<1>7. /\ ReplyLen \in Nat /\ ReplyLen <= host.req.wLength
      /\ dev.first + dev.ctrl_len = ReplyLen
      /\ dev.ctrl_len > 0 => dev.first + dev.wLength = host.req.wLength
  BY <1>2, <1>4, LeastFacts DEF ReplyAdvances, ReplyLen
<1>8. f.ctrl_len <= f.wLength
  BY <1>4, <1>5, <1>7
<1> DEFINE n == Least(MaxPacketSize0, f.ctrl_len)
<1> HIDE DEF f
<1>9. /\ n \in 0 .. MaxPacketSize0 /\ n <= f.ctrl_len
      /\ c \in Devices /\ Kept(f, c) /\ Submitted(f, c, n)
      /\ c.first = f.first + n /\ c.ctrl_len = f.ctrl_len - n
      /\ \/ /\ f.ctrl_len > MaxPacketSize0 /\ n = MaxPacketSize0
            /\ c.state = "DATA_IN" /\ c.wLength = f.wLength - n
         \/ /\ f.ctrl_len <= MaxPacketSize0 /\ n = f.ctrl_len
            /\ c.wLength = f.wLength
            /\ c.state = IF n = MaxPacketSize0 /\ n < f.wLength
                         THEN "DATA_IN" ELSE "LAST_DATA_IN"
  BY <1>5, <1>8, SendFacts
<1> HIDE DEF n, c
<1>10. /\ c.first = dev.first + n /\ c.first + c.ctrl_len = ReplyLen
       /\ c.ctrl_len > 0 => c.first + c.wLength = host.req.wLength
  BY <1>4, <1>5, <1>7, <1>9
<1>11. \/ c.state = "DATA_IN" /\ n = MaxPacketSize0 /\ c.first < host.req.wLength
       \/ /\ c.state = "LAST_DATA_IN" /\ c.ctrl_len = 0
          /\ n < MaxPacketSize0 \/ c.first = host.req.wLength
  <2>1. CASE f.ctrl_len > MaxPacketSize0
    <3>1. n = MaxPacketSize0 /\ c.state = "DATA_IN" /\ c.ctrl_len > 0
      BY <1>4, <1>5, <1>9, <2>1
    <3>2. c.first < host.req.wLength
      BY <1>4, <1>5, <1>7, <1>9, <1>10, <3>1
    <3> QED BY <3>1, <3>2
  <2>2. CASE ~(f.ctrl_len > MaxPacketSize0)
    <3>1. /\ n = dev.ctrl_len /\ n <= MaxPacketSize0
          /\ c.state = IF n = MaxPacketSize0 /\ n < dev.wLength
                       THEN "DATA_IN" ELSE "LAST_DATA_IN"
      BY <1>4, <1>5, <1>9, <2>2
    <3>2. c.ctrl_len = 0 /\ n <= dev.wLength
      BY <1>4, <1>5, <1>8, <1>9, <3>1
    <3>3. n = MaxPacketSize0 => c.first + dev.wLength = host.req.wLength + n
      BY <1>4, <1>7, <1>10, <3>1
    <3>4. n = MaxPacketSize0 /\ n < dev.wLength => c.first < host.req.wLength
      BY <1>4, <1>10, <3>1, <3>3
    <3>5. n = MaxPacketSize0 /\ ~(n < dev.wLength) => c.first = host.req.wLength
      BY <1>4, <1>10, <3>1, <3>2, <3>3
    <3>6. n # MaxPacketSize0 => n < MaxPacketSize0
      BY <1>4, <3>1
    <3> QED BY <3>1, <3>2, <3>4, <3>5, <3>6
  <2> QED BY <2>1, <2>2
<1>12. /\ c.packet.first = dev.first /\ c.packet.len = n
       /\ c.ep_state_tx = 1 /\ c.stat_tx = "valid"
       /\ c.req = host.req /\ c.address = dev.address
  BY <1>2, <1>5, <1>9 DEF Submitted, Kept
<1>13. TypeOK'
  BY <1>1, <1>6, <1>9, <1>11, PollTyped
<1>14. OutcomesAgree'
  <2>1. (host.outcome = "none" => OutcomesAgree)'
    BY NoOutcome, PTL
  <2> QED BY <1>2, <1>6, <2>1
<1>15. PacketWaits' /\ Serving' /\ ~Blocked' /\ ReplyAdvances' /\ Possible'
  BY <1>2, <1>6, <1>10, <1>12
     DEF PacketWaits, Serving, Blocked, NoPacket, ReplyAdvances, ReplyLen, Possible
<1>16. Replying'
  BY <1>2, <1>3, <1>6, <1>10, <1>11, <1>12, <1>15 DEF Replying
<1> QED BY <1>13, <1>14, <1>15, <1>16 DEF ControlInv, Phase

\* The last packet of the reply was fetched: the status stage is awaited.
LEMMA PollReplied ==
    ASSUME ControlInv, Replied, PollTransfer
    PROVE  ControlInv'
<1> DEFINE f == [dev EXCEPT !.ep_state_tx = 0]
<1>1. TypeOK /\ dev \in Devices
  BY TypeFacts DEF ControlInv
<1>2. /\ ~reset /\ ~ctr_rx /\ Serving /\ Possible
      /\ host.stage = "status_out" /\ host.req.dir = "in" /\ host.done = ReplyLen
  BY DEF Replied
<1>3. ctr_tx /\ dev.state = "LAST_DATA_IN" /\ dev.stat_tx = "nak"
  BY <1>2 DEF PollTransfer, Replied, ReplySeen, NoPacket, PacketFetched
<1>4. /\ f \in Devices /\ Kept(dev, f) /\ f.state = dev.state
      /\ f.ep_state_tx = 0 /\ f.stat_tx = dev.stat_tx
  BY <1>1, FreeTxFacts, Zenon
<1>5. /\ dev' = [f EXCEPT !.state = "STATUS_OUT"] /\ ~ctr_rx' /\ ~ctr_tx'
      /\ UNCHANGED <<rx_packet, reset, host, requests>>
  BY <1>2, <1>3, <1>4 DEF PollTransfer, AfterRx, AfterTx, ControlIn
<1> HIDE DEF f
<1>6. /\ dev' \in Devices /\ dev'.state = "STATUS_OUT" /\ dev'.stat_tx = "nak"
      /\ dev'.ep_state_tx = 0 /\ dev'.req = dev.req /\ dev'.address = dev.address
  BY <1>3, <1>4, <1>5 DEF Devices, States, Kept
<1>7. TypeOK'
  BY <1>1, <1>5, <1>6, PollTyped
<1>8. OutcomesAgree'
  BY <1>1, <1>2, <1>5, ReplyKept DEF ControlInv
<1>9. Replied' /\ ~Blocked'
  BY <1>2, <1>5, <1>6
     DEF Replied, Blocked, NoPacket, ReplySeen, Serving, Possible, ReplyLen
<1> QED BY <1>7, <1>8, <1>9 DEF ControlInv, Phase

\* The host's status packet is handled, before or after the note that it has
\* fetched the last packet of the reply.
LEMMA PollStatus ==
    ASSUME ControlInv, StatusSent, PollTransfer
    PROVE  ControlInv'
<1> DEFINE r == [ControlOut(dev, rx_packet.len) EXCEPT !.stat_rx = "valid"]
<1>1. TypeOK /\ dev \in Devices
  BY TypeFacts DEF ControlInv
<1>2. /\ ~reset /\ ctr_rx /\ ~rx_packet.setup /\ ReplySeen
      /\ host.stage = "idle" /\ host.req.dir = "in" /\ dev.address = host.address
  BY DEF StatusSent
<1>3. /\ dev' = AfterTx(r) /\ ~ctr_rx' /\ ~ctr_tx'
      /\ UNCHANGED <<rx_packet, reset, host, requests>>
  BY <1>2 DEF PollTransfer, AfterRx
<1>4. OutcomesAgree'
  BY <1>1, <1>2, <1>3, ReplyKept DEF ControlInv
<1>5. CASE NoPacket /\ dev.state = "STATUS_OUT"
  <2>1. ~ctr_tx /\ dev.stat_tx # "valid"
    BY <1>5 DEF NoPacket
  <2>2. dev' = [[dev EXCEPT !.state = "IDLE"] EXCEPT !.stat_rx = "valid"]
    BY <1>3, <1>5, <2>1 DEF AfterTx, ControlOut
  <2>3. /\ dev' \in Devices /\ dev'.state = "IDLE" /\ dev'.stat_tx = dev.stat_tx
        /\ dev'.ep_state_tx = dev.ep_state_tx /\ dev'.address = dev.address
    BY <1>1, <2>2 DEF Devices, States
  <2>4. TypeOK'
    BY <1>1, <2>3, PollTyped
  <2>5. AtRest'
    BY <1>2, <1>3, <2>1, <2>3 DEF AtRest, NoPacket
  <2>6. Blocked' => Blocked
    BY <1>3, <2>1, <2>3 DEF Blocked, NoPacket
  <2> QED BY <1>4, <2>4, <2>5, <2>6 DEF ControlInv, Phase
<1>6. CASE PacketFetched /\ dev.state = "LAST_DATA_IN"
  <2>1. ctr_tx
    BY <1>6 DEF PacketFetched
  <2> DEFINE s == Stall(dev)
             f == [r EXCEPT !.ep_state_tx = 0]
  <2>2. s \in Devices /\ Kept(dev, s) /\ s.state = "IDLE" /\ s.stat_tx = "stall"
    BY <1>1, StallFacts
  <2>3. r = [s EXCEPT !.stat_rx = "valid"]
    BY <1>6 DEF ControlOut
  <2> HIDE DEF r, s
  <2>4. r \in Devices /\ Kept(s, r) /\ r.state = "IDLE"
    BY <2>2, <2>3, RxValidFacts, Zenon
  <2>5. f \in Devices /\ Kept(r, f) /\ f.state = "IDLE" /\ f.ep_state_tx = 0
    BY <2>4, FreeTxFacts, Zenon
  <2>6. dev' = Stall(f)
    BY <1>3, <2>1, <2>5 DEF AfterTx, ControlIn
  <2> HIDE DEF f
  <2>7. /\ dev' \in Devices /\ Kept(f, dev') /\ dev'.state = "IDLE"
        /\ dev'.stat_tx = "stall" /\ dev'.ep_state_tx = 0
    BY <2>5, <2>6, StallFacts
  <2>8. dev'.address = dev.address
    BY <2>2, <2>4, <2>5, <2>7 DEF Kept
  <2>9. TypeOK'
    BY <1>1, <2>7, PollTyped
  <2>10. AtRest' /\ ~Blocked'
    BY <1>2, <1>3, <2>7, <2>8 DEF AtRest, NoPacket, Blocked
  <2> QED BY <1>4, <2>9, <2>10 DEF ControlInv, Phase
<1> QED BY <1>2, <1>5, <1>6 DEF ReplySeen

\* ControlOut() for a packet of the data stage, of the length expected.
LEMMA OutFacts ==
    ASSUME NEW d \in Devices, NEW len \in Nat, d.ctrl_len < d.wLength,
           len = Least(MaxPacketSize0, d.wLength - d.ctrl_len),
           d.req.dir = "out", d.req.effect = "none",
           d.state = IF LastOut(d) THEN "LAST_DATA_OUT" ELSE "DATA_OUT"
    PROVE  LET e == ControlOut(d, len)
               t == d.ctrl_len + len
           IN  /\ e \in Devices /\ Kept(d, e) /\ e.wLength = d.wLength
               /\ t <= d.wLength
               /\ d.state = "LAST_DATA_OUT" => t = d.wLength
               /\ d.state = "DATA_OUT"
                    => /\ t < d.wLength /\ e.ctrl_len = t /\ e.stat_tx = d.stat_tx
                       /\ e.ep_state_tx = d.ep_state_tx
                       /\ e.state = IF LastOut(e) THEN "LAST_DATA_OUT" ELSE "DATA_OUT"
               /\ d.state = "LAST_DATA_OUT" /\ d.req.handled
                    => e.ctrl_len = t /\ e.state = "STATUS_IN" /\ Submitted(d, e, 0)
               /\ d.state = "LAST_DATA_OUT" /\ ~d.req.handled
                    => /\ e.state = "IDLE" /\ e.stat_tx = "stall"
                       /\ e.ep_state_tx = d.ep_state_tx
<1> DEFINE t == d.ctrl_len + len
           d1 == [d EXCEPT !.ctrl_len = t]
           e == ControlOut(d, len)
<1>1. /\ d.wLength \in Nat /\ d.ctrl_len \in Nat /\ d.req \in AnyRequest
      /\ MaxPacketSize0 \in Nat /\ MaxPacketSize0 > 0
  BY ControlAssumption DEF Devices
<1>2. t \in Nat /\ t <= d.wLength /\ len >= Least(MaxPacketSize0, d.wLength - d.ctrl_len)
  BY <1>1 DEF Least
<1>3. d.state = "DATA_OUT" => t < d.wLength
  BY <1>1 DEF Least, LastOut
<1>4. d.state = "LAST_DATA_OUT" => t = d.wLength
  BY <1>1 DEF Least, LastOut
<1>5. d.state \in {"DATA_OUT", "LAST_DATA_OUT"}
  OBVIOUS
<1> HIDE DEF t
<1>6. /\ d1 \in Devices /\ Kept(d, d1) /\ d1.wLength = d.wLength /\ d1.ctrl_len = t
      /\ d1.stat_tx = d.stat_tx /\ d1.ep_state_tx = d.ep_state_tx
      /\ d1.first = d.first /\ d1.packet = d.packet
  BY <1>2 DEF Devices, Kept
<1>7. ~(len < Least(MaxPacketSize0, d.wLength - d.ctrl_len))
  BY <1>1
<1>8. CASE d.state = "DATA_OUT"
  <2> DEFINE s == IF LastOut(d1) THEN "LAST_DATA_OUT" ELSE "DATA_OUT"
  <2>1. e = [d1 EXCEPT !.state = s]
    BY <1>7, <1>8 DEF ControlOut, t
  <2>2. s \in States
    BY DEF States
  <2> HIDE DEF d1, s, e
  <2>3. /\ e \in Devices /\ Kept(d1, e) /\ e.wLength = d1.wLength /\ e.ctrl_len = d1.ctrl_len
        /\ e.stat_tx = d1.stat_tx /\ e.ep_state_tx = d1.ep_state_tx /\ e.state = s
    BY <1>6, <2>1, <2>2 DEF Devices, Kept
  <2>4. e.state = IF LastOut(e) THEN "LAST_DATA_OUT" ELSE "DATA_OUT"
    BY <2>3 DEF LastOut, s
  <2>5. Kept(d, e) /\ d.state # "LAST_DATA_OUT"
    BY <1>6, <1>8, <2>3 DEF Kept
  <2> QED BY <1>2, <1>3, <1>6, <1>8, <2>3, <2>4, <2>5 DEF t, e
<1>9. CASE d.state = "LAST_DATA_OUT" /\ d.req.handled
  <2>1. e = SubmitStatusIn(Dispatch(d1))
    BY <1>7, <1>9 DEF ControlOut, t
  <2> HIDE DEF d1, e
  <2>2. Dispatch(d1) = d1
    BY <1>6 DEF Dispatch, Kept
  <2>3. /\ e \in Devices /\ Kept(d1, e) /\ Submitted(d1, e, 0)
        /\ e.state = "STATUS_IN" /\ e.ctrl_len = d1.ctrl_len /\ e.wLength = d1.wLength
    <3>1. /\ e \in Devices /\ Kept(d1, e) /\ Submitted(d1, e, 0)
          /\ e.state = "STATUS_IN" /\ e.ctrl_len = d1.ctrl_len
      BY <1>6, <2>1, <2>2, StatusFacts
    <3>2. e.wLength = d1.wLength
      <4> DEFINE u == TransmitPacket(d1, 0)
      <4>1. 0 \in 0 .. MaxPacketSize0
        BY <1>1
      <4>2. u \in Devices /\ u.wLength = d1.wLength
        BY <1>6, <4>1, TransmitFacts
      <4>3. e = [u EXCEPT !.state = "STATUS_IN"]
        BY <2>1, <2>2 DEF SubmitStatusIn
      <4> HIDE DEF u
      <4> QED BY <4>2, <4>3 DEF Devices
    <3> QED BY <3>1, <3>2
  <2>4. Kept(d, e) /\ Submitted(d, e, 0) /\ d.state # "DATA_OUT"
    BY <1>6, <1>9, <2>3 DEF Kept, Submitted
  <2> QED BY <1>2, <1>4, <1>6, <1>9, <2>3, <2>4 DEF t, e
<1>10. CASE d.state = "LAST_DATA_OUT" /\ ~d.req.handled
  <2>1. e = Stall(d1)
    BY <1>7, <1>10 DEF ControlOut, t
  <2>2. e.wLength = d1.wLength
    BY <2>1 DEF Stall, Devices
  <2> HIDE DEF d1, e
  <2>3. /\ e \in Devices /\ Kept(d1, e) /\ e.state = "IDLE" /\ e.stat_tx = "stall"
        /\ e.ep_state_tx = d1.ep_state_tx
    BY <1>6, <2>1, StallFacts
  <2>4. Kept(d, e) /\ d.state # "DATA_OUT"
    BY <1>6, <1>10, <2>3 DEF Kept
  <2> QED BY <1>2, <1>4, <1>6, <1>10, <2>2, <2>3, <2>4 DEF t, e
<1> QED BY <1>5, <1>8, <1>9, <1>10

\* Data of a request are handled: more are expected, or they were the last.
LEMMA PollReceiving ==
    ASSUME ControlInv, Receiving, PollTransfer
    PROVE  ControlInv'
<1> DEFINE c == ControlOut(dev, rx_packet.len)
<1>1. TypeOK /\ (Blocked => "abandon" \in HostMay)
  BY DEF ControlInv
<1>2. /\ ~reset /\ dev.req = host.req /\ host.outcome = "none" /\ dev.address = host.address
      /\ ~ctr_tx /\ dev.stat_tx = "nak"
      /\ host.req.dir = "out" /\ host.req.effect = "none"
      /\ host.req.wLength <= ctrl_buf_len
      /\ dev.wLength = host.req.wLength /\ dev.ctrl_len < dev.wLength
      /\ dev.state = IF LastOut(dev) THEN "LAST_DATA_OUT" ELSE "DATA_OUT"
      /\ host.stage = IF host.done = host.req.wLength THEN "status_in" ELSE "data_out"
  BY DEF Receiving, Serving, NoPacket
<1>3. /\ ctr_rx /\ ~rx_packet.setup /\ host.done = dev.ctrl_len + rx_packet.len
      /\ rx_packet.len = Least(MaxPacketSize0, dev.wLength - dev.ctrl_len)
  BY <1>2 DEF PollTransfer, Receiving
<1>4. /\ dev' = [c EXCEPT !.stat_rx = "valid"] /\ ~ctr_rx' /\ ~ctr_tx'
      /\ UNCHANGED <<rx_packet, reset, host, requests>>
  BY <1>2, <1>3 DEF PollTransfer, AfterRx, AfterTx
<1>5. /\ dev \in Devices /\ dev.ep_state_tx \in 0 .. 1 /\ rx_packet.len \in Nat
      /\ dev.wLength \in Nat /\ dev.ctrl_len \in Nat /\ ctrl_buf_len \in Nat
      /\ host.done \in Nat /\ host.req.handled \in BOOLEAN
  BY <1>1, TypeFacts, RequestFacts
<1>6. /\ c \in Devices /\ Kept(dev, c) /\ c.wLength = dev.wLength
      /\ host.done <= dev.wLength
      /\ dev.state = "LAST_DATA_OUT" => host.done = dev.wLength
      /\ dev.state = "DATA_OUT"
           => /\ host.done < dev.wLength /\ c.ctrl_len = host.done /\ c.stat_tx = dev.stat_tx
              /\ c.ep_state_tx = dev.ep_state_tx
              /\ c.state = IF LastOut(c) THEN "LAST_DATA_OUT" ELSE "DATA_OUT"
      /\ dev.state = "LAST_DATA_OUT" /\ dev.req.handled
           => c.ctrl_len = host.done /\ c.state = "STATUS_IN" /\ Submitted(dev, c, 0)
      /\ dev.state = "LAST_DATA_OUT" /\ ~dev.req.handled
           => /\ c.state = "IDLE" /\ c.stat_tx = "stall"
              /\ c.ep_state_tx = dev.ep_state_tx
  BY <1>2, <1>3, <1>5, OutFacts
<1> HIDE DEF c
<1>7. /\ dev' \in Devices /\ Kept(c, dev')
      /\ dev'.state = c.state /\ dev'.wLength = c.wLength /\ dev'.ctrl_len = c.ctrl_len
      /\ dev'.ep_state_tx = c.ep_state_tx /\ dev'.packet = c.packet
      /\ dev'.stat_tx = c.stat_tx
  BY <1>4, <1>6, RxValidFacts
<1>8. dev'.req = host'.req /\ dev'.address = host'.address /\ Serving'
  BY <1>2, <1>4, <1>6, <1>7 DEF Kept, Serving
<1>9. TypeOK'
  <2>1. dev'.state \in {"DATA_OUT", "LAST_DATA_OUT", "STATUS_IN"}
          => dev'.ctrl_len <= ctrl_buf_len
    <3>1. host.done <= ctrl_buf_len
      <4>1. host.done <= dev.wLength /\ dev.wLength <= ctrl_buf_len
        BY <1>2, <1>6
      <4> QED BY <1>5, <4>1
    <3>2. dev.state \in {"DATA_OUT", "LAST_DATA_OUT"}
      BY <1>2
    <3> QED BY <1>2, <1>5, <1>6, <1>7, <3>1, <3>2
  <2> QED BY <1>1, <1>7, <2>1, PollTyped
<1>10. OutcomesAgree'
  <2>1. (host.outcome = "none" => OutcomesAgree)'
    BY NoOutcome, PTL
  <2> QED BY <1>2, <1>4, <2>1
<1>11. Blocked' /\ dev.ep_state_tx = 1 => "abandon" \in HostMay
  BY <1>1, <1>2 DEF Blocked, NoPacket
<1>12. CASE dev.state = "DATA_OUT"
  <2>1. /\ dev'.ctrl_len = host'.done /\ host'.done < dev'.wLength
        /\ dev'.stat_tx = "nak" /\ dev'.ep_state_tx = dev.ep_state_tx
        /\ dev'.wLength = host'.req.wLength /\ NoPacket'
    BY <1>2, <1>4, <1>6, <1>7, <1>12 DEF NoPacket
  <2>2. dev'.state = IF LastOut(dev)' THEN "LAST_DATA_OUT" ELSE "DATA_OUT"
    BY <1>6, <1>7, <1>12 DEF LastOut
  <2>3. Receiving'
    BY <1>2, <1>4, <1>8, <2>1, <2>2 DEF Receiving
  <2>4. Blocked' => "abandon" \in HostMay
    BY <1>11, <2>1 DEF Blocked
  <2> QED BY <1>9, <1>10, <2>3, <2>4 DEF ControlInv, Phase
<1>13. CASE dev.state = "LAST_DATA_OUT" /\ host.req.handled
  <2>1. /\ dev'.ctrl_len = host'.done /\ host'.done = host'.req.wLength
        /\ dev'.state = "STATUS_IN" /\ Submitted(dev, c, 0) /\ host'.stage = "status_in"
    <3>1. dev.req.handled
      BY <1>2, <1>13
    <3>2. c.ctrl_len = host.done /\ c.state = "STATUS_IN" /\ Submitted(dev, c, 0)
      BY <1>6, <1>13, <3>1
    <3>3. host.done = host.req.wLength /\ host.stage = "status_in"
      BY <1>2, <1>6, <1>13
    <3> QED BY <1>4, <1>7, <3>2, <3>3
  <2>2. CASE dev.ep_state_tx = 0
    <3>1. /\ dev'.packet.len = 0 /\ dev'.ep_state_tx = 1 /\ dev'.stat_tx = "valid"
      BY <1>7, <2>1, <2>2 DEF Submitted
    <3>2. PacketWaits' /\ ~Blocked'
      BY <1>4, <3>1 DEF PacketWaits, Blocked, NoPacket
    <3>3. Possible' /\ DataArrived' /\ ConfigurationSet'
      BY <1>2, <1>4, <1>13, <2>1 DEF Possible, DataArrived, ConfigurationSet
    <3>4. Confirming'
      BY <1>2, <1>4, <1>8, <2>1, <3>1, <3>2, <3>3 DEF Confirming
    <3> QED BY <1>9, <1>10, <3>2, <3>4 DEF ControlInv, Phase
  <2>3. CASE dev.ep_state_tx = 1
    <3>1. dev'.ep_state_tx = 1 /\ dev'.stat_tx = "nak"
      BY <1>2, <1>7, <2>1, <2>3 DEF Submitted
    <3>2. Blocked' /\ Stuck'
      BY <1>2, <1>4, <1>8, <2>1, <3>1 DEF Stuck, Blocked, NoPacket
    <3> QED BY <1>9, <1>10, <1>11, <2>3, <3>2 DEF ControlInv, Phase
  <2> QED BY <1>5, <2>2, <2>3
<1>14. CASE dev.state = "LAST_DATA_OUT" /\ ~host.req.handled
  <2>1. /\ dev'.state = "IDLE" /\ dev'.stat_tx = "stall"
        /\ dev'.ep_state_tx = dev.ep_state_tx
        /\ host'.done <= host'.req.wLength /\ host'.stage = "status_in"
    <3>1. ~dev.req.handled
      BY <1>2, <1>14
    <3>2. /\ c.state = "IDLE" /\ c.stat_tx = "stall"
          /\ c.ep_state_tx = dev.ep_state_tx
      BY <1>6, <1>14, <3>1
    <3>3. host.done = host.req.wLength /\ host.stage = "status_in"
      BY <1>2, <1>6, <1>14
    <3>4. host.done <= host.req.wLength
      BY <1>5, <3>3
    <3> QED BY <1>4, <1>7, <3>2, <3>3, <3>4
  <2>2. Refused'
    BY <1>2, <1>4, <1>8, <1>14, <2>1 DEF Refused, Possible
  <2>3. Blocked' => "abandon" \in HostMay
    BY <1>11, <2>1 DEF Blocked
  <2> QED BY <1>9, <1>10, <2>2, <2>3 DEF ControlInv, Phase
<1> QED BY <1>2, <1>5, <1>12, <1>13, <1>14

\* Data that come after the stall are refused again.
LEMMA PollRefused ==
    ASSUME ControlInv, Refused, PollTransfer
    PROVE  ControlInv'
<1> DEFINE c == Stall(dev)
<1>1. TypeOK /\ OutcomesAgree /\ (Blocked => "abandon" \in HostMay) /\ dev \in Devices
  BY TypeFacts DEF ControlInv
<1>2. /\ ~reset /\ ~ctr_tx /\ dev.stat_tx = "stall" /\ dev.state = "IDLE"
      /\ ctr_rx => ~rx_packet.setup
      /\ ~Possible /\ dev.address = host.address /\ host.done <= host.req.wLength
      /\ \/ /\ host.stage \in {"data_in", "data_out", "status_in"}
            /\ host.outcome = "none"
         \/ host.stage = "idle" /\ host.outcome = "stall" /\ ctr_rx
  BY DEF Refused
<1>3. ctr_rx /\ ~rx_packet.setup
  BY <1>2 DEF PollTransfer
<1>4. /\ dev' = [c EXCEPT !.stat_rx = "valid"] /\ ~ctr_rx' /\ ~ctr_tx'
      /\ UNCHANGED <<rx_packet, reset, host, requests>>
  BY <1>2, <1>3 DEF PollTransfer, AfterRx, AfterTx, ControlOut
<1>5. /\ c \in Devices /\ Kept(dev, c) /\ c.state = "IDLE" /\ c.stat_tx = "stall"
      /\ c.ep_state_tx = dev.ep_state_tx
  BY <1>1, StallFacts
<1> HIDE DEF c
<1>6. /\ dev' \in Devices /\ Kept(c, dev') /\ dev'.state = "IDLE"
      /\ dev'.stat_tx = "stall" /\ dev'.ep_state_tx = dev.ep_state_tx
  BY <1>4, <1>5, RxValidFacts
<1>7. dev'.address = dev.address
  BY <1>5, <1>6 DEF Kept
<1>8. TypeOK'
  BY <1>1, <1>6, PollTyped
<1>9. Possible' <=> Possible
  BY <1>4 DEF Possible
<1>10. OutcomesAgree'
  BY <1>2, <1>4, <1>9 DEF OutcomesAgree
<1>11. Blocked' => Blocked
  BY <1>2, <1>6 DEF Blocked, NoPacket
<1>12. Refused' \/ AtRest'
  BY <1>2, <1>4, <1>6, <1>7, <1>9 DEF Refused, AtRest, NoPacket
<1> QED BY <1>1, <1>8, <1>10, <1>11, <1>12 DEF ControlInv, Phase

\* The end of the status stage, where SET_ADDRESS takes effect.
LEMMA PollConfirmed ==
    ASSUME ControlInv, Confirmed, PollTransfer
    PROVE  ControlInv'
<1> DEFINE f == [dev EXCEPT !.ep_state_tx = 0]
           a == IF host.req.effect = "address" THEN 1 ELSE dev.address
<1>1. TypeOK /\ OutcomesAgree /\ dev \in Devices /\ host.address \in 0 .. 1
  BY TypeFacts DEF ControlInv
<1>2. /\ ~reset /\ ~ctr_rx /\ ctr_tx /\ dev.stat_tx = "nak" /\ dev.req = host.req
      /\ dev.state = "STATUS_IN" /\ host.stage = "idle" /\ host.address = a
  BY DEF Confirmed, PacketFetched
<1>3. /\ f \in Devices /\ Kept(dev, f) /\ f.state = dev.state
      /\ f.ctrl_len = dev.ctrl_len /\ f.ep_state_tx = 0 /\ f.stat_tx = dev.stat_tx
  BY <1>1, FreeTxFacts, Zenon
<1>4. dev' = [f EXCEPT !.state = "IDLE",
                       !.address = IF f.req.effect = "address" THEN 1 ELSE @]
  BY <1>2, <1>3 DEF PollTransfer, AfterRx, AfterTx, ControlIn
<1>5. /\ ~ctr_rx' /\ ~ctr_tx' /\ UNCHANGED <<rx_packet, reset, host, requests>>
  BY <1>2 DEF PollTransfer
<1> HIDE DEF f
<1>6. dev' = [f EXCEPT !.state = "IDLE", !.address = a]
  BY <1>2, <1>3, <1>4 DEF Kept, Devices
<1> HIDE DEF a
<1>7. /\ dev' \in Devices /\ dev'.state = "IDLE" /\ dev'.address = a
      /\ dev'.stat_tx = "nak" /\ dev'.ep_state_tx = 0 /\ dev'.ctrl_len = dev.ctrl_len
      /\ dev'.current_config = dev.current_config /\ dev'.configured = dev.configured
  <2>1. a \in 0 .. 1 /\ f \in Devices
    BY <1>1, <1>2, <1>3
  <2>2. dev' \in Devices
    BY <1>6, <2>1 DEF Devices, States
  <2>3. dev'.state = "IDLE" /\ dev'.address = a
    BY <1>6, <2>1 DEF Devices
  <2>4. /\ dev'.stat_tx = f.stat_tx /\ dev'.ep_state_tx = f.ep_state_tx
        /\ dev'.ctrl_len = f.ctrl_len
    BY <1>6, <2>1 DEF Devices
  <2>5. dev'.current_config = f.current_config /\ dev'.configured = f.configured
    BY <1>6, <2>1 DEF Devices
  <2> QED BY <1>2, <1>3, <2>2, <2>3, <2>4, <2>5 DEF Kept
<1>8. TypeOK'
  <2>1. dev'.state \notin {"DATA_OUT", "LAST_DATA_OUT", "STATUS_IN"}
    BY <1>7
  <2> QED BY <1>1, <1>7, <2>1, PollTyped
<1>9. OutcomesAgree'
  BY <1>1, <1>5, <1>7, OutcomeKept
<1>10. AtRest' /\ ~Blocked'
  BY <1>2, <1>5, <1>7 DEF AtRest, NoPacket, Blocked
<1> QED BY <1>8, <1>9, <1>10 DEF ControlInv, Phase

\* Every turn of the CTR loop of qsb_dev_poll().
LEMMA PollTransferInv ==
    ASSUME ControlInv, PollTransfer
    PROVE  ControlInv'
<1>1. Phase /\ (ctr_rx \/ ctr_tx)
  BY DEF ControlInv, PollTransfer
<1>2. ~Resetting /\ ~AtRest /\ ~Confirming /\ ~Stuck
  BY <1>1 DEF Resetting, AtRest, Confirming, Stuck, Blocked, NoPacket, PacketWaits
<1> QED BY <1>1, <1>2, PollSetup, PollReplying, PollReplied, PollStatus, PollReceiving,
           PollRefused, PollConfirmed DEF Phase

----------------------------------------------------------------------------
(* The host and the bus. *)

\* The register's fields that the hardware changes.
LEMMA StatFacts ==
    ASSUME NEW d \in Devices,
           NEW tx \in {"disabled", "nak", "valid", "stall"},
           NEW rx \in {"disabled", "nak", "valid", "stall"}
    PROVE  LET e == [d EXCEPT !.stat_tx = tx, !.stat_rx = rx]
           IN  /\ e \in Devices /\ Kept(d, e)
               /\ e.state = d.state /\ e.wLength = d.wLength /\ e.first = d.first
               /\ e.ctrl_len = d.ctrl_len /\ e.ep_state_tx = d.ep_state_tx
               /\ e.packet = d.packet /\ e.stat_tx = tx
BY DEF Devices, Kept

\* A SETUP packet may end a request at any point that a patient host sees.
LEMMA HostSetupInv ==
    ASSUME ControlInv, HostSetup, PatientHost
    PROVE  ControlInv'
<1>1. TypeOK /\ Phase /\ (Blocked => "abandon" \in HostMay)
  BY DEF ControlInv
<1>2. /\ ~reset /\ ~ctr_rx /\ ~ctr_tx
      /\ host.stage # "idle" /\ dev.stat_tx = "valid" => "abandon" \in HostMay
      /\ ctr_rx' /\ UNCHANGED <<ctr_tx, reset>>
      /\ dev' = [dev EXCEPT !.stat_tx = "nak", !.stat_rx = "nak"]
  BY DEF HostSetup, PatientHost
<1>3. PICK req \in Requests :
         /\ host' = [host EXCEPT !.stage = FirstStage(req), !.req = req,
                                 !.done = 0, !.outcome = "none"]
         /\ rx_packet' = [setup |-> TRUE, req |-> req, len |-> 8]
  BY DEF HostSetup
<1>4. dev.address = host.address /\ (dev.stat_tx = "valid" => host.stage # "idle")
  BY <1>1, <1>2 DEF Phase, Resetting, AtRest, SetupReceived, Replying, Replied,
     StatusSent, Receiving, Refused, Confirming, Confirmed, Stuck, Serving,
     NoPacket, PacketFetched, PacketWaits
<1>5. dev \in Devices /\ dev.ep_state_tx \in 0 .. 1
  BY <1>1, TypeFacts
<1>6. /\ dev' \in Devices /\ Kept(dev, dev') /\ dev'.state = dev.state
      /\ dev'.ctrl_len = dev.ctrl_len /\ dev'.ep_state_tx = dev.ep_state_tx
      /\ dev'.stat_tx = "nak"
  <2>1. "nak" \in {"disabled", "nak", "valid", "stall"}
    OBVIOUS
  <2> QED BY <1>2, <1>5, <2>1, StatFacts, Zenon
<1>7. /\ host'.stage = FirstStage(req) /\ host'.req = req /\ host'.done = 0
      /\ host'.outcome = "none" /\ host'.address = host.address
  BY <1>1, <1>3 DEF TypeOK
<1>8. FirstStage(req) \in {"status_in", "data_in", "data_out"}
  <2>1. req.wLength \in Nat /\ req.dir \in {"in", "out"}
    BY RequestFacts
  <2>2. req.wLength = 0 \/ req.wLength > 0
    BY <2>1
  <2> QED BY <2>1, <2>2 DEF FirstStage
<1>9. TypeOK'
  <2> DEFINE s == FirstStage(req)
             z == 0
  <2>1. z \in Nat /\ host' = [host EXCEPT !.stage = s, !.req = req,
                                          !.done = z, !.outcome = "none"]
    BY <1>3
  <2>2. s \in {"idle", "data_in", "data_out", "status_in", "status_out"}
    BY <1>8
  <2> HIDE DEF s, z
  <2>3. host' \in [stage : {"idle", "data_in", "data_out", "status_in", "status_out"},
                   req : Requests \cup {NoRequest}, done : Nat,
                   outcome : {"none", "ok", "stall"}, address : 0 .. 1]
    BY <1>1, <2>1, <2>2 DEF TypeOK
  <2>4. rx_packet' \in [setup : BOOLEAN, req : Requests \cup {NoRequest}, len : Nat]
    <3>1. 8 \in Nat /\ TRUE \in BOOLEAN /\ req \in Requests \cup {NoRequest}
      OBVIOUS
    <3>2. \A n \in Nat, b \in BOOLEAN, r \in Requests \cup {NoRequest} :
             [setup |-> b, req |-> r, len |-> n]
               \in [setup : BOOLEAN, req : Requests \cup {NoRequest}, len : Nat]
      OBVIOUS
    <3> QED BY <1>3, <3>1, <3>2, Zenon
  <2>5. requests' \in 0 .. MaxRequests
    BY <1>1, ControlAssumption DEF HostSetup, TypeOK
  <2>6. ctr_rx' \in BOOLEAN /\ ctr_tx' \in BOOLEAN /\ reset' \in BOOLEAN
    BY <1>1, <1>2, Zenon DEF HostSetup, TypeOK
  <2>7. dev'.state \in {"DATA_OUT", "LAST_DATA_OUT", "STATUS_IN"}
          => dev'.ctrl_len <= ctrl_buf_len
    BY <1>1, <1>6 DEF TypeOK
  <2> QED BY <1>6, <2>3, <2>4, <2>5, <2>6, <2>7 DEF TypeOK
<1>10. OutcomesAgree'
  <2>1. (host.outcome = "none" => OutcomesAgree)'
    BY NoOutcome, PTL
  <2> QED BY <1>7, <2>1
<1>11. SetupReceived'
  <2>1. rx_packet'.setup /\ rx_packet'.req = req
    BY <1>3
  <2>2. dev'.address = host'.address /\ NoPacket'
    BY <1>2, <1>4, <1>6, <1>7 DEF Kept, NoPacket
  <2> QED BY <1>2, <1>6, <1>7, <2>1, <2>2 DEF SetupReceived
<1>12. Blocked' => "abandon" \in HostMay
  <2>1. CASE dev.stat_tx = "valid"
    BY <1>2, <1>4, <2>1
  <2>2. CASE dev.stat_tx # "valid"
    BY <1>1, <1>2, <1>6, <2>2 DEF Blocked, NoPacket
  <2> QED BY <2>1, <2>2
<1> QED BY <1>9, <1>10, <1>11, <1>12 DEF ControlInv, Phase

\* Only a packet of the reply or of the status stage can be fetched.
LEMMA HostInInv ==
    ASSUME ControlInv, HostIn
    PROVE  ControlInv'
<1> DEFINE done == host.done + dev.packet.len
<1>1. TypeOK /\ Phase /\ OutcomesAgree
  BY DEF ControlInv
<1>2. /\ ~reset /\ dev.stat_tx = "valid" /\ ctr_tx'
      /\ dev' = [dev EXCEPT !.stat_tx = "nak"]
      /\ UNCHANGED <<ctr_rx, rx_packet, reset, requests>>
  BY DEF HostIn
<1>3. Replying \/ Confirming
  BY <1>1, <1>2 DEF Phase, Resetting, AtRest, SetupReceived, Replied,
     StatusSent, Receiving, Refused, Confirmed, Stuck,
     NoPacket, PacketFetched, PacketWaits, Blocked, ReplySeen
<1>4. /\ dev \in Devices /\ dev.ep_state_tx \in 0 .. 1 /\ host.done \in Nat
      /\ dev.packet.len \in 0 .. MaxPacketSize0 /\ host.req.wLength \in Nat
      /\ MaxPacketSize0 \in Nat /\ MaxPacketSize0 > 0
      /\ dev.first \in Nat /\ dev.ctrl_len \in Nat
  BY <1>1, TypeFacts, RequestFacts
<1>5. /\ dev' \in Devices /\ Kept(dev, dev') /\ dev'.state = dev.state
      /\ dev'.ctrl_len = dev.ctrl_len /\ dev'.ep_state_tx = dev.ep_state_tx
      /\ dev'.first = dev.first /\ dev'.wLength = dev.wLength
      /\ dev'.stat_tx = "nak"
  BY <1>2, <1>4 DEF Devices, Kept
<1>6. done \in Nat
  BY <1>4
<1>7. ~Blocked'
  BY <1>2 DEF Blocked, NoPacket
<1>8. ASSUME NEW s \in {"idle", "data_in", "status_out"}, NEW o \in {"none", "ok", "stall"},
             NEW n \in Nat, NEW a \in 0 .. 1,
             host' = [host EXCEPT !.done = n, !.stage = s, !.outcome = o, !.address = a]
      PROVE  TypeOK'
  <2>1. host' \in [stage : {"idle", "data_in", "data_out", "status_in", "status_out"},
                   req : Requests \cup {NoRequest}, done : Nat,
                   outcome : {"none", "ok", "stall"}, address : 0 .. 1]
    BY <1>1, <1>8 DEF TypeOK
  <2>2. dev'.state \in {"DATA_OUT", "LAST_DATA_OUT", "STATUS_IN"}
          => dev'.ctrl_len <= ctrl_buf_len
    BY <1>1, <1>5 DEF TypeOK
  <2>3. ctr_rx' \in BOOLEAN /\ ctr_tx' \in BOOLEAN /\ reset' \in BOOLEAN
    BY <1>1, <1>2, Zenon DEF HostIn, TypeOK
  <2> QED BY <1>1, <1>2, <1>5, <2>1, <2>2, <2>3 DEF TypeOK
<1>9. CASE Replying
  <2>1. /\ ~reset /\ ~ctr_rx /\ dev.req = host.req /\ host.outcome = "none"
        /\ dev.address = host.address /\ Possible
        /\ host.stage = "data_in" /\ host.req.dir = "in" /\ ReplyAdvances
    BY <1>9 DEF Replying, Serving
  <2>2. /\ dev.ep_state_tx = 1 /\ dev.first = done
        /\ \/ /\ dev.state = "DATA_IN" /\ dev.packet.len = MaxPacketSize0
              /\ dev.first < host.req.wLength
           \/ /\ dev.state = "LAST_DATA_IN" /\ dev.ctrl_len = 0
              /\ dev.packet.len < MaxPacketSize0 \/ dev.first = host.req.wLength
    BY <1>2, <1>9 DEF Replying, PacketWaits, PacketFetched
  <2>3. host' = [host EXCEPT !.done = done,
                   !.stage = IF dev.packet.len < MaxPacketSize0 \/ done = host.req.wLength
                             THEN "status_out" ELSE "data_in"]
    BY <2>1 DEF HostIn
  <2> HIDE DEF done
  <2>4. CASE dev.state = "DATA_IN"
    <3>1. ~(dev.packet.len < MaxPacketSize0) /\ done # host.req.wLength
      BY <1>4, <1>6, <2>2, <2>4
    <3>2. host' = [host EXCEPT !.done = done, !.stage = "data_in"]
      BY <2>3, <3>1
    <3>3. /\ host'.done = done /\ host'.stage = "data_in" /\ host'.req = host.req
          /\ host'.outcome = "none" /\ host'.address = host.address
      BY <1>1, <2>1, <3>2 DEF TypeOK
    <3>4. TypeOK' /\ OutcomesAgree'
      <4>1. host' = [host EXCEPT !.done = done, !.stage = "data_in",
                                 !.outcome = host.outcome, !.address = host.address]
        BY <1>1, <3>2 DEF TypeOK
      <4>2. host.outcome \in {"none", "ok", "stall"} /\ host.address \in 0 .. 1
        BY <1>1 DEF TypeOK
      <4>3. TypeOK'
        BY <1>6, <1>8, <4>1, <4>2
      <4>4. (host.outcome = "none" => OutcomesAgree)'
        BY NoOutcome, PTL
      <4> QED BY <3>3, <4>3, <4>4
    <3>5. Serving' /\ Possible' /\ ReplyAdvances' /\ PacketFetched'
      BY <1>2, <1>5, <2>1, <2>2, <3>3
         DEF Serving, Kept, Possible, ReplyAdvances, ReplyLen, PacketFetched
    <3>6. Replying'
      BY <1>2, <1>5, <2>1, <2>2, <2>4, <3>1, <3>3, <3>5, <1>4 DEF Replying
    <3> QED BY <1>7, <3>4, <3>6 DEF ControlInv, Phase
  <2>5. CASE dev.state = "LAST_DATA_IN"
    <3>1. dev.packet.len < MaxPacketSize0 \/ done = host.req.wLength
      BY <2>2, <2>5
    <3>2. host' = [host EXCEPT !.done = done, !.stage = "status_out"]
      BY <2>3, <3>1
    <3>3. /\ host'.done = done /\ host'.stage = "status_out" /\ host'.req = host.req
          /\ host'.outcome = "none" /\ host'.address = host.address
      BY <1>1, <2>1, <3>2 DEF TypeOK
    <3>4. TypeOK' /\ OutcomesAgree'
      <4>1. host' = [host EXCEPT !.done = done, !.stage = "status_out",
                                 !.outcome = host.outcome, !.address = host.address]
        BY <1>1, <3>2 DEF TypeOK
      <4>2. host.outcome \in {"none", "ok", "stall"} /\ host.address \in 0 .. 1
        BY <1>1 DEF TypeOK
      <4>3. TypeOK'
        BY <1>6, <1>8, <4>1, <4>2
      <4>4. (host.outcome = "none" => OutcomesAgree)'
        BY NoOutcome, PTL
      <4> QED BY <3>3, <4>3, <4>4
    <3>5. done = ReplyLen /\ ReplyLen' = ReplyLen
      <4>1. dev.ctrl_len = 0 /\ dev.first + dev.ctrl_len = ReplyLen
        BY <2>1, <2>2, <2>5 DEF ReplyAdvances
      <4>2. dev.first + 0 = dev.first
        BY <1>4
      <4> QED BY <2>2, <3>3, <4>1, <4>2 DEF ReplyLen
    <3>6. Serving' /\ Possible' /\ ReplySeen'
      BY <1>2, <1>5, <2>1, <2>2, <2>5, <3>3
         DEF Serving, Kept, Possible, ReplySeen, PacketFetched
    <3>7. Replied'
      BY <1>2, <2>1, <3>3, <3>5, <3>6 DEF Replied
    <3> QED BY <1>7, <3>4, <3>7 DEF ControlInv, Phase
  <2> QED BY <2>2, <2>4, <2>5
<1>10. CASE Confirming
  <2> DEFINE a == IF host.req.effect = "address" THEN 1 ELSE host.address
  <2>1. /\ ~reset /\ ~ctr_rx /\ dev.req = host.req /\ host.outcome = "none"
        /\ dev.address = host.address /\ Possible /\ dev.ep_state_tx = 1
        /\ dev.state = "STATUS_IN" /\ host.stage = "status_in"
        /\ DataArrived /\ ConfigurationSet
    BY <1>10 DEF Confirming, Serving, PacketWaits
  <2>2. host' = [host EXCEPT !.stage = "idle", !.outcome = "ok", !.address = a]
    BY <2>1 DEF HostIn, TypeOK
  <2>3. a \in 0 .. 1
    BY <1>1, TypeFacts
  <2> HIDE DEF a
  <2>4. /\ host'.stage = "idle" /\ host'.req = host.req /\ host'.done = host.done
        /\ host'.outcome = "ok" /\ host'.address = a
    BY <1>1, <2>2 DEF TypeOK
  <2>5. TypeOK'
    <3>1. host' = [host EXCEPT !.done = host.done, !.stage = "idle",
                               !.outcome = "ok", !.address = a]
      BY <1>1, <2>2 DEF TypeOK
    <3> QED BY <1>4, <1>8, <2>3, <3>1
  <2>6. OutcomesAgree'
    BY <1>5, <2>1, <2>4
       DEF OutcomesAgree, Possible, DataArrived, ConfigurationSet, Kept
  <2>7. Confirmed'
    BY <1>2, <1>5, <2>1, <2>4 DEF Confirmed, PacketFetched, Kept, a
  <2> QED BY <1>7, <2>5, <2>6, <2>7 DEF ControlInv, Phase
<1> QED BY <1>3, <1>9, <1>10

\* Changing stage and outcome leaves the rest of the host's state.
LEMMA HostSame ==
    ASSUME TypeOK
    PROVE  \A s, o : [host EXCEPT !.stage = s, !.outcome = o]
                   = [host EXCEPT !.done = host.done, !.stage = s, !.outcome = o,
                                  !.address = host.address]
BY DEF TypeOK

\* Only a request that was refused ends with a stall.
LEMMA HostInStallInv ==
    ASSUME ControlInv, HostInStall
    PROVE  ControlInv'
<1>1. TypeOK /\ Phase /\ (Blocked => "abandon" \in HostMay)
  BY DEF ControlInv
<1>2. /\ ~reset /\ host.stage \in {"data_in", "status_in"} /\ dev.stat_tx = "stall"
      /\ host' = [host EXCEPT !.stage = "idle", !.outcome = "stall"]
      /\ UNCHANGED <<dev, ctr_rx, ctr_tx, rx_packet, reset, requests>>
  BY DEF HostInStall
<1>3. Refused
  BY <1>1, <1>2 DEF Phase, Resetting, AtRest, SetupReceived, Replying, Replied,
     StatusSent, Receiving, Confirming, Confirmed, Stuck, NoPacket,
     PacketFetched, PacketWaits
<1>4. /\ host' \in [stage : {"idle", "data_in", "data_out", "status_in", "status_out"},
                    req : Requests \cup {NoRequest}, done : Nat,
                    outcome : {"none", "ok", "stall"}, address : 0 .. 1]
      /\ host'.stage = "idle" /\ host'.req = host.req /\ host'.done = host.done
      /\ host'.outcome = "stall" /\ host'.address = host.address
  BY <1>1, <1>2 DEF TypeOK
<1>5. TypeOK'
  BY <1>1, <1>2, <1>4 DEF TypeOK
<1>6. ~Possible' /\ OutcomesAgree'
  BY <1>3, <1>4 DEF Refused, OutcomesAgree, Possible
<1>7. Refused' \/ AtRest'
  BY <1>1, <1>2, <1>3, <1>4, <1>6 DEF Refused, AtRest, NoPacket, TypeOK
<1>8. Blocked' => Blocked
  BY <1>2 DEF Blocked, NoPacket
<1> QED BY <1>1, <1>5, <1>6, <1>7, <1>8 DEF ControlInv, Phase

\* The host sends what the device expects, or more of what it has refused.
LEMMA HostOutInv ==
    ASSUME ControlInv, HostOut
    PROVE  ControlInv'
<1> DEFINE len == Least(MaxPacketSize0, host.req.wLength - host.done)
<1>1. TypeOK /\ Phase /\ (Blocked => "abandon" \in HostMay)
  BY DEF ControlInv
<1>2. /\ ~reset /\ ~ctr_rx /\ host.stage \in {"data_out", "status_out"}
      /\ dev' = [dev EXCEPT !.stat_rx = "nak"] /\ ctr_rx'
      /\ UNCHANGED <<ctr_tx, reset, requests>>
  BY DEF HostOut
<1>3. Receiving \/ Refused \/ Replied
  BY <1>1, <1>2 DEF Phase, Resetting, AtRest, SetupReceived, Replying,
     StatusSent, Confirming, Confirmed, Stuck
<1>4. /\ dev \in Devices /\ host.done \in Nat /\ host.req.wLength \in Nat
      /\ MaxPacketSize0 \in Nat /\ MaxPacketSize0 > 0 /\ host.address \in 0 .. 1
      /\ host.req \in Requests \cup {NoRequest}
      /\ dev.wLength \in Nat /\ dev.ctrl_len \in Nat
  BY <1>1, TypeFacts, RequestFacts
<1>5. /\ dev' \in Devices /\ Kept(dev, dev') /\ dev'.state = dev.state
      /\ dev'.ctrl_len = dev.ctrl_len /\ dev'.wLength = dev.wLength
      /\ dev'.ep_state_tx = dev.ep_state_tx /\ dev'.stat_tx = dev.stat_tx
  BY <1>2, <1>4 DEF Devices, Kept
<1>6. Blocked' => "abandon" \in HostMay
  BY <1>1, <1>2, <1>5 DEF Blocked, NoPacket
<1>7. NoRequest \in Requests \cup {NoRequest} /\ FALSE \in BOOLEAN
  OBVIOUS
<1>8. ASSUME NEW s \in {"idle", "data_out", "status_in"}, NEW o \in {"none", "ok", "stall"},
             NEW n \in Nat, NEW l \in Nat,
             host' = [host EXCEPT !.done = n, !.stage = s, !.outcome = o,
                                  !.address = host.address],
             rx_packet' = [setup |-> FALSE, req |-> NoRequest, len |-> l]
      PROVE  /\ TypeOK' /\ ~rx_packet'.setup /\ rx_packet'.len = l
             /\ host'.stage = s /\ host'.req = host.req /\ host'.done = n
             /\ host'.outcome = o /\ host'.address = host.address
  <2>1. /\ host' \in [stage : {"idle", "data_in", "data_out", "status_in", "status_out"},
                      req : Requests \cup {NoRequest}, done : Nat,
                      outcome : {"none", "ok", "stall"}, address : 0 .. 1]
        /\ host'.stage = s /\ host'.req = host.req /\ host'.done = n
        /\ host'.outcome = o /\ host'.address = host.address
    BY <1>1, <1>4, <1>8 DEF TypeOK
  <2>2. /\ rx_packet' \in [setup : BOOLEAN, req : Requests \cup {NoRequest}, len : Nat]
        /\ ~rx_packet'.setup /\ rx_packet'.len = l
    <3>1. \A b \in BOOLEAN, r \in Requests \cup {NoRequest} :
             [setup |-> b, req |-> r, len |-> l]
               \in [setup : BOOLEAN, req : Requests \cup {NoRequest}, len : Nat]
      OBVIOUS
    <3>2. rx_packet' \in [setup : BOOLEAN, req : Requests \cup {NoRequest}, len : Nat]
      BY <1>7, <1>8, <3>1, Zenon
    <3>3. ~rx_packet'.setup /\ rx_packet'.len = l
      BY <1>8
    <3> QED BY <3>2, <3>3
  <2>3. dev'.state \in {"DATA_OUT", "LAST_DATA_OUT", "STATUS_IN"}
          => dev'.ctrl_len <= ctrl_buf_len
    BY <1>1, <1>5 DEF TypeOK
  <2>4. ctr_rx' \in BOOLEAN /\ ctr_tx' \in BOOLEAN /\ reset' \in BOOLEAN
    BY <1>1, Zenon DEF HostOut, TypeOK
  <2>5. requests' \in 0 .. MaxRequests
    BY <1>1, <1>2 DEF TypeOK
  <2> QED BY <1>5, <2>1, <2>2, <2>3, <2>4, <2>5 DEF TypeOK
<1>9. ASSUME host.stage = "data_out", host.done <= host.req.wLength,
             host.outcome = "none"
      PROVE  /\ TypeOK' /\ OutcomesAgree' /\ ~rx_packet'.setup /\ rx_packet'.len = len
             /\ host'.done = host.done + len /\ host'.done <= host.req.wLength
             /\ host'.req = host.req /\ host'.outcome = "none"
             /\ host'.address = host.address
             /\ host'.stage = IF host'.done = host.req.wLength
                              THEN "status_in" ELSE "data_out"
  <2> DEFINE n == host.done + len
             s == IF n = host.req.wLength THEN "status_in" ELSE "data_out"
  <2>1. /\ rx_packet' = [setup |-> FALSE, req |-> NoRequest, len |-> len]
        /\ host' = [host EXCEPT !.done = n, !.stage = s]
    BY <1>9 DEF HostOut, TypeOK
  <2>2. len \in Nat /\ n \in Nat /\ n <= host.req.wLength
    BY <1>4, <1>9 DEF Least
  <2>3. s \in {"idle", "data_out", "status_in"} /\ host.outcome \in {"none", "ok", "stall"}
    BY <1>9
  <2> HIDE DEF len, n, s
  <2>4. host' = [host EXCEPT !.done = n, !.stage = s, !.outcome = host.outcome,
                             !.address = host.address]
    BY <1>1, <2>1 DEF TypeOK
  <2>5. /\ TypeOK' /\ ~rx_packet'.setup /\ rx_packet'.len = len
        /\ host'.stage = s /\ host'.req = host.req /\ host'.done = n
        /\ host'.outcome = host.outcome /\ host'.address = host.address
    BY <1>8, <2>1, <2>2, <2>3, <2>4
  <2>6. OutcomesAgree'
    <3>1. (host.outcome = "none" => OutcomesAgree)'
      BY NoOutcome, PTL
    <3> QED BY <1>9, <2>5, <3>1
  <2> QED BY <1>9, <2>2, <2>5, <2>6 DEF n, s
<1>10. CASE Receiving
  <2>1. /\ dev.req = host.req /\ host.outcome = "none" /\ dev.address = host.address
        /\ ~ctr_tx /\ dev.stat_tx = "nak"
        /\ host.req.dir = "out" /\ host.req.effect = "none"
        /\ host.req.wLength <= ctrl_buf_len
        /\ dev.wLength = host.req.wLength /\ dev.ctrl_len < dev.wLength
        /\ dev.state = IF LastOut(dev) THEN "LAST_DATA_OUT" ELSE "DATA_OUT"
        /\ host.stage = IF host.done = host.req.wLength THEN "status_in" ELSE "data_out"
        /\ host.done = dev.ctrl_len
    BY <1>2, <1>10 DEF Receiving, Serving, NoPacket
  <2>2. host.stage = "data_out" /\ host.done <= host.req.wLength
    BY <1>4, <2>1
  <2>3. /\ TypeOK' /\ OutcomesAgree' /\ ~rx_packet'.setup /\ rx_packet'.len = len
        /\ host'.done = host.done + len
        /\ host'.req = host.req /\ host'.outcome = "none"
        /\ host'.address = host.address
        /\ host'.stage = IF host'.done = host.req.wLength
                         THEN "status_in" ELSE "data_out"
    BY <1>9, <2>1, <2>2
  <2>4. LastOut(dev)' <=> LastOut(dev)
    BY <1>5 DEF LastOut
  <2>5. Serving' /\ NoPacket' /\ dev'.stat_tx = "nak"
    BY <1>2, <1>5, <2>1, <2>3 DEF Serving, NoPacket, Kept
  <2>6. Receiving'
    BY <1>2, <1>5, <2>1, <2>3, <2>4, <2>5 DEF Receiving
  <2> QED BY <1>6, <2>3, <2>6 DEF ControlInv, Phase
<1>11. CASE Refused
  <2>1. /\ ~ctr_tx /\ dev.stat_tx = "stall" /\ dev.state = "IDLE"
        /\ ~Possible /\ dev.address = host.address
        /\ host.done <= host.req.wLength
        /\ host.stage = "data_out" /\ host.outcome = "none"
    BY <1>2, <1>11 DEF Refused
  <2>2. /\ TypeOK' /\ OutcomesAgree' /\ ~rx_packet'.setup
        /\ host'.done <= host.req.wLength
        /\ host'.req = host.req /\ host'.outcome = "none"
        /\ host'.address = host.address
        /\ host'.stage \in {"status_in", "data_out"}
    BY <1>9, <2>1
  <2>3. Refused'
    BY <1>2, <1>5, <2>1, <2>2 DEF Refused, Possible, Kept
  <2> QED BY <1>6, <2>2, <2>3 DEF ControlInv, Phase
<1>12. CASE Replied
  <2>1. /\ dev.req = host.req /\ host.outcome = "none" /\ dev.address = host.address
        /\ Possible /\ ReplySeen /\ host.stage = "status_out" /\ host.req.dir = "in"
    BY <1>12 DEF Replied, Serving
  <2>2. /\ rx_packet' = [setup |-> FALSE, req |-> NoRequest, len |-> 0]
        /\ host' = [host EXCEPT !.stage = "idle", !.outcome = "ok"]
    BY <2>1 DEF HostOut
  <2>3. host' = [host EXCEPT !.done = host.done, !.stage = "idle", !.outcome = "ok",
                             !.address = host.address]
    BY <1>1, <2>2, HostSame
  <2> DEFINE z == 0
  <2>4. z \in Nat /\ rx_packet' = [setup |-> FALSE, req |-> NoRequest, len |-> z]
    BY <2>2
  <2> HIDE DEF z
  <2>5. /\ TypeOK' /\ ~rx_packet'.setup
        /\ host'.stage = "idle" /\ host'.req = host.req /\ host'.done = host.done
        /\ host'.outcome = "ok" /\ host'.address = host.address
    BY <1>4, <1>8, <2>3, <2>4
  <2>6. host.req.effect = "none"
    BY <1>4, <2>1, RequestFacts
  <2>7. OutcomesAgree'
    BY <2>1, <2>5, <2>6 DEF OutcomesAgree, Possible, DataArrived, ConfigurationSet
  <2>8. ReplySeen'
    BY <1>2, <1>5, <2>1 DEF ReplySeen, PacketFetched, NoPacket
  <2>9. StatusSent'
    BY <1>2, <1>5, <2>1, <2>5, <2>8 DEF StatusSent, Kept
  <2> QED BY <1>6, <2>5, <2>7, <2>9 DEF ControlInv, Phase
<1> QED BY <1>3, <1>10, <1>11, <1>12

\* The bus is reset while no flag is raised, and the device takes note.
LEMMA BusResetInv ==
    ASSUME ControlInv, BusReset, PatientHost
    PROVE  ControlInv'
<1>1. TypeOK /\ dev \in Devices
  BY TypeFacts DEF ControlInv
<1>2. /\ reset' /\ ~ctr_rx /\ ~ctr_tx /\ UNCHANGED <<ctr_rx, ctr_tx>>
      /\ dev' = [dev EXCEPT !.stat_tx = "disabled", !.stat_rx = "disabled"]
      /\ rx_packet' = [rx_packet EXCEPT !.setup = FALSE]
  BY DEF BusReset, PatientHost
<1>3. /\ dev' \in Devices /\ dev'.state = dev.state /\ dev'.ctrl_len = dev.ctrl_len
      /\ dev'.stat_tx = "disabled"
  BY <1>1, <1>2 DEF Devices
<1>4. /\ host' \in [stage : {"idle", "data_in", "data_out", "status_in", "status_out"},
                    req : Requests \cup {NoRequest}, done : Nat,
                    outcome : {"none", "ok", "stall"}, address : 0 .. 1]
      /\ host'.stage = "idle" /\ host'.outcome = "none" /\ host'.address = 0
  <2> DEFINE z == 0
  <2>1. host' = [host EXCEPT !.done = host.done, !.stage = "idle", !.outcome = "none",
                             !.address = z]
    BY <1>1 DEF BusReset, TypeOK
  <2>2. z \in 0 .. 1 /\ z = 0 /\ host.done \in Nat
    BY <1>1, TypeFacts
  <2> HIDE DEF z
  <2> QED BY <1>1, <2>1, <2>2 DEF TypeOK
<1>5. rx_packet' \in [setup : BOOLEAN, req : Requests \cup {NoRequest}, len : Nat]
  <2>1. FALSE \in BOOLEAN
    OBVIOUS
  <2>2. \A b \in BOOLEAN : [rx_packet EXCEPT !.setup = b]
             \in [setup : BOOLEAN, req : Requests \cup {NoRequest}, len : Nat]
    BY <1>1 DEF TypeOK
  <2> QED BY <1>2, <2>1, <2>2, Zenon
<1>6. requests' \in 0 .. MaxRequests
  BY <1>1, ControlAssumption DEF BusReset, TypeOK
<1>7. ctr_rx' \in BOOLEAN /\ ctr_tx' \in BOOLEAN /\ reset' \in BOOLEAN
  BY <1>1, <1>2, Zenon DEF BusReset, TypeOK
<1>8. TypeOK'
  BY <1>1, <1>3, <1>4, <1>5, <1>6, <1>7 DEF TypeOK
<1>9. OutcomesAgree'
  BY <1>4 DEF OutcomesAgree
<1>10. Resetting' /\ ~Blocked'
  BY <1>2, <1>3, <1>4 DEF Resetting, Blocked
<1> QED BY <1>8, <1>9, <1>10 DEF ControlInv, Phase

LEMMA PollResetInv ==
    ASSUME ControlInv, PollReset
    PROVE  ControlInv'
<1>1. TypeOK /\ Phase /\ dev \in Devices
  BY TypeFacts DEF ControlInv
<1>2. /\ reset /\ ~reset' /\ UNCHANGED <<ctr_rx, ctr_tx, rx_packet, host, requests>>
  BY DEF PollReset
<1>3. Resetting
  BY <1>1, <1>2 DEF Phase, AtRest, SetupReceived, Replying, Replied, StatusSent,
     Receiving, Refused, Confirming, Confirmed, Stuck, Blocked
<1> DEFINE z == 0
<1>4. /\ z \in 0 .. 1 /\ z = 0
      /\ dev' = [dev EXCEPT !.current_config = z, !.address = z, !.ep_state_tx = 0,
                            !.stat_tx = "nak", !.stat_rx = "valid"]
  BY DEF PollReset
<1> HIDE DEF z
<1>5. /\ dev' \in Devices /\ dev'.state = dev.state /\ dev'.ctrl_len = dev.ctrl_len
      /\ dev'.address = z /\ dev'.ep_state_tx = 0 /\ dev'.stat_tx = "nak"
  BY <1>1, <1>4 DEF Devices
<1>6. TypeOK'
  <2>1. ctr_rx' \in BOOLEAN /\ ctr_tx' \in BOOLEAN /\ reset' \in BOOLEAN
    BY <1>1, <1>2, Zenon DEF PollReset, TypeOK
  <2> QED BY <1>1, <1>2, <1>5, <2>1 DEF TypeOK
<1>7. OutcomesAgree'
  BY <1>2, <1>3 DEF Resetting, OutcomesAgree
<1>8. AtRest' /\ ~Blocked'
  BY <1>2, <1>3, <1>4, <1>5 DEF Resetting, AtRest, NoPacket, Blocked
<1> QED BY <1>6, <1>7, <1>8 DEF ControlInv, Phase

----------------------------------------------------------------------------
(* The invariant. *)

LEMMA InvInit == Init => ControlInv
<1> SUFFICES ASSUME Init PROVE ControlInv
  OBVIOUS
<1> DEFINE z == 0
<1>1. z \in Nat /\ z \in 0 .. 1 /\ z = 0 /\ z \in {sgl_buf_0_pkts, sgl_buf_1_pkt}
      /\ z \in 0 .. MaxPacketSize0 /\ z \in 0 .. MaxRequests
  BY ControlAssumption
<1>2. NoRequest \in AnyRequest /\ NoRequest \in Requests \cup {NoRequest}
  BY RequestFacts
<1>3. /\ dev = [state |-> "IDLE", req |-> NoRequest, wLength |-> z, first |-> z,
                ctrl_len |-> z, ep_state_tx |-> z,
                packet |-> [first |-> z, len |-> z],
                stat_tx |-> "nak", stat_rx |-> "valid",
                address |-> z, current_config |-> z, configured |-> z]
      /\ ctr_rx = FALSE /\ ctr_tx = FALSE /\ reset = FALSE
      /\ rx_packet = [setup |-> FALSE, req |-> NoRequest, len |-> z]
      /\ host = [stage |-> "idle", req |-> NoRequest, done |-> z,
                 outcome |-> "none", address |-> z]
      /\ requests = z
  BY DEF Init
<1> HIDE DEF z, Init
<1>4. dev \in Devices
  <2>1. [first |-> z, len |-> z] \in [first : Nat, len : 0 .. MaxPacketSize0]
    BY <1>1
  <2> QED BY <1>1, <1>2, <1>3, <2>1 DEF Devices, States
<1>5. host \in [stage : {"idle", "data_in", "data_out", "status_in", "status_out"},
                req : Requests \cup {NoRequest}, done : Nat,
                outcome : {"none", "ok", "stall"}, address : 0 .. 1]
  BY <1>1, <1>2, <1>3
<1>6. rx_packet \in [setup : BOOLEAN, req : Requests \cup {NoRequest}, len : Nat]
  <2>1. \A b \in BOOLEAN, r \in Requests \cup {NoRequest} :
           [setup |-> b, req |-> r, len |-> z]
             \in [setup : BOOLEAN, req : Requests \cup {NoRequest}, len : Nat]
    BY <1>1
  <2>2. FALSE \in BOOLEAN
    OBVIOUS
  <2> QED BY <1>2, <1>3, <2>1, <2>2, Zenon
<1>7. dev.state = "IDLE" /\ dev.stat_tx = "nak" /\ dev.ep_state_tx = z /\ dev.address = z
  BY <1>3
<1>8. host.stage = "idle" /\ host.outcome = "none" /\ host.address = z
  BY <1>3
<1>9. TypeOK
  <2>1. ctr_rx \in BOOLEAN /\ ctr_tx \in BOOLEAN /\ reset \in BOOLEAN
    BY <1>3
  <2> QED BY <1>1, <1>3, <1>4, <1>5, <1>6, <1>7, <2>1 DEF TypeOK
<1>10. OutcomesAgree
  BY <1>8 DEF OutcomesAgree
<1>11. AtRest
  BY <1>3, <1>7, <1>8 DEF AtRest, NoPacket
<1>12. ~Blocked
  BY <1>1, <1>7 DEF Blocked
<1> QED BY <1>9, <1>10, <1>11, <1>12 DEF ControlInv, Phase

LEMMA InvStutter ==
    ASSUME ControlInv, UNCHANGED vars
    PROVE  ControlInv'
BY DEF ControlInv, vars, TypeOK, OutcomesAgree, Possible, DataArrived, ConfigurationSet,
   Phase, Resetting, AtRest, SetupReceived, Replying, Replied, StatusSent, Receiving,
   Refused, Confirming, Confirmed, Stuck, Blocked, NoPacket, PacketWaits, PacketFetched,
   Serving, ReplySeen, ReplyAdvances, ReplyLen

\* With a patient host, control transfers go through the phases of ControlInv.
\* What a host that does not wait may bring about is left to the model checker.
THEOREM ControlInvariant ==
    ASSUME PatientHost
    PROVE  Spec => []ControlInv
<1>1. Init => ControlInv
  BY InvInit
<1>2. ASSUME ControlInv, [Next]_vars
      PROVE  ControlInv'
  <2>1. CASE PollTransfer
    BY <1>2, <2>1, PollTransferInv
  <2>2. CASE PollReset
    BY <1>2, <2>2, PollResetInv
  <2>3. CASE HostSetup
    BY <1>2, <2>3, HostSetupInv
  <2>4. CASE HostIn
    BY <1>2, <2>4, HostInInv
  <2>5. CASE HostInStall
    BY <1>2, <2>5, HostInStallInv
  <2>6. CASE HostOut
    BY <1>2, <2>6, HostOutInv
  <2>7. CASE BusReset
    BY <1>2, <2>7, BusResetInv
  <2>8. CASE UNCHANGED vars
    BY <1>2, <2>8, InvStutter
  <2> QED BY <1>2, <2>1, <2>2, <2>3, <2>4, <2>5, <2>6, <2>7, <2>8 DEF Next
<1> QED BY <1>1, <1>2, PTL DEF Spec

\* The replies of qsb_internal_control_in(): complete, in order, and for the host
\* too the packet that ends one is the last.
THEOREM RepliesComplete ==
    ASSUME PatientHost
    PROVE  Spec => []ReplyIsComplete
<1>1. ControlInv => ReplyIsComplete
  <2> SUFFICES ASSUME ControlInv PROVE ReplyIsComplete
    OBVIOUS
  <2>1. Phase /\ TypeOK
    BY DEF ControlInv
  <2>2. ASSUME host.stage = "status_out"
        PROVE  host.done = Least(host.req.wLength, host.req.reply)
    <3>1. FirstStage(host.req) # "status_out"
      <4>1. host.req.wLength \in Nat /\ host.req.dir \in {"in", "out"}
        BY <2>1, TypeFacts, RequestFacts
      <4>2. host.req.wLength = 0 \/ host.req.wLength > 0
        BY <4>1
      <4> QED BY <4>1, <4>2 DEF FirstStage
    <3>2. Replied
      BY <2>1, <2>2, <3>1 DEF Phase, Resetting, AtRest, SetupReceived, Replying,
         StatusSent, Receiving, Refused, Confirming, Confirmed, Stuck
    <3> QED BY <3>2 DEF Replied, ReplyLen
  <2>3. ASSUME host.stage = "data_in", dev.stat_tx = "valid"
        PROVE  dev.packet.first = host.done
    <3>1. Replying
      BY <2>1, <2>3 DEF Phase, Resetting, AtRest, SetupReceived, Replied,
         StatusSent, Receiving, Refused, Confirming, Confirmed, Stuck,
         NoPacket, PacketFetched, Blocked
    <3> QED BY <2>3, <3>1 DEF Replying, PacketWaits, PacketFetched
  <2> QED BY <2>2, <2>3 DEF ReplyIsComplete
<1> QED BY <1>1, ControlInvariant, PTL

\* What a request's outcome says at the host is what the device has done.
THEOREM HostKnowsOutcome ==
    ASSUME PatientHost
    PROVE  Spec => []OutcomesAgree
<1>1. ControlInv => OutcomesAgree
  BY DEF ControlInv
<1> QED BY <1>1, ControlInvariant, PTL

\* SET_ADDRESS takes effect between two requests and never during one.
THEOREM SameAddress ==
    ASSUME PatientHost
    PROVE  Spec => []AddressesAgree
<1>1. ControlInv => AddressesAgree
  BY DEF ControlInv, AddressesAgree, Phase, Resetting, AtRest, SetupReceived, Replying,
     Replied, StatusSent, Receiving, Refused, Confirming, Confirmed, Stuck, Serving
<1> QED BY <1>1, ControlInvariant, PTL

\* The status packet that qsb_internal_control_out() submits is really there, if
\* the host never gives up a request: the packet of an abandoned one, in
\* ep_state_tx, is the only reason why it may be missing (run
\* control_ep0_abandoned).
THEOREM StatusSubmittedIfPatient ==
    ASSUME HostMay = {}
    PROVE  Spec => []StatusSubmitted
<1>1. PatientHost
  BY DEF PatientHost
<1>2. ControlInv => StatusSubmitted
  <2> SUFFICES ASSUME ControlInv, host.stage = "status_in", ~reset, ~ctr_rx
               PROVE  dev.stat_tx # "nak"
    BY DEF StatusSubmitted
  <2>1. Phase /\ ~Blocked /\ TypeOK
    BY DEF ControlInv
  <2>2. ~Receiving
    <3>1. ASSUME Receiving PROVE FALSE
      <4>1. /\ dev.wLength = host.req.wLength /\ dev.ctrl_len < dev.wLength
            /\ host.done = dev.ctrl_len /\ host.done = host.req.wLength
        BY <3>1 DEF Receiving
      <4>2. dev.wLength \in Nat /\ dev.ctrl_len \in Nat
        BY <2>1, TypeFacts
      <4> QED BY <4>1, <4>2
    <3> QED BY <3>1
  <2> QED BY <2>1, <2>2 DEF Phase, Resetting, AtRest, SetupReceived, Replying, Replied,
       StatusSent, Refused, Confirming, Confirmed, Stuck, PacketWaits
<1>3. Spec => []ControlInv
  BY <1>1, ControlInvariant
<1> QED BY <1>2, <1>3, PTL
=============================================================================
