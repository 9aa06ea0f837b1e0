------------------------- MODULE SerialStateProofs -------------------------
(* Proofs about SerialState, for a host that configures the device in an   *)
(* orderly way: the bookkeeping of the endpoint, and that no overrun is    *)
(* reported twice, however often notifications are rejected and retried.   *)
EXTENDS SerialState, TLAPS

\* An overrun is in at most one place: flagged in the UART, pending in
\* usb_serial, or in the packet that the host has yet to fetch; each place
\* stands for an overrun of its own.
One(b) == IF b THEN 1 ELSE 0

InUart == One(rx_overrun_occurred)
Pending == One(pending_interrupt # {})
InPacket == One(valid /\ "overrun" \in packet)
InFlight == InUart + Pending + InPacket

Account == reports \in Nat /\ overruns \in Nat /\ reports + InFlight <= overruns

ReportInv == StateInv /\ Account

----------------------------------------------------------------------------
\* What a notification does to the endpoint, and that it does not multiply
\* overruns: a state with an overrun ends up pending or submitted, not both.
LEMMA NotifyKeeps ==
    ASSUME NEW state, state \subseteq Signals \cup {"overrun"},
           NEW busy \in BOOLEAN, Notify(state, busy), StateInv
    PROVE  /\ last_serial_state' \subseteq Signals
           /\ pending_interrupt' \subseteq {"overrun"}
           /\ packet' \subseteq Signals \cup {"overrun"}
           /\ last_serial_state' = packet' \cap Signals
           /\ busy => UNCHANGED <<ep_state_tx, packet, valid>>
           /\ ~busy => ep_state_tx' = 1 /\ valid'
           /\ busy => (pending_interrupt' # {} => "overrun" \in state)
           /\ ~busy => pending_interrupt' = {} /\ packet' = state
           /\ valid' \in BOOLEAN
  <1>1. CASE busy
    BY <1>1 DEF Notify, StateInv, Signals
  <1>2. CASE ~busy
    BY <1>2 DEF Notify, StateInv, Signals
  <1> QED BY <1>1, <1>2

\* A report leads to a state with at most the same overruns in flight.
LEMMA OneBounds == \A b \in BOOLEAN : One(b) \in {0, 1} /\ (b <=> One(b) = 1)
  BY DEF One

LEMMA InitReport == ASSUME SerialStateAssumption, Init PROVE ReportInv
  <1>1. StateInv
    BY DEF Init, StateInv, Signals
  <1>2. InFlight = 0
    BY DEF Init, InFlight, InUart, Pending, InPacket, One, Signals
  <1>3. Account
    BY <1>2 DEF Init, Account
  <1> QED BY <1>1, <1>3 DEF ReportInv

----------------------------------------------------------------------------
\* The bookkeeping is inductive; only SET_CONFIGURATION needs the assumption
\* that no completion is left over.
LEMMA StateStep ==
    ASSUME ~ConfiguresLate, StateInv, [Next]_vars PROVE StateInv'
  <1>1. CASE PollTransmitted
    <2> DEFINE state == SerialStateWith(pending_interrupt)
    <2>1. state \subseteq Signals \cup {"overrun"}
      BY DEF StateInv, SerialStateWith
    <2>2. CASE state # last_serial_state
      <3>1. Notify(state, FALSE)
        BY <1>1, <2>2 DEF PollTransmitted
      <3> HIDE DEF state
      <3>2. /\ last_serial_state' = packet' \cap Signals
            /\ last_serial_state' \subseteq Signals
            /\ pending_interrupt' \subseteq {"overrun"}
            /\ packet' \subseteq Signals \cup {"overrun"}
            /\ ep_state_tx' = 1 /\ valid'
            /\ valid' \in BOOLEAN
        BY <2>1, <3>1, NotifyKeeps
      <3> QED BY <1>1, <3>2 DEF PollTransmitted, StateInv
    <2>3. CASE state = last_serial_state
      BY <1>1, <2>3 DEF PollTransmitted, StateInv
    <2> QED BY <2>2, <2>3
  <1>2. CASE PollState
    <2> DEFINE busy == ep_state_tx # 0
    <2>1. /\ UNCHANGED <<signals, ctr_tx>>
          /\ rx_overrun_occurred' = FALSE
      BY <1>2 DEF PollState
    <2>2. CASE UNCHANGED device
      BY <2>1, <2>2 DEF StateInv, device
    <2>3. CASE \E state : state \subseteq Signals \cup {"overrun"} /\ Notify(state, busy)
      <3>1. PICK state : state \subseteq Signals \cup {"overrun"} /\ Notify(state, busy)
        BY <2>3
      <3> HIDE DEF busy
      <3>2. /\ last_serial_state' = packet' \cap Signals
            /\ last_serial_state' \subseteq Signals
            /\ pending_interrupt' \subseteq {"overrun"}
            /\ packet' \subseteq Signals \cup {"overrun"}
            /\ valid' \in BOOLEAN
            /\ busy => UNCHANGED <<ep_state_tx, packet, valid>>
            /\ ~busy => ep_state_tx' = 1 /\ valid'
        BY <3>1, NotifyKeeps DEF busy
      <3>3. CASE busy
        <4>1. UNCHANGED <<signals, ctr_tx, ep_state_tx, packet, valid>>
          BY <2>1, <3>2, <3>3
        <4>2. ep_state_tx' = (IF valid' \/ ctr_tx' THEN 1 ELSE 0) /\ ~(valid' /\ ctr_tx')
          BY <4>1 DEF StateInv
        <4> QED BY <2>1, <3>2, <4>2 DEF StateInv
      <3>4. CASE ~busy
        <4>1. ~valid /\ ~ctr_tx
          BY <3>4 DEF busy, StateInv
        <4>2. ep_state_tx' = (IF valid' \/ ctr_tx' THEN 1 ELSE 0) /\ ~(valid' /\ ctr_tx')
          BY <2>1, <3>2, <3>4, <4>1
        <4> QED BY <2>1, <3>2, <4>2 DEF StateInv
      <3> QED BY <3>3, <3>4
    <2>4. \/ UNCHANGED device
          \/ \E state : state \subseteq Signals \cup {"overrun"} /\ Notify(state, busy)
      BY <1>2 DEF PollState, NotifyIfChanged, SerialStateWith, StateInv
    <2> QED BY <2>2, <2>3, <2>4
  <1>3. CASE SetConfiguration
    <2>1. signals \subseteq Signals /\ signals = signals \cap Signals
      BY DEF StateInv
    <2>2. ~ctr_tx /\ ctr_tx' = ctr_tx /\ valid' /\ ep_state_tx' = 1 /\ valid' = TRUE
      BY <1>3 DEF SetConfiguration, StateInv
    <2>3. ep_state_tx' = (IF valid' \/ ctr_tx' THEN 1 ELSE 0) /\ ~(valid' /\ ctr_tx')
      BY <2>2
    <2>4. /\ signals' = signals /\ packet' = signals /\ last_serial_state' = signals
          /\ pending_interrupt' = {} /\ rx_overrun_occurred' = rx_overrun_occurred
      BY <1>3 DEF SetConfiguration
    <2>5. UNCHANGED <<signals, rx_overrun_occurred, ctr_tx>>
      BY <1>3 DEF SetConfiguration
    <2>6. /\ signals' \subseteq Signals /\ packet' \subseteq Signals \cup {"overrun"}
          /\ last_serial_state' \subseteq Signals
          /\ last_serial_state' = packet' \cap Signals
          /\ pending_interrupt' \subseteq {"overrun"}
      BY <2>1, <2>4
    <2>7. rx_overrun_occurred' \in BOOLEAN /\ valid' \in BOOLEAN /\ ctr_tx' \in BOOLEAN
      BY <2>2, <2>5 DEF StateInv
    <2> QED BY <2>3, <2>6, <2>7 DEF StateInv
  <1>4. CASE SignalsChange
    BY <1>4 DEF SignalsChange, StateInv, device
  <1>5. CASE Overrun
    BY <1>5 DEF Overrun, StateInv, device
  <1>6. CASE HostFetch
    BY <1>6 DEF HostFetch, StateInv
  <1>7. CASE UNCHANGED vars
    BY <1>7 DEF vars, device, StateInv
  <1> QED BY <1>1, <1>2, <1>3, <1>4, <1>5, <1>6, <1>7 DEF Next

----------------------------------------------------------------------------
\* How the overruns in the places r, p, v may move to the places a, b, c.
Moved(r, p, v, a, b, c) ==
    \/ a \in {0, r} /\ b \in {0, p} /\ c \in {0, v}
    \/ a = r /\ v = 0 /\ b = 0 /\ (c = 1 => p = 1)
    \/ a = 0 /\ c = v /\ (b = 1 => r = 1 \/ p = 1)
    \/ a = 0 /\ v = 0 /\ b = 0 /\ (c = 1 => r = 1 \/ p = 1)

\* They do not become more.
LEMMA MovedIsLess ==
    \A r, p, v, a, b, c \in {0, 1} : Moved(r, p, v, a, b, c) => a + b + c <= r + p + v
  BY DEF Moved

\* No step puts an overrun into more places than it was in.
LEMMA AccountStep ==
    ASSUME SerialStateAssumption, StateInv, StateInv', Account, [Next]_vars
    PROVE  Account'
  <1>1. /\ InUart \in {0, 1} /\ Pending \in {0, 1} /\ InPacket \in {0, 1}
        /\ InUart' \in {0, 1} /\ Pending' \in {0, 1} /\ InPacket' \in {0, 1}
    BY DEF One, InUart, Pending, InPacket
  <1>2. /\ reports \in Nat /\ overruns \in Nat
        /\ reports + (InUart + Pending + InPacket) <= overruns
    BY DEF Account, InFlight
  <1>3. ASSUME reports' \in Nat, overruns' \in Nat,
               reports' + (InUart' + Pending' + InPacket') <= overruns'
        PROVE  Account'
    BY <1>3 DEF Account, InFlight
  <1>4. ASSUME UNCHANGED <<reports, overruns>>,
               Moved(InUart, Pending, InPacket, InUart', Pending', InPacket')
        PROVE  Account'
    <2>1. \A n, m \in Nat : \A x, y \in Int : n + x <= m /\ y <= x => n + y <= m
      OBVIOUS
    <2>2. InUart + Pending + InPacket \in Int /\ InUart' + Pending' + InPacket' \in Int
      BY <1>1
    <2>3. InUart' + Pending' + InPacket' <= InUart + Pending + InPacket
      BY <1>1, <1>4, MovedIsLess DEF Moved
    <2>4. reports + (InUart' + Pending' + InPacket') <= overruns
      BY <1>2, <2>1, <2>2, <2>3
    <2> QED BY <1>2, <1>3, <1>4, <2>4
  <1>5. CASE PollTransmitted
    <2>1. UNCHANGED <<rx_overrun_occurred, reports, overruns>>
      BY <1>5 DEF PollTransmitted
    <2>2. ~valid
      BY <1>5 DEF PollTransmitted, StateInv
    <2>3. InUart' = InUart /\ InPacket = 0
      BY <2>1, <2>2 DEF InUart, InPacket, One
    <2> DEFINE state == SerialStateWith(pending_interrupt)
    <2>4. CASE state # last_serial_state
      <3>1. pending_interrupt' = {} /\ packet' = state
        BY <1>5, <2>4 DEF PollTransmitted, Notify
      <3>2. Pending' = 0
        BY <3>1 DEF Pending, One
      <3>3. "overrun" \in state => pending_interrupt # {}
        BY DEF SerialStateWith, StateInv, Signals
      <3>4. InPacket' = 1 => Pending = 1
        BY <3>1, <3>3 DEF InPacket, Pending, One
      <3> QED BY <1>4, <2>1, <2>3, <3>2, <3>4 DEF Moved
    <2>5. CASE state = last_serial_state
      <3>1. UNCHANGED <<pending_interrupt, valid, packet>>
        BY <1>5, <2>5 DEF PollTransmitted
      <3>2. Pending' = Pending /\ InPacket' = InPacket
        BY <3>1 DEF Pending, InPacket, One
      <3> QED BY <1>4, <2>1, <2>3, <3>2 DEF Moved
    <2> QED BY <2>4, <2>5
  <1>6. CASE PollState
    <2>1. UNCHANGED <<reports, overruns>> /\ InUart' = 0
      BY <1>6 DEF PollState, InUart, One
    <2>2. CASE UNCHANGED device
      <3>1. Pending' = Pending /\ InPacket' = InPacket
        BY <2>2 DEF device, Pending, InPacket, One
      <3> QED BY <1>4, <2>1, <3>1 DEF Moved
    <2>3. CASE \E state : /\ state \subseteq Signals \cup {"overrun"}
                          /\ "overrun" \in state => InUart = 1 \/ Pending = 1
                          /\ Notify(state, ep_state_tx # 0)
      <3>1. PICK state : /\ state \subseteq Signals \cup {"overrun"}
                         /\ "overrun" \in state => InUart = 1 \/ Pending = 1
                         /\ Notify(state, ep_state_tx # 0)
        BY <2>3
      <3>2. CASE ep_state_tx # 0
        <4>1. UNCHANGED <<valid, packet>> /\ pending_interrupt' = state \ Signals
          BY <3>1, <3>2 DEF Notify
        <4>2. InPacket' = InPacket
          BY <4>1 DEF InPacket, One
        <4>3. Pending' = 1 => "overrun" \in state
          BY <3>1, <4>1 DEF Pending, One
        <4> QED BY <1>4, <2>1, <3>1, <4>2, <4>3 DEF Moved
      <3>3. CASE ep_state_tx = 0
        <4>1. pending_interrupt' = {} /\ packet' = state /\ ~valid
          BY <3>1, <3>3 DEF Notify, StateInv
        <4>2. Pending' = 0 /\ InPacket = 0
          BY <4>1 DEF Pending, InPacket, One
        <4>3. InPacket' = 1 => "overrun" \in state
          BY <4>1 DEF InPacket, One
        <4> QED BY <1>4, <2>1, <3>1, <4>2, <4>3 DEF Moved
      <3> QED BY <3>2, <3>3
    <2>4. CASE rx_overrun_occurred
      <3>1. Notify(SerialStateWith({"overrun"}), ep_state_tx # 0)
        BY <1>6, <2>4 DEF PollState
      <3>2. SerialStateWith({"overrun"}) \subseteq Signals \cup {"overrun"}
        BY DEF SerialStateWith, StateInv
      <3>3. InUart = 1
        BY <2>4 DEF InUart, One
      <3> QED BY <2>3, <3>1, <3>2, <3>3
    <2>5. CASE ~rx_overrun_occurred
      <3> DEFINE state == SerialStateWith(pending_interrupt)
      <3>1. state \subseteq Signals \cup {"overrun"}
        BY DEF SerialStateWith, StateInv
      <3>2. "overrun" \in state => Pending = 1
        BY DEF SerialStateWith, StateInv, Signals, Pending, One
      <3>3. Notify(state, ep_state_tx # 0) \/ UNCHANGED device
        BY <1>6, <2>5 DEF PollState, NotifyIfChanged
      <3> QED BY <2>2, <2>3, <3>1, <3>2, <3>3
    <2> QED BY <2>4, <2>5
  <1>7. CASE SetConfiguration
    <2>1. /\ UNCHANGED <<rx_overrun_occurred, reports, overruns>>
          /\ pending_interrupt' = {} /\ packet' = signals
      BY <1>7 DEF SetConfiguration
    <2>2. "overrun" \notin packet'
      BY <2>1 DEF StateInv, Signals
    <2>3. InUart' = InUart /\ Pending' = 0 /\ InPacket' = 0
      BY <2>1, <2>2 DEF InUart, Pending, InPacket, One
    <2> QED BY <1>4, <2>1, <2>3 DEF Moved
  <1>8. CASE SignalsChange \/ UNCHANGED vars
    <2>1. UNCHANGED <<rx_overrun_occurred, pending_interrupt, valid, packet,
                      reports, overruns>>
      BY <1>8 DEF SignalsChange, vars, device
    <2>2. InUart' = InUart /\ Pending' = Pending /\ InPacket' = InPacket
      BY <2>1 DEF InUart, Pending, InPacket, One
    <2> QED BY <1>4, <2>1, <2>2 DEF Moved
  <1>9. CASE Overrun
    <2>1. UNCHANGED <<pending_interrupt, valid, packet, reports>>
      BY <1>9 DEF Overrun, device
    <2>2. overruns' = overruns + 1
      BY <1>9 DEF Overrun
    <2>3. Pending' = Pending /\ InPacket' = InPacket
      BY <2>1 DEF Pending, InPacket, One
    <2>5. \A n, m \in Nat : \A a, b, c, d \in {0, 1} :
             n + (a + b + c) <= m => n + (d + b + c) <= m + 1
      OBVIOUS
    <2>4. reports + (InUart' + Pending' + InPacket') <= overruns + 1
      BY <1>1, <1>2, <2>3, <2>5
    <2> QED BY <1>2, <1>3, <2>1, <2>2, <2>4
  <1>10. CASE HostFetch
    <2>1. UNCHANGED <<rx_overrun_occurred, pending_interrupt, overruns>> /\ ~valid'
      BY <1>10 DEF HostFetch, StateInv
    <2>2. InUart' = InUart /\ Pending' = Pending /\ InPacket' = 0
      BY <2>1 DEF InUart, Pending, InPacket, One
    <2>3. reports' = reports + InPacket
      BY <1>10 DEF HostFetch, InPacket, One
    <2>4. reports' \in Nat /\ reports' + (InUart' + Pending' + InPacket') <= overruns
      BY <1>1, <1>2, <2>2, <2>3
    <2> QED BY <1>2, <1>3, <2>1, <2>4
  <1> QED BY <1>5, <1>6, <1>7, <1>8, <1>9, <1>10 DEF Next

----------------------------------------------------------------------------
\* The bookkeeping of the endpoint holds, and every report stands for an
\* overrun of its own, for any number of changes, overruns, configurations.
THEOREM ReportInvariant ==
    ASSUME SerialStateAssumption, ~ConfiguresLate PROVE Spec => []ReportInv
  <1>1. Init => ReportInv
    BY InitReport
  <1>2. ReportInv /\ [Next]_vars => ReportInv'
    BY StateStep, AccountStep DEF ReportInv
  <1> QED BY <1>1, <1>2, PTL DEF Spec

\* Type correctness, and the agreement of driver, endpoint and usb_serial.
THEOREM StateCorrect ==
    ASSUME SerialStateAssumption, ~ConfiguresLate PROVE Spec => []StateInv
  <1>1. ReportInv => StateInv
    BY DEF ReportInv
  <1> QED BY <1>1, ReportInvariant, PTL

\* An overrun is reported at most once, however often the endpoint is busy.
THEOREM NoDoubleReport ==
    ASSUME SerialStateAssumption, ~ConfiguresLate PROVE Spec => []ReportedOnce
  <1>1. ReportInv => ReportedOnce
    <2>1. InFlight \in Nat
      BY DEF InFlight, InUart, Pending, InPacket, One
    <2> QED BY <2>1 DEF ReportInv, Account, ReportedOnce
  <1> QED BY <1>1, ReportInvariant, PTL
=============================================================================
