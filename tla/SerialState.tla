---------------------------- MODULE SerialState ----------------------------
(***************************************************************************)
(* Notifications of the serial state: the signals DCD and DSR and overruns *)
(* of the receive buffer, which usb_serial_impl reports to the host with   *)
(* SERIAL_STATE packets on the interrupt endpoint COMM_IN_1, a single-     *)
(* buffered endpoint of qsb_drv_fsdev_plus.c.  The endpoint takes one      *)
(* packet at a time; what it does not take is tried again.                 *)
(*                                                                         *)
(* A serial state is a set: of asserted signals, and "overrun".            *)
(***************************************************************************)
EXTENDS Integers

CONSTANTS
    ConfiguresLate,     \* may the host send SET_CONFIGURATION before the device
                        \* has polled the end of a notification?
    MaxChanges, MaxOverruns, MaxConfigs     \* bounds: changes of the signals,
                                            \* overruns, SET_CONFIGURATIONs

ASSUME SerialStateAssumption ==
    /\ ConfiguresLate \in BOOLEAN
    /\ MaxChanges \in Nat /\ MaxOverruns \in Nat /\ MaxConfigs \in Nat

VARIABLES
    signals,                \* the asserted input signals
    rx_overrun_occurred,    \* of the UART
    last_serial_state, pending_interrupt,
    ep_state_tx,            \* of COMM_IN_1: number of packets submitted
    packet, valid,          \* packet buffer; STAT_TX is VALID
    ctr_tx,                 \* CTR_TX of the endpoint register
    host_state,             \* the last state the host was notified of
    reports,                \* history: overruns the host was notified of
    changes, overruns, configs      \* how often the environment has acted

device == <<last_serial_state, pending_interrupt, ep_state_tx, packet, valid>>
vars == <<signals, rx_overrun_occurred, device, ctr_tx, host_state, reports,
          changes, overruns, configs>>

Signals == {"dcd", "dsr"}

----------------------------------------------------------------------------
(* The device. *)

\* serial_state() with pending interrupts p.
SerialStateWith(p) == p \cup signals

\* Mutants of notify_serial_state(): a rejected packet counts as sent; the
\* state sent is not noted; the interrupt stays pending.
NotifyForgets(state, busy) ==
    /\ last_serial_state' = state \cap Signals
    /\ pending_interrupt' = {}
    /\ IF busy
       THEN UNCHANGED <<ep_state_tx, packet, valid>>
       ELSE ep_state_tx' = 1 /\ packet' = state /\ valid' = TRUE
NotifyUnnoted(state, busy) ==
    /\ UNCHANGED last_serial_state
    /\ IF busy
       THEN UNCHANGED <<pending_interrupt, ep_state_tx, packet, valid>>
       ELSE /\ pending_interrupt' = {}
            /\ ep_state_tx' = 1 /\ packet' = state /\ valid' = TRUE
NotifyRepeats(state, busy) ==
    /\ pending_interrupt' = state \ Signals
    /\ IF busy
       THEN UNCHANGED <<last_serial_state, ep_state_tx, packet, valid>>
       ELSE /\ last_serial_state' = state \cap Signals
            /\ ep_state_tx' = 1 /\ packet' = state /\ valid' = TRUE

\* notify_serial_state(), and the single-buffered qsb_dev_ep_transmit_packet(),
\* for an endpoint that is busy or not.  The interrupt of a state that cannot
\* be sent becomes, or remains, pending.
Notify(state, busy) ==
    IF busy
    THEN /\ pending_interrupt' = state \ Signals
         /\ UNCHANGED <<last_serial_state, ep_state_tx, packet, valid>>
    ELSE /\ last_serial_state' = state \cap Signals
         /\ pending_interrupt' = {}
         /\ ep_state_tx' = 1 /\ packet' = state /\ valid' = TRUE

\* poll(), and on_usb_ctrl_completed(): the state differs from what was sent.
NotifyIfChanged(busy) ==
    LET state == SerialStateWith(pending_interrupt)
    IN  IF state # last_serial_state THEN Notify(state, busy) ELSE UNCHANGED device

\* qsb_dev_poll(): the host has fetched a packet; usb_comm_in_cb().
PollTransmitted ==
    /\ ctr_tx
    /\ ctr_tx' = FALSE
    /\ LET state == SerialStateWith(pending_interrupt)
       IN  IF state # last_serial_state
           THEN Notify(state, FALSE)
           ELSE /\ ep_state_tx' = 0
                /\ UNCHANGED <<last_serial_state, pending_interrupt, packet, valid>>
    /\ UNCHANGED <<signals, rx_overrun_occurred, host_state, reports, changes,
                   overruns, configs>>

\* The part of poll() about the serial state.  An overrun is reported at once:
\* has_rx_overrun_occurred() clears the flag, on_interrupt_occurred() notifies.
PollState ==
    /\ IF rx_overrun_occurred
       THEN Notify(SerialStateWith({"overrun"}), ep_state_tx # 0)
       ELSE NotifyIfChanged(ep_state_tx # 0)
    /\ rx_overrun_occurred' = FALSE
    /\ UNCHANGED <<signals, ctr_tx, host_state, reports, changes, overruns, configs>>

\* SET_CONFIGURATION: qsb_internal_ep_reset() and on_usb_configured() discard a
\* packet that was not sent; cdc_set_config() then sends the serial state.  The
\* completion of an earlier packet stays flagged.
SetConfiguration ==
    /\ configs < MaxConfigs /\ configs' = configs + 1
    /\ ctr_tx => ConfiguresLate
    /\ last_serial_state' = signals /\ pending_interrupt' = {}
    /\ ep_state_tx' = 1 /\ packet' = signals /\ valid' = TRUE
    /\ UNCHANGED <<signals, rx_overrun_occurred, ctr_tx, host_state, reports,
                   changes, overruns>>

----------------------------------------------------------------------------
(* Serial line, peripheral and host. *)

SignalsChange ==
    /\ changes < MaxChanges /\ changes' = changes + 1
    /\ \E s \in SUBSET Signals : s # signals /\ signals' = s
    /\ UNCHANGED <<rx_overrun_occurred, device, ctr_tx, host_state, reports,
                   overruns, configs>>

\* check_rx_overrun() finds an overrun (see UartRx).
Overrun ==
    /\ overruns < MaxOverruns /\ overruns' = overruns + 1
    /\ rx_overrun_occurred' = TRUE
    /\ UNCHANGED <<signals, device, ctr_tx, host_state, reports, changes, configs>>

\* The host fetches the packet submitted.
HostFetch ==
    /\ valid
    /\ valid' = FALSE /\ ctr_tx' = TRUE
    /\ host_state' = packet
    /\ reports' = reports + IF "overrun" \in packet THEN 1 ELSE 0
    /\ UNCHANGED <<signals, rx_overrun_occurred, last_serial_state,
                   pending_interrupt, ep_state_tx, packet, changes, overruns, configs>>

----------------------------------------------------------------------------
\* After the first SET_CONFIGURATION.
Init ==
    /\ signals \in SUBSET Signals
    /\ rx_overrun_occurred = FALSE
    /\ last_serial_state = signals /\ pending_interrupt = {}
    /\ ep_state_tx = 1 /\ packet = signals /\ valid = TRUE /\ ctr_tx = FALSE
    /\ host_state = {} /\ reports = 0
    /\ changes = 0 /\ overruns = 0 /\ configs = 0

Next == PollTransmitted \/ PollState \/ SetConfiguration
        \/ SignalsChange \/ Overrun \/ HostFetch

\* The main loop turns for ever and the host polls the interrupt endpoint.
Fairness == WF_vars(PollTransmitted) /\ WF_vars(PollState) /\ WF_vars(HostFetch)

Spec == Init /\ [][Next]_vars /\ Fairness

----------------------------------------------------------------------------
(* Properties *)

\* Types; the driver's count is that of the peripheral, and last_serial_state
\* is what the last packet said.
StateInv ==
    /\ signals \subseteq Signals /\ packet \subseteq Signals \cup {"overrun"}
    /\ last_serial_state \subseteq Signals /\ pending_interrupt \subseteq {"overrun"}
    /\ rx_overrun_occurred \in BOOLEAN /\ valid \in BOOLEAN /\ ctr_tx \in BOOLEAN
    /\ ep_state_tx = IF valid \/ ctr_tx THEN 1 ELSE 0
    /\ ~(valid /\ ctr_tx)
    /\ last_serial_state = packet \cap Signals

\* An overrun is reported once, however often it takes to get rid of the packet.
ReportedOnce == reports <= overruns

\* "Notifies the host that an interrupt has occurred": every overrun is
\* followed by a report, unless the device is configured anew before.
OverrunsReported ==
    \A n \in 0 .. MaxOverruns, c \in 0 .. MaxConfigs :
        rx_overrun_occurred /\ reports = n /\ configs = c
            ~> reports > n \/ configs > c

\* Once the signals have settled, the host knows them.
HostKnowsSignals == <>[](host_state \cap Signals = signals)
=============================================================================
