------------------------------- MODULE Device -------------------------------
(***************************************************************************)
(* What the control requests and a bus reset do to the device: the         *)
(* configuration, the endpoints and their buffers, the callbacks, the line *)
(* coding and DTR. A request is one step here: how its stages interleave   *)
(* with the host is the subject of ControlEp0, and what the driver and the *)
(* peripheral do to an endpoint's register while data flows that of FsDev. *)
(***************************************************************************)
EXTENDS LineCoding, PacketMemory, Descriptors, FiniteSets

CONSTANTS
    Rates,          \* bit rates the host asks for
    AskedFormats,   \* framings it asks for
    Lengths         \* values of wLength in requests for data

ASSUME DeviceAssumption ==
    /\ Rates \subseteq Int /\ Lengths \subseteq 0 .. USB_CONTROL_BUF_SIZE
    /\ AskedFormats \subseteq Formats

VARIABLES
    target,             \* the processor
    current_config,     \* 0, or the index of the configuration plus 1
    configured,         \* what usb_cdc_is_connected() goes by
    control_callbacks,  \* handlers of control requests, in slots
    address,            \* USB_DADDR
    endpoint,           \* type, double buffering and status of each endpoint
    ep_callbacks,       \* addresses of endpoints with a handler
    memory,             \* pm_top and BTABLE
    is_enabled,         \* the UART has been enabled
    coding,             \* what set_coding() left behind
    requested,          \* history: the bit rate it was called with
    dtr,
    reply               \* the last request: its name, whether it was refused, data

configVars == <<current_config, configured, control_callbacks>>
endpointVars == <<endpoint, ep_callbacks, memory>>
serialVars == <<is_enabled, coding, requested, dtr>>
vars == <<target, configVars, address, endpointVars, serialVars, reply>>

QSB_MAX_CONTROL_CALLBACKS == 4
EndpointNumbers == 0 .. QSB_NUM_ENDPOINTS - 1
IsTx(addr) == addr >= 128
EpNum(addr) == addr % 16

Disabled == [type |-> QSB_ENDPOINT_ATTR_BULK, dbl_buf |-> FALSE, tx |-> "disabled", rx |-> "disabled"]

----------------------------------------------------------------------------
(* Endpoints. *)

\* Mutant: the second buffer is not set up.
SetupBuffersSingle(mem, ep, is_tx, dbl, size) ==
    LET withTx == IF is_tx \/ ep = 0 THEN SetupBufTx(mem, ep, qsb_offset_tx, size) ELSE mem
    IN  IF is_tx THEN withTx ELSE SetupBufRx(withTx, ep, qsb_offset_rx, size)

\* The buffers of an endpoint, in the order qsb_dev_ep_setup() sets them up.
SetupBuffers(mem, ep, is_tx, dbl, size) ==
    LET tx1 == IF is_tx \/ ep = 0 THEN SetupBufTx(mem, ep, qsb_offset_tx, size) ELSE mem
        tx2 == IF is_tx /\ dbl THEN SetupBufTx(tx1, ep, qsb_offset_db1, size) ELSE tx1
        rx1 == IF ~is_tx THEN SetupBufRx(tx2, ep, qsb_offset_rx, size) ELSE tx2
    IN  IF ~is_tx /\ dbl THEN SetupBufRx(rx1, ep, qsb_offset_db0, size) ELSE rx1

\* qsb_dev_ep_setup(), as a function of registers, handlers and memory.
EpSetup(fs, addr, type, buffer_size, callback) ==
    LET ep == EpNum(addr)
        dbl == type = QSB_ENDPOINT_ATTR_BULK /\ buffer_size > 64
        size == IF dbl THEN 64 ELSE buffer_size
        typed == [fs.endpoint[ep] EXCEPT !.type = type, !.dbl_buf = dbl]
        tx == IF IsTx(addr) \/ ep = 0
              THEN [typed EXCEPT !.tx = IF dbl THEN "valid" ELSE "nak"] ELSE typed
    IN  [endpoint |-> [fs.endpoint EXCEPT
                        ![ep] = IF IsTx(addr) THEN tx ELSE [tx EXCEPT !.rx = "valid"]],
         ep_callbacks |-> fs.ep_callbacks \cup (IF ep # 0 /\ callback THEN {addr} ELSE {}),
         memory |-> SetupBuffers(fs.memory, ep, IsTx(addr), dbl, size)]

\* Mutant: the memory of the configuration before is not given back.
EpResetNoTop(fs) ==
    [fs EXCEPT !.endpoint = [e \in EndpointNumbers |->
                IF e = 0 THEN @[e] ELSE [@[e] EXCEPT !.tx = "disabled", !.rx = "disabled"]]]

\* qsb_internal_ep_reset(): all but endpoint 0, whose buffers stay.
EpReset(fs) ==
    [fs EXCEPT !.endpoint = [e \in EndpointNumbers |->
                IF e = 0 THEN @[e] ELSE [@[e] EXCEPT !.tx = "disabled", !.rx = "disabled"]],
               !.memory.pm_top = PM_TOP_INIT + 2 * bMaxPacketSize0]

\* Mutant: the endpoints' numbers are swapped.
SetupDataEndpointsSwapped(fs) ==
    LET out == EpSetup(fs, DATA_OUT_1 + 1, QSB_ENDPOINT_ATTR_BULK, 2 * CDCACM_PACKET_SIZE, TRUE)
    IN  EpSetup(out, DATA_IN_1 - 1, QSB_ENDPOINT_ATTR_BULK, 2 * CDCACM_PACKET_SIZE, TRUE)

SetupDataEndpoints(fs) ==
    LET out == EpSetup(fs, DATA_OUT_1, QSB_ENDPOINT_ATTR_BULK, 2 * CDCACM_PACKET_SIZE, TRUE)
    IN  EpSetup(out, DATA_IN_1, QSB_ENDPOINT_ATTR_BULK, 2 * CDCACM_PACKET_SIZE, TRUE)

\* The endpoints of on_usb_configured().
SetupEndpoints(fs) ==
    EpSetup(SetupDataEndpoints(fs), COMM_IN_1, QSB_ENDPOINT_ATTR_INTERRUPT, 16, TRUE)

\* send_serial_state() on an endpoint that has just been set up.
SendFirstState(fs) == [fs EXCEPT !.endpoint[EpNum(COMM_IN_1)].tx = "valid"]

FsState == [endpoint |-> endpoint, ep_callbacks |-> ep_callbacks, memory |-> memory]
SetFsState(fs) ==
    /\ endpoint' = fs.endpoint
    /\ ep_callbacks' = fs.ep_callbacks
    /\ memory' = fs.memory

\* The peripheral clears its registers, qsb_dev_poll() and
\* qsb_internal_dev_reset() do the rest. Handlers stay registered.
BusReset ==
    /\ SetFsState(EpSetup([endpoint |-> [e \in EndpointNumbers |-> Disabled],
                           ep_callbacks |-> ep_callbacks,
                           memory |-> [memory EXCEPT !.pm_top = PM_TOP_INIT]],
                          0, QSB_ENDPOINT_ATTR_CONTROL, bMaxPacketSize0, FALSE))
    /\ current_config' = 0
    /\ address' = 0
    /\ reply' = [request |-> "none", refused |-> FALSE, data |-> <<>>]
    /\ UNCHANGED <<target, configured, control_callbacks, serialVars>>

----------------------------------------------------------------------------
(* Requests. *)

Reply(request, data) == reply' = [request |-> request, refused |-> FALSE, data |-> data]
\* QSB_REQ_NOTSUPP: the host sees the request stalled.
Refuse(request) == reply' = [request |-> request, refused |-> TRUE, data |-> <<>>]

SetAddress(value) ==
    /\ IF value >= 128 THEN Refuse("SET_ADDRESS") /\ UNCHANGED address
                       ELSE Reply("SET_ADDRESS", <<>>) /\ address' = value
    /\ UNCHANGED <<target, configVars, endpointVars, serialVars>>

\* qsb_dev_register_control_callback(): the first free slot, if there is one.
RegisterControlCallback(callbacks, callback) ==
    IF Len(callbacks) < QSB_MAX_CONTROL_CALLBACKS THEN Append(callbacks, callback) ELSE callbacks

\* uart_impl::enable() and set_dtr(true).
EnableUart ==
    /\ is_enabled' = TRUE
    /\ requested' = 9600
    /\ coding' \in SetCoding(target, 9600,
                             [databits |-> 8, stopbits |-> "1", parity |-> "none"])
    /\ dtr' = TRUE

\* set_configuration() and cdc_set_config(), which it calls for value 0 as well.
SetConfiguration(value) ==
    /\ IF value \in {0, bConfigurationValue}
       THEN /\ current_config' = value
            /\ configured' = value
            /\ control_callbacks' = RegisterControlCallback(<<>>, "cdc_control_request")
            /\ SetFsState(SendFirstState(SetupEndpoints(EpReset(FsState))))
            /\ EnableUart
            /\ Reply("SET_CONFIGURATION", <<>>)
       ELSE /\ Refuse("SET_CONFIGURATION")
            /\ UNCHANGED <<configVars, endpointVars, serialVars>>
    /\ UNCHANGED <<target, address>>

\* Requests that change nothing.
Answer(request, data, len) ==
    /\ Reply(request, FirstBytes(data, len))
    /\ UNCHANGED <<target, configVars, address, endpointVars, serialVars>>
Ignore(request) ==
    /\ Refuse(request)
    /\ UNCHANGED <<target, configVars, address, endpointVars, serialVars>>

GetConfiguration(len) ==
    Answer("GET_CONFIGURATION",
           <<IF current_config > 0 THEN bConfigurationValue ELSE 0>>, len)

\* A string is refused if there is none or if it is asked for in a language
\* other than English.
GetDescriptor(len) ==
    \/ Answer("GET_DESCRIPTOR device", dev_desc, len)
    \/ Answer("GET_DESCRIPTOR configuration", BuildConfigDescriptor, len)
    \/ \E index \in 0 .. Len(usb_strings) :
          Answer("GET_DESCRIPTOR string", StringDescriptor(index), len)
    \/ Ignore("GET_DESCRIPTOR")

\* A host asks for interfaces only of a device it has configured; the code
\* reads config[current_config - 1] in any case.
GetInterface(interface) ==
    /\ current_config > 0
    /\ IF interface < Len(usb_interfaces) THEN Answer("GET_INTERFACE", <<0>>, 1)
                                          ELSE Ignore("GET_INTERFACE")

\* No interface has a cur_altsetting, so that only setting 0 exists.
SetInterface(interface, setting) ==
    /\ current_config > 0
    /\ IF /\ interface < Len(usb_interfaces)
          /\ setting < Len(usb_interfaces[interface + 1].altsetting)
       THEN Answer("SET_INTERFACE", <<>>, 0)
       ELSE Ignore("SET_INTERFACE")

GetDeviceOrInterfaceStatus(len) == Answer("GET_STATUS", <<0, 0>>, len)

\* SET_FEATURE and CLEAR_FEATURE know the halt of an endpoint only. Halts are
\* modelled for the one single-buffered endpoint: the code has none for others.
HaltEndpoint(stall) ==
    /\ current_config > 0
    /\ endpoint' = [endpoint EXCEPT ![EpNum(COMM_IN_1)].tx = IF stall THEN "stall" ELSE "nak"]
    /\ Reply(IF stall THEN "SET_FEATURE" ELSE "CLEAR_FEATURE", <<>>)
    /\ UNCHANGED <<target, configVars, address, ep_callbacks, memory, serialVars>>

GetEndpointStatus(len) ==
    /\ current_config > 0
    /\ Answer("GET_STATUS endpoint",
              <<IF endpoint[EpNum(COMM_IN_1)].tx = "stall" THEN 1 ELSE 0, 0>>, len)

\* bRequest of standard requests, by recipient: those there is a command for.
\* Of the features only ENDPOINT_HALT is known.
StandardRequests ==
    {"GET_STATUS", "CLEAR_FEATURE", "SET_FEATURE", "SET_ADDRESS", "GET_DESCRIPTOR",
     "SET_DESCRIPTOR", "GET_CONFIGURATION", "SET_CONFIGURATION", "GET_INTERFACE",
     "SET_INTERFACE", "SYNCH_FRAME"}
DeviceCommands ==
    {"SET_ADDRESS", "SET_CONFIGURATION", "GET_CONFIGURATION", "GET_DESCRIPTOR", "GET_STATUS"}
InterfaceCommands == {"GET_INTERFACE", "SET_INTERFACE", "GET_STATUS"}
EndpointCommands(feature) ==
    {"GET_STATUS"} \cup (IF feature = "ENDPOINT_HALT" THEN {"SET_FEATURE", "CLEAR_FEATURE"} ELSE {})
HasCommand(recipient, request, feature) ==
    request \in CASE recipient = "device" -> DeviceCommands
                  [] recipient = "interface" -> InterfaceCommands
                  [] recipient = "endpoint" -> EndpointCommands(feature)
                  [] recipient = "other" -> {}
Unsupported(recipient, request, feature) ==
    ~HasCommand(recipient, request, feature) /\ Ignore(request)

\* dispatch_request(): requests of the class have a handler once there has been
\* a SET_CONFIGURATION, before it they are refused as no standard ones.
HasClassHandler == \E i \in DOMAIN control_callbacks : control_callbacks[i] = "cdc_control_request"

\* cdc_control_request() and set_line_coding(); a full structure has 7 bytes.
SetLineCoding(len, interface, baud, format) ==
    /\ IF HasClassHandler /\ len >= 7 /\ interface = INTF_COMM /\ FormatAccepted(format)
       THEN /\ coding' \in SetCoding(target, baud, format)
            /\ requested' = baud
            /\ Reply("SET_LINE_CODING", <<>>)
       ELSE Refuse("SET_LINE_CODING") /\ UNCHANGED <<coding, requested>>
    /\ UNCHANGED <<target, configVars, address, endpointVars, is_enabled, dtr>>

\* The reply is the coding itself, in a structure of 7 bytes.
GetLineCoding(len, interface) ==
    IF HasClassHandler /\ len >= 7 /\ interface = INTF_COMM
    THEN /\ Reply("GET_LINE_CODING", <<coding.generator.rate, coding.format>>)
         /\ UNCHANGED <<target, configVars, address, endpointVars, serialVars>>
    ELSE Ignore("GET_LINE_CODING")

SetControlLineState(value) ==
    /\ IF HasClassHandler THEN dtr' = (value % 2 = 1) /\ Reply("SET_CONTROL_LINE_STATE", <<>>)
                          ELSE UNCHANGED dtr /\ Refuse("SET_CONTROL_LINE_STATE")
    /\ UNCHANGED <<target, configVars, address, endpointVars, is_enabled, coding, requested>>

----------------------------------------------------------------------------
NoCoding ==
    [generator |-> [rate |-> 0, brr |-> 0, over8 |-> FALSE], tx_max_chunk_size |-> 0,
     rx_high_water_mark |-> 0, format |-> [databits |-> 0, stopbits |-> "1", parity |-> "none"],
     frame_bits |-> 0]

\* After usb_cdc_init(): the host resets the bus before anything else.
Init ==
    /\ target \in Targets
    /\ current_config = 0 /\ configured = 0 /\ control_callbacks = <<>> /\ address = 0
    /\ endpoint = [e \in EndpointNumbers |-> Disabled]
    /\ ep_callbacks = {} /\ memory = InitialMemory
    /\ is_enabled = FALSE /\ coding = NoCoding /\ requested = 0 /\ dtr = FALSE
    /\ reply = [request |-> "none", refused |-> FALSE, data |-> <<>>]

\* Endpoint 0 answers once it has been set up.
Request ==
    /\ endpoint[0].rx = "valid"
    /\ \/ \E value \in {5, 200} : SetAddress(value)
       \/ \E value \in 0 .. 2 : SetConfiguration(value)
       \/ \E interface \in 0 .. 2 :
             \/ GetInterface(interface)
             \/ \E setting \in 0 .. 1 : SetInterface(interface, setting)
       \/ \E stall \in BOOLEAN : HaltEndpoint(stall)
       \/ \E recipient \in {"device", "interface", "endpoint", "other"} :
             \E request \in StandardRequests, feature \in {"ENDPOINT_HALT", "REMOTE_WAKEUP"} :
                Unsupported(recipient, request, feature)
       \/ \E value \in 2 .. 3 : SetControlLineState(value)
       \/ \E len \in Lengths :
             \/ GetConfiguration(len)
             \/ GetDescriptor(len)
             \/ GetDeviceOrInterfaceStatus(len)
             \/ GetEndpointStatus(len)
             \/ \E interface \in 0 .. 1 :
                   \/ GetLineCoding(len, interface)
                   \/ \E baud \in Rates, format \in AskedFormats :
                         SetLineCoding(len, interface, baud, format)

Next == BusReset \/ Request

Spec == Init /\ [][Next]_vars
----------------------------------------------------------------------------
(* Properties. *)

\* Every variable has its type.
TypeOK ==
    /\ target \in Targets /\ current_config \in 0 .. 1 /\ configured \in 0 .. 1
    /\ control_callbacks \in {<<>>, <<"cdc_control_request">>}
    /\ address \in 0 .. 127
    /\ endpoint \in [EndpointNumbers -> [type : {0, 2, 3}, dbl_buf : BOOLEAN,
                                         tx : {"disabled", "stall", "nak", "valid"},
                                         rx : {"disabled", "valid"}]]
    /\ ep_callbacks \subseteq {DATA_OUT_1, DATA_IN_1, COMM_IN_1}
    /\ memory.pm_top \in PM_TOP_INIT .. PACKET_MEMORY_SIZE
    /\ is_enabled \in BOOLEAN /\ dtr \in BOOLEAN /\ requested \in Rates \cup {0, 9600}
    /\ coding.tx_max_chunk_size \in 16 .. 256 \/ ~is_enabled
    /\ coding.generator.brr \in 16 .. MaxDivider \/ ~is_enabled
    /\ coding.frame_bits \in 8 .. 9 \/ ~is_enabled
    /\ reply.refused \in BOOLEAN /\ Len(reply.data) <= USB_CONTROL_BUF_SIZE

\* What a host learns from the configuration descriptor is what the device does
\* once configured, whatever resets and configurations came before: each
\* endpoint it finds has the type and a buffer of the size announced, answers in
\* its direction only and has a handler, and no other endpoint answers. The
\* descriptors are in usb_conf.cpp, the set-up in usb_serial.cpp.
EndpointsAsAdvertised ==
    LET advertised == AdvertisedEndpoints(BuildConfigDescriptor)
    IN  current_config = 1 =>
        /\ \A e \in advertised :
              /\ endpoint[EpNum(e.addr)].type = e.type
              /\ e.addr \in ep_callbacks
              /\ IF IsTx(e.addr)
                 THEN /\ endpoint[EpNum(e.addr)].tx # "disabled"
                      /\ endpoint[EpNum(e.addr)].rx = "disabled"
                 ELSE /\ endpoint[EpNum(e.addr)].rx # "disabled"
                      /\ endpoint[EpNum(e.addr)].tx = "disabled"
                      /\ \A offset \in {0, 1} :
                            BlocksSize(memory.btable[<<EpNum(e.addr), offset>>]) = e.size
        /\ \A n \in EndpointNumbers \ {0} :
              ~(\E e \in advertised : EpNum(e.addr) = n) =>
                    endpoint[n].tx = "disabled" /\ endpoint[n].rx = "disabled"

\* The buffers the peripheral uses: of a receive buffer all that BTABLE says,
\* of a transmit buffer the largest packet announced for the endpoint.
SentSize(n) ==
    IF n = 0 THEN bMaxPacketSize0
    ELSE (CHOOSE e \in AdvertisedEndpoints(BuildConfigDescriptor) : EpNum(e.addr) = n).size
BuffersInUse ==
    {[at |-> b, size |-> SentSize(b[1])] : b \in {c \in DOMAIN memory.btable :
        /\ endpoint[c[1]].tx # "disabled"
        /\ c[2] = qsb_offset_tx \/ endpoint[c[1]].dbl_buf}}
    \cup
    {[at |-> b, size |-> BlocksSize(memory.btable[b])] : b \in {c \in DOMAIN memory.btable :
        /\ endpoint[c[1]].rx # "disabled"
        /\ c[2] = qsb_offset_rx \/ endpoint[c[1]].dbl_buf}}
Memory(b) == memory.btable[b.at].addr .. memory.btable[b.at].addr + b.size - 1

\* However often the bus is reset and the device configured, the packet buffers
\* in use lie within the packet memory, outside BTABLE, and do not overlap:
\* qsb_internal_ep_reset() and the bus reset put pm_top to the right place.
BuffersDisjoint ==
    /\ \A b \in BuffersInUse :
          Memory(b) \subseteq (0 .. PACKET_MEMORY_SIZE - 1) \ BufferDescriptorTable
    /\ \A b, c \in BuffersInUse : b # c => Memory(b) \cap Memory(c) = {}

\* The reply to a request for the whole configuration descriptor can be read by
\* its lengths and counts: the total length is that of the reply; interfaces are
\* numbered from 0 and each is followed by as many endpoints as it announces;
\* the interfaces and strings the other descriptors refer to exist.
ConfigDescriptorParses ==
    LET b == reply.data
        interfaces == Places(b, QSB_DT_INTERFACE)
    IN  /\ reply.request = "GET_DESCRIPTOR configuration"
        /\ Len(b) >= Len(BuildConfigDescriptor)
        => /\ \A i \in DOMAIN DescriptorStarts(b) : DescriptorStarts(b)[i] # 0
           /\ b[3] + 256 * b[4] = Len(b)
           /\ {b[p + 2] : p \in interfaces} = 0 .. b[5] - 1
           /\ Cardinality(interfaces) = b[5]
           /\ \A p \in interfaces : /\ Cardinality(EndpointsOf(b, p)) = b[p + 4]
                                    /\ b[p + 8] \in DOMAIN usb_strings
           /\ \A p \in Places(b, QSB_DT_INTERFACE_ASSOCIATION) :
                 /\ b[p + 2] .. b[p + 2] + b[p + 3] - 1 \subseteq 0 .. b[5] - 1
                 /\ b[p + 7] \in DOMAIN usb_strings
           /\ Cardinality(Places(b, QSB_CDC_FUNC_DT_INTERFACE)) = 4
           /\ Cardinality(AdvertisedEndpoints(b)) = Cardinality(Places(b, QSB_DT_ENDPOINT))

Distance(a, b) == IF a > b THEN a - b ELSE b - a

\* The USART runs at the possible bit time that is nearest to the one asked for,
\* or at its slowest or fastest if that is out of reach (uart.cpp:423, 456): no
\* divider one above or below, if there is one, comes nearer.
NearestDivider ==
    LET cycles == CyclesPerBit(coding.generator)
        error(c) == Distance(Clock(target), c * requested)
    IN  is_enabled =>
        /\ cycles \in PossibleCycles(target)
        /\ requested > 0 =>
              \A c \in {cycles - 1, cycles + 1} \cap PossibleCycles(target) :
                    error(cycles) <= error(c)

\* The line coding a host reads is the one in use: the rate, which is not the one
\* asked for at either end of the range, is that of the divider, to half a unit of
\* the one or the other; and writing the coding back changes nothing, neither
\* divider nor high-water mark nor format (uart.cpp:429, 443).
CodingRoundTrip ==
    LET cycles == CyclesPerBit(coding.generator)
        rate == coding.generator.rate
    IN  is_enabled =>
        /\ 2 * Distance(Clock(target), cycles * rate) <= (IF cycles > rate THEN cycles ELSE rate)
        /\ requested > 0 => SetCoding(target, rate, coding.format) = {coding}

\* At every bit rate the README announces, the receive buffer can be below the
\* high-water mark, so that RTS is asserted, and reach it, so that RTS is withdrawn.
FlowControlUsable ==
    is_enabled /\ requested \in 1200 .. 3000000 =>
        coding.rx_high_water_mark \in 1 .. UART_RX_BUF_LEN - 1
=============================================================================
