# A TLA+ verification of the USB Serial firmware

*USB Serial* turns an STM32 microcontroller into a USB-to-serial adapter. Its
promise is easily stated: a byte that goes in at one end comes out at the other,
in order, once, whatever the bit rate, as long as hardware flow control is used
(`README.md:11`, `README.md:25-29` of the repository). This directory states that
promise, the state machines that keep it, and the places where it depends on
something that no unit test reaches: DMA channels and a USB peripheral that run
beside the main loop, rings that wrap around, buffers that are acknowledged late.

Contents: [the system](#1-the-system), [the modules](#2-the-modules),
[the runs](#3-the-runs), [the proofs](#4-the-proofs),
[assumptions](#5-what-is-assumed-of-hardware-host-and-peer),
[findings](#6-findings), [what is not modelled](#7-what-is-not-modelled),
[plan](#8-plan).

## 1. The system

The firmware is single-threaded. `main()` (`firmware/src/main.cpp`) calls
`usb_serial.poll()` for ever; everything else is called from there, except the
SysTick handler, which only counts milliseconds. Concurrency comes from hardware:
two DMA channels, the USART and the USB peripheral go on between any two steps of
the main loop, and the host and the serial peer behind them do as they like.

| Component | State | Operations | Interacts with |
|---|---|---|---|
| UART, transmit side (`uart.cpp`) | ring `tx_buf`, head, tail, `tx_size`, `is_transmitting`, `tx_max_chunk_size` | `transmit`, `start_transmission`, `poll_tx_complete`, `tx_data_avail`, `enable`, `set_coding` | DMA channel (flag, counter), USB callback, main loop |
| UART, receive side (`uart.cpp`) | ring `rx_buf`, `rx_buf_tail`, `last_rx_size`, `rx_overrun_occurred`, high-water mark, RTS pin | `copy_rx_data`, `rx_data_len`, `check_rx_overrun`, `has_rx_overrun_occurred`, `update_rts`, `enable`, `set_coding` | circular DMA channel, peer (RTS), main loop |
| `usb_serial` (`usb_serial.cpp`) | `needs_zlp`, `is_tx_high_water`, `last_serial_state`, `tx_timestamp`, `pending_interrupt` | `on_usb_configured`, `on_usb_data_received`, `poll`, `update_nak`, `notify_serial_state`, line coding, DTR | endpoint driver, UART, clock |
| USB device driver (`qsb_drv_fsdev_plus.c`) | `ep_state_rx`, `ep_state_tx`, `ep_outstanig_rx_acks`, `active_ep_callback`, packet memory | `qsb_dev_poll`, pause/unpause, transmit/read packet, setup, reset, stall | USB peripheral (endpoint registers), callbacks |
| Control endpoint (`qsb_control.c`, `qsb_standard.c`) | `control_state` (state, remaining data, completion), address, configuration | SETUP, OUT and IN handlers, standard requests | driver, `usb_cdc.cpp` |
| CDC class (`usb_cdc.cpp`) | `configured` | line coding, control line state, set configuration | control endpoint, `usb_serial` |
| Line coding (`uart.cpp`) | `baudrate`, framing, `rx_high_water_mark`, the USART's divider and oversampling | `set_coding`, `set_baudrate`, `baudrate`, `databits`, `stopbits`, `parity` | control endpoint (class requests), both rings |
| Endpoint registers (`qsb_fsdev_ep.h`) | USB_EPnR, shared with the peripheral | set type, status, data toggle, buffer bit; clear completion flags; toggle SW_BUF | driver on one side, peripheral on the other |
| Packet memory (`qsb_drv_fsdev_plus.c`, `qsb_fsdev_btable.h`) | `pm_top`, BTABLE, buffers | `setup_buf_tx`, `setup_buf_rx`, `copy_to_pma`, `copy_from_pma` | peripheral, which writes received packets |
| Clock, LEDs (`common.cpp`, `uart.cpp`, `main.cpp`) | `millis_count`, LED timeouts | `has_expired`, `update_leds` | everything with a timeout |
| Descriptors, serial number (`usb_conf.cpp`, `qsb_standard.c`, `qsb_serial_no.c`) | constant data | GET_DESCRIPTOR, `build_config_descriptor` | control endpoint, endpoint set-up |
| Throttler (`throttler/src/main.cpp`) | CTS output, counters | test hardware that slows a serial line down | adapter's CTS |
| Loopback test (`test/`) | pseudo random sequences, two threads | sends and compares | adapter through the OS |

What makes them correct, and what is hard about it:

* **Transmit ring.** FIFO; never writes a cell the DMA channel still reads; never
  idle with data left; full and empty are never confused. Hard: `transmit()`
  recurses over the wrap-around *after* it has started a transfer, and a transfer
  may complete at any moment.
* **Flow control from the host.** The endpoint is paused while there is still room
  for two packets; the packets already on their way are acknowledged later. No
  byte is discarded; every withheld acknowledgement is given back exactly once;
  driver and hardware agree on which of the two buffers comes next.
* **Receive ring.** No byte is lost if the peer obeys RTS; copies never mix old
  and new bytes; overruns are reported when they happen and only then.
* **Way to the host.** Bytes are held back for company but not for ever; transfers
  are completed by a short or empty packet; buffers are not refilled too early.
* **Control endpoint.** Each request has one data and one status stage; a new SETUP
  ends an unfinished one; a STALL is lifted by the next SETUP.
* **Line coding.** The divider is the one whose rate is nearest to the one asked for;
  what a host reads it can write back unchanged. Hard: 32-bit arithmetic at the
  ends of the range, the switch of the oversampling, two processors with different
  clocks.
* **Endpoint registers.** A write sets what is 1, toggles what toggles, or clears what
  is 0, depending on the bit, and the peripheral sets flags between read and
  write. No operation may undo what the peripheral did meanwhile; after each
  configuration both sides start at the same toggle and the same buffer, whatever
  was left of the one before.
* **Device.** The endpoints set up are those the descriptors announce; buffers never
  overlap however often the host configures; a reply is never longer than asked
  for and can be parsed.
* **Serial state.** Every change of DCD/DSR and every overrun reaches the host
  eventually although the notification endpoint has a single buffer.

`PROJECT.json` lists the hazards one by one, at the line where each bites, with the
properties that would catch it.

## 2. The modules

| Module | Models | Uses |
|---|---|---|
| `BytePipe` | the abstract promise: a bounded, lossless, ordered pipe | |
| `UartTx` | transmit side of `uart_impl` and its DMA channel | |
| `UsbToSerial` | host, OUT endpoint, driver, flow control, transmit side | `UartTx`, refines `BytePipe` |
| `UartRx` | receive side of `uart_impl`, its DMA channel, a peer that knows RTS | |
| `SerialToUsb` | receive side, hold-back, IN endpoint, clock, host | `UartRx`, refines `BytePipe` |
| `SerialState` | notifications of DCD, DSR and overruns on the interrupt endpoint | |
| `ControlEp0` | control transfers: host, endpoint 0, `qsb_control.c`, bus reset | |
| `LineCoding` | bit rate, divider, framing, chunk size and high-water mark, as operators | |
| `Descriptors` | the descriptors byte by byte, replies cut to `wLength`, as operators | |
| `PacketMemory` | layout of the packet memory, copies in half words, as operators | |
| `EndpointRegister` | what a write of USB_EPnR does; the driver's register operations | |
| `Device` | requests and bus resets: configuration, endpoints, buffers, line coding, DTR | `LineCoding`, `PacketMemory`, `Descriptors` |
| `FsDev` | driver and peripheral on one endpoint, register access by register access | `EndpointRegister`, `PacketMemory` |
| `UartTxProofs`, `UsbToSerialProofs`, `SerialStateProofs`, `UartRxProofs`, `SerialToUsbProofs`, `ControlEp0Proofs`, `DeviceProofs`, `FsDevProofs` | theorems about the module of that name, and their proofs | `TLAPS`; `SerialToUsbProofs` uses `UartRxProofs`, `UsbToSerialProofs` uses `UartTxProofs` |
| `MC...` | constants for TLC | |

**Bytes** are represented by their place in the stream: the k-th byte is the number
k-1. "In order, once, nothing skipped" then reads `wire[i] = i - 1`.

**`UartTx`.** The variables are the fields of `uart_impl`; `xfer` is a record that
holds `is_transmitting` and `tx_size` together with the DMA channel's own state
(enabled, next cell, remaining count, transfer-complete flag), so that it can be
compared with the driver's idea of it. `Transmit` is the whole of `transmit()`,
the recursive call included: the recursion has at most two levels that copy
something (lemma `TwoCalls` of `UartTxProofs`), so the action has a first and a
second chunk. `PollTx` is `poll_tx_complete()` followed by `start_transmission()`.
`Enable` is the transmit side of `enable()`, called for each SET_CONFIGURATION.
`DmaByte` is the DMA channel. `tx_base`, `accepted`, `offered`, `wire` are history
variables.

**`UsbToSerial`.** `pc` is the place of the main loop in `usb_serial.poll()`:
`"usb"` (inside `qsb_dev_poll()`), `"uart"` (before `uart.poll()`), `"nak"` (before
`update_nak()`). `rx.state` is `ep_state_rx` with the numeric values of the C enum,
because the code does arithmetic on them (`+= 2`, `-= 2`, `^= 1`, `& 1`); `rx.acks` is
`ep_outstanig_rx_acks`; `rx.unacked` is what the *hardware* knows: packet buffers
filled and not yet given back by a toggle of SW_BUF. `UsbDataReceived` is one turn
of the CTR loop: callback, `transmit()`, `update_nak()` (which may pause the
endpoint from inside its own callback) and the acknowledgement that follows.

**`UartRx`.** `rx_step` splits the main loop where the DMA channel matters: before
`poll()`, between `poll()` and `copy_rx_data()`, and inside `copy_rx_data()` between
the sampling of the DMA counter and the copy. `RxPoll` is the receive side of
`poll()`: `update_rts()`, then `check_rx_overrun()`. A peer that `"obeys"` sends while
RTS is asserted and up to `Slack` bytes after it has been withdrawn, one that `"ignores"`
RTS sends at any time; `peer` is chosen at the start.

**`SerialToUsb`.** Adds the decision to send (`WantsToSend`: zero-length packet due,
enough data, or hold-back time expired), which `Decide` makes on one reading of the DMA
counter (`usb_serial.cpp:111`) and `SendBegin` carries out on the next one
(`uart.cpp:244`), with `sending` set and bytes arriving in between; the IN endpoint with
its two buffers as the driver counts them (`in_state`) and as the peripheral has them
(`in_filled`, `in_hw_buf`), the wrapping clock, and a host that collects packets into
transfers: `host_done` counts the bytes of *completed* transfers, which is what a program
on the host gets to see.

**`SerialState`.** The variables of `usb_serial_impl`, the single-buffered endpoint
COMM_IN_1 and the flag `rx_overrun_occurred`. A serial state is a set of signals and
`"overrun"` instead of bits. `PollState` is the part of `poll()` after `update_nak()`,
`PollTransmitted` the CTR_TX branch with `usb_comm_in_cb()`; both may call
`notify_serial_state()`, which the endpoint rejects while it is busy.

**`ControlEp0`.** `dev` is a record of what the firmware keeps: `control_state`, the
driver's count of packets on endpoint 0, the STAT bits, address and
configuration. The handlers are functions of it, so that `PollTransfer` can apply
the handler of a received packet and then that of a sent one, in the order of
`qsb_dev_poll()`. Requests are abstract: direction, `wLength`, the length of the
reply, whether a handler knows it, and the effect of the two that change the
device. `HostMay` says what the host does besides orderly requests; giving up a
request that has no unfetched IN packet is always allowed.

**`LineCoding`, `Descriptors`, `PacketMemory`** have no state. `LineCoding` follows
`set_coding()` and `set_baudrate()` in integer arithmetic; rates the code passes
through `int` stay what the conversion makes of them (2^32 - 1000 is -1000), and the
rate written to `dwDTERate` is read back from the divider. `Descriptors` builds each
descriptor from its fields, in the order of the packed structures, and
`ConfigDescriptor` puts the configuration together as `build_config_descriptor()`
does, `wTotalLength` included. `PacketMemory` has `pm_top`, the end of
the buffers handed out so far, the encoding of buffer sizes in blocks of 2 or 32 bytes, and copies in
half words, where an odd last byte takes the half next to it along.

**`Device`.** Each request is one step: dispatch by type and recipient, the registered
handlers first and the standard ones after them, and the effect on `configured`,
endpoints, handlers, memory and coding. `target` is the processor (F0 or F1). `reply`
records the last request, whether it was refused, and its data. The start is the
state after `usb_cdc_init()`, before the first bus reset.

**`EndpointRegister`, `FsDev`.** A register is a set of bits. `Written(reg, value)` is the
hardware's rule for each bit, `Intended(op, reg)` what the comment of the operation
promises. `FsDev` splits each operation at its two accesses: `ReadRegister` puts the
register into `latch`, `WriteRegister` writes the value computed from it, and the
peripheral may act in between. `todo` is the list of operations and callbacks the
main loop has still to carry out; handlers add theirs in the order of the code
(clear the flag, callback, acknowledgement, then the other direction). One endpoint
of each kind in use is a `role`: double-buffered OUT and IN, interrupt IN, control.
`masked` is the peripheral's mask of a double-buffered VALID. Packets are copied in
and out by the operators of `PacketMemory`, and the data toggles of both sides are
compared for each packet, so that a wrong toggle loses it as on the bus.

The levels meet at named quantities: `UsbToSerial` and `SerialToUsb` take the register for
a counter of filled buffers, which `RegisterAgrees` of `FsDev` justifies; `UartRx` takes
the high-water mark for a constant, which `LineCoding` computes; `ControlEp0` takes
replies for lengths, which `Device` fills in.

**Mutants.** Next to some definitions there is one whose comment says *Mutant*: the
same definition with a plausible mistake. `PROJECT.json` pairs each property of a
run with one that makes it fail, as evidence that the property is not vacuous.

## 3. The runs

Run with `tlc -config <cfg> <module>`. A run marked "violation" refutes a sentence
of the repository's own documentation (section 6).

| Run | Question | States |
|---|---|---|
| `uart_tx` | Is the ring with its chunked transfers a FIFO that never stalls, for any packet and any moment of completion? | 14,644 |
| `usb_to_serial` | Does flow control keep every byte, and does the endpoint reopen, if the peripheral fills both buffers after a pause? | 25,342 |
| `uart_rx` | With a peer that obeys RTS: nothing lost, RTS comes back, everything is copied? With one that ignores it: does the ring stay consistent, and are overruns real? | 91,161 |
| `serial_to_usb` | Does every byte reach the program on the host, in completed transfers, without needless packets, and do driver and peripheral agree on the IN buffers, whatever the peer does? | 410,825 |
| `serial_state` | Is every overrun reported, once, and does the host end up knowing the signals, although packets are rejected? | 9,256 |
| `control_ep0` | Do host and device agree on replies, outcomes and addresses, and does every request end? | 164,276 |
| `device` | Are the endpoints those of the descriptors, do buffers overlap, can replies be parsed, is the bit rate the nearest and stable under reading and writing back? | 41,930 |
| `fsdev` | Does any register operation disturb what the peripheral does meanwhile; does the driver's state agree with the register; do packets and control transfers get through, in order, after each configuration and halt? | 8,226 |
| `uart_rx_undetected` | Does `check_rx_overrun()` see every overrun? | violation |
| `uart_rx_reconfigured` | Is an overrun only reported if there was one, across configurations? | violation |
| `control_ep0_abandoned` | Is a reply submitted after a request was given up in front of an unfetched packet? | violation |
| `device_flow_control` | Can RTS be asserted and withdrawn at every bit rate announced? | violation |

**Bounds.** Data are not bounded by their value but by their number: `MaxBytes` and
`MaxReceived` (7 to 14) let every ring wrap around at least once, and twice where
positions could drift. Ring lengths of 4 to 7 are the smallest at which a packet
can fit, wrap around, fill the ring exactly and exceed it, and at which the ring
holds more than the two packets of the high-water mark. Packets of 0 to 2 (or 4)
bytes give empty, short and full ones. Chunk sizes 1 and 3 are below and above the
packet length and do not divide the ring. The clock has four values and wraps
around several times in a behaviour, with a hold-back time of one tick. Control
transfers have packets of 2 bytes, a buffer of 4 and lengths 0, 1, 2, 4, 5: no data,
one short or full packet, two full ones, three; exactly the buffer and more than
it. Three requests or resets are a request given up, one disturbed by it and
one after that. Three changes of the signals and two overruns fit into the time
one notification is under way.

In `device` the sequence of requests is not bounded, since the device's state is
finite. The bit rates are a conversion that overflows (2^32 - 1000), 0, a rate below
the divider's range on both processors, ordinary ones, one at which the mark is 0,
and rates around and above the fastest ones of the two processors, where the
oversampling changes and the divider is at its minimum. `wLength` 2, 7 and
255 cut a descriptor's header, a line coding exactly, and nothing. In `fsdev`, 8 packets
or transfers of 1 to 3 bytes per configuration use both buffers four times and leave
every combination of toggle and buffer bit for the next configuration; 4
configurations or halts in any order.

The proofs of section 4 remove these bounds, one by one: ring lengths, packet sizes,
marks, numbers of bytes and of packets for both ways through the adapter, buffer and
packet sizes, requests and their number for control transfers, bit rates for the
line coding, numbers of packets and configurations, on the way through a register and
through the packet memory, lengths asked for and the number of resets and requests for the device.
The invariants the proofs rest on are invariants of the runs too (`RxInv`, `SendInv`,
`ControlInv`, and `AccessInv` and `DataInv` in the `Inv` of `fsdev`), and the hypothesis
`RoomAboveMark` is evaluated by TLC for the constants of `uart_rx` and `serial_to_usb`.

**Fairness.** The main loop is a `while (1)` without any waiting, so its steps are
weakly fair. DMA on the transmit side is weakly fair: the peer does not withhold
CTS for ever; without that nothing could be promised. `UsbIdle` is strongly fair: the
CTR loop in `qsb_dev_poll()` is left again and again, since a packet takes longer on
the bus than in the callback. In `SerialToUsb` the CTR_TX branch is strongly fair,
because the flag stays set until the loop comes by; the host has a read pending
(`HostPacket` is weakly fair). In `UartRx`, where the host is abstract, the copy
is strongly fair for the same reason. In `FsDev` the driver's operations are weakly fair, and so is the
host's part of a transfer it has begun. `Device` has no liveness and no fairness. Hosts and peers owe nothing: `HostPacket` of
`UsbToSerial`, `RxByte`, line coding and reconfigurations have no fairness.

In `SerialState` the host polls the interrupt endpoint; in `ControlEp0` it goes on with
a request it has begun, and may begin another or reset the bus at any time.

Deadlock is checked in every run, since the main loop can always take a step,
except in those of `ControlEp0` and `FsDev`, where the loop's idle turns are left out and
nothing happens once the host has used up its requests or packets.

## 4. The proofs

`tlapm UartTxProofs.tla` and so on check them; nothing is
assumed but the named assumptions of the modules (`TxAssumption`: a ring of at
least two cells, positive chunk sizes, positive packet length;
`FlowControlAssumption`: the ring is longer than two packets, the peripheral takes
one or two packets ahead; for `SerialState`, `~ConfiguresLate`; `DeviceAssumption`: the lengths asked for are at most
`USB_CONTROL_BUF_SIZE`, the framings asked for are some of `Formats`).

*Transmit ring* (`UartTxProofs`). The inductive invariant is `TxInv`: type correctness,
`WireInOrder`, `TxConservation`, `IdleOnlyWhenEmpty`, and two parts that make it
inductive: `XferInv` (the DMA transfer lies in the held part of the ring, starts at
the tail, does not wrap around, and its flag is set exactly when nothing is left)
and `HeldInOrder` (the held cells contain the bytes that follow those on the wire,
in order). The proof has one step per action; ring arithmetic is in lemmas about
`UsedBetween` (`TxAvail` and `Offset` before and after an advance of head or tail).
`TwoCalls` shows that the recursion of `transmit()` ends after two copies. From the
invariant follow `TxFifo`, `TxConserves`, `TxNeverStalls` and, as an action property,
`TxDiscards`, and from the fact that the cells `transmit()` writes lie behind those the ring holds
(`TransmitKeepsHeld`) `TxCellsStable`: no one writes a cell the DMA channel has yet to read.

*Host to wire* (`UsbToSerialProofs`). `Inv` adds to `TxInv` the agreement between
driver and peripheral (`EndpointInOrder`, `AckAccounting`, `NakAgrees`,
`BufferAgreement`) and `Room`, the reason why nothing is discarded: while the endpoint is open
there is room for two packets; when it is paused, one packet has been withheld and
the one that may still come fits. `ImplementsPipe` shows that the specification
implies `PipeSafety`, the safety part of `BytePipe`, with `sent <- host_sent` and
`out <- wire`: every step is a `Send`, a `Deliver` or a stutter.

*Notifications* (`SerialStateProofs`). `ReportInv` adds to `StateInv` that an overrun is in
at most one of three places: flagged in the UART, pending, or in the packet that
the host has yet to fetch. A step moves overruns from place to place (`Moved`) but
never doubles them, from which `NoDoubleReport` follows.

*Receive ring* (`UartRxProofs`). Two invariants. `RingInv` holds whatever the peer does and
however often `enable()` is called: the distance from tail to DMA position is the
number of unread bytes modulo the length of the ring, and what a copy was told to
take has arrived. `RxInv` adds what flow control gives: for a peer that obeys RTS
there is room (`RoomLeft`) for the bytes that may come before the next poll and after
RTS is withdrawn, the unread cells hold the bytes in order, and as many bytes have
been copied as were taken. It is inductive under `RoomAboveMark`: mark + `PollBytes` + `Slack`
is at most the ring's length. That is a hypothesis of the theorems `RxInvariant`,
`RtsPreventsLoss` and `RxFifo`, not an assumption of the module, because the code does
not guarantee it at every bit rate: `set_baudrate()` (`uart.cpp:408-410`) leaves as much
room as arrives in 5 ms, but none at all below 2000 bit/s, where the mark is as long
as the ring (the finding `device_flow_control`). `NoFalseOverrun` needs
neither: for any peer, an overrun is reported only after bytes were overwritten, given that
`last_rx_size` is right (`LastSizeAgrees`), which is what a reconfiguration breaks in
`uart_rx_reconfigured`.

*Wire to host* (`SerialToUsbProofs`). `SendInv` relates the driver's count of packets to the
buffers the peripheral has filled and not yet sent (`EndpointAgrees`), says that there
is a free buffer for every copy under way, that every byte taken from the ring is
delivered or in a buffer, in order, and that a zero-length packet is due only while a
transfer of full packets is to be completed. It holds for every peer. So does the first half
of `NoNeedlessPackets`: a copy that returns nothing makes a packet that is due, or has found
the ring lapped since poll() decided to send (`TransfersAgree`). The second half, that an
empty packet the host gets completes a transfer, is about a peer that obeys RTS, since only
there the ring is never lapped; the theorem `NoFlood` therefore has the hypothesis
`RoomAboveMark`, and uses `RxInv` and the auxiliary invariant `EmptyPacketsDue`. `RxInv` also
gives `ReceiveImplementsPipe`: for a peer that obeys RTS every step is a `Send`, a `Deliver` or a stutter of `BytePipe`, whose capacity is the
ring and the two packet buffers.

*Control transfers* (`ControlEp0Proofs`). The properties are about the end of a request, so
the invariant has to describe its course: `Phase` lists what host, driver and endpoint
have in common at each stage (`Resetting`, `AtRest`, `SetupReceived`, `Replying`, and so on), with the
data still to come on both sides; the proof shows for each step which phase follows which.
`Stuck` is the phase of a request that gets no answer because a packet was abandoned
before (`Blocked`, the finding `control_ep0_abandoned`), from which only a reset leads back; it is
part of the invariant, and the theorems hold there, too. The hypothesis is `PatientHost`: the host may give up
requests at any stage but lets the device poll the end of a transfer before it
goes on. It is needed: with `HostMay = {"hurry"}` or `{"reset"}` TLC shows `ReplyIsComplete` and
`AddressesAgree` violated (section 5). `StatusSubmittedIfPatient` is the counterpart of the
finding: if no submitted packet is abandoned, every status packet is submitted.

*Bit rates* (`DeviceProofs`). `CodingInv` says that the line coding in use is what
`set_coding()` makes of the rate last asked for. The rest is arithmetic: a lemma on
rounded division (the quotient is the nearest, and rounding the clock divided by it
gives it back), applied to both ways of oversampling and to the ends of the
divider's range. `NearestDividerHolds` and `CodingRoundTripHolds` are then true of every set of integers
as bit rates, the conversions that overflow included; the run has ten.

*Register accesses* (`FsDevProofs`). That a write has the intended effect (`AtomicAccess`) follows
bit by bit if the value read is still right for the type and for the bits of the
operation's mask (`LatchIsGood`); all other bits are written with what leaves them
alone. Whether it is still right depends on what the peripheral may do between read
and write, and that on what is under way. At a double-buffered endpoint, status and
toggles are set only while the host waits (`QuietSetup`). At a single-buffered one they are set
while it is in use, so that `SingleBuffered` lists the operations that may be under way, and
for each of them why the peripheral leaves its bits alone: it changes the status of a
direction only if that is VALID, and the driver sets it only if it is not; SETUP
packets, which change both whatever they are, come when nothing is under way.
`OperationsFit` and `EndpointTyped` justify the writes that do not read first (`sw_buf_toggle` takes
the type of the endpoint for bulk). Masking VALID of a double-buffered endpoint is the
peripheral's, and the status of a masked endpoint is excepted from the property.

*Packets of an endpoint* (`FsDevProofs`). `EndpointCorrect` proves the whole of `Inv`: packets come
out once each, in order and unharmed (`InOrder`), and the driver's picture of the endpoint is what
the register says (`RegisterAgrees`). The inductive invariant `EndpointInv` adds to the invariant of
the register (`RegisterInv`) where the packets are and what is due about them (`DataInv`, `Packets`),
kind by kind. While a double-buffered endpoint is set up, the position in the list of operations
says which toggles have started anew (`DoubleSetup`): neither side's toggle may survive from the
configuration before. When it is in use, the parity of the packet's number is the
data toggle of the host, of the endpoint and of the buffer it goes through, from which follows
whose turn each buffer is (`BulkOutInUse`, `BulkInInUse`). At a single-buffered endpoint the driver counts
one packet exactly while a submission, a packet or its completion is due (`SingleInUse`), whichever
of queue, register and packet memory the matter is in: `TxDue`, `InDue`, `SetupDue` and `OutDue` look at
queue and register together, so that the access that moves it from one to the other changes
nothing. Control transfers have one clause for each stage (`ControlInUse`), which ties what the host
waits for to what is due at the endpoint. Lemmas about `CopyToPma` and `CopyFromPma` say
that what was written in half words is read back, for the packets the model sends.

*Descriptors, endpoints, buffers* (`DeviceProofs`). `Layout` lists what endpoints and packet memory look like:
as before the first bus reset, as after one, or as configured. The buffers
are then at 64 and 80 (endpoint 0), 96 and 160 (data from the host), 224 and 288 (data to it)
and 352 (notifications), and `pm_top` is 368. It is inductive because a bus reset and SET_CONFIGURATION
take `pm_top` back before they hand out buffers (`EpResetState`); had they not, each configuration
would leave less memory. `BuffersDisjointHolds` and `EndpointsAsAdvertisedHolds` follow from it. `TypeCorrect`
puts together `Layout`, `CodingInv`, `Fields` and `ReplyInv`; its substance is that the divider fits the
register and that the chunks of the transmitter are neither empty nor too long at every bit
rate. `RepliesWholeHolds` says that a reply with the configuration descriptor that is not cut by `wLength`
is `BuildConfigDescriptor` itself.

*What a host reads in the descriptors* (`DeviceProofs`). `RepliesWholeHolds` leaves a question about
one constant: what a host makes of `BuildConfigDescriptor`. Two recursive definitions stand
between the descriptors of `usb_conf.cpp` and the answer. Flattening is unfolded by hand, as the lists have one
element or two (`FlattenOne`, `FlattenTwo`), and `DescriptorSpelled` says what stands at which
of the 75 places. The host's walk from descriptor to descriptor
(`DescriptorStarts`) is defined by recursion on the place, for any bytes. Library theorems about induction cannot
be used here, because they take an operator as a parameter; instead `StartsExist` takes a
shortest end of the bytes for which the recursion has no solution and extends the solution for the end one
descriptor shorter. `LeastNatural`, that there is a shortest, follows from the library's
`WFMin`. With `StartsUnfold` the host finds the eleven descriptors one by one, from the last
to the first (`HostFindsAll`). `DescriptorsAnnounce` (the endpoints a host
finds) and `DescriptorParses` (lengths, counts, numbers of interfaces and strings) are read off their places, and
`ConfigDescriptorParsesHolds` follows.

Only model-checked is liveness: `HostBytesAreSent`, `RtsComesBack`, `ReceivedIsCopied`, `ReceivedIsDone`,
`AcceptedIsSent`, `RequestsEnd`, `Delivered` and so on. TLAPS handles neither fairness nor `ENABLED`.

## 5. What is assumed of hardware, host and peer

* *OUT endpoint.* The peripheral accepts a packet only if the driver has seen the
  previous one (CTR_RX clear) and fewer than `RxDepth` buffers are outstanding. It
  fills the two buffers in turn; a toggle of SW_BUF gives one back. Reference
  manuals describe NAK while DTOG = SW_BUF (depth 1), `qsb_device.h` warns that after
  a pause a further packet may come (depth 2). The run has depth 2, whose behaviours
  include those of depth 1; the proofs cover both. `FsDev` follows the reference
  manual, because it models the register and not only the buffers behind it.
* *Double buffering in the register* (`FsDev`). At the end of a transaction the peripheral
  masks VALID, which then reads as NAK (`qsb_fsdev_ep.h:26-30`), if DTOG equals
  SW_BUF; the mask goes when the CPU toggles SW_BUF, and is evaluated anew when the
  status becomes VALID. No transaction of a double-buffered endpoint completes while
  the flag of the one before is set.
* *Hosts of `FsDev` and `Device`.* No SETUP before the end of the previous transfer has
  been polled (`control_ep0` has what happens otherwise); no traffic on an endpoint while
  SET_CONFIGURATION or a halt of it is handled; GET_INTERFACE and SET_INTERFACE and
  halts only of a configured device. COMM_IN_1 is halted only when it is empty.
* *Clocks.* The USART hangs on the bus with 48 MHz (F0) or 36 MHz (F1).
* *IN endpoint.* Filled buffers are sent in order, one completion (CTR_TX) each; the
  next one is not reported before the flag has been cleared.
* *DMA.* A transmit transfer moves its bytes one by one, then sets the
  transfer-complete flag. The receive channel is circular; its counter may read 0
  for a moment at the end of the ring. Transfer errors (TEIF) do not occur.
* *Time.* At most one SysTick per turn of the main loop.
* *Peer.* Where flow control is assumed, at most `PollBytes` bytes arrive between two
  polls and `Slack` after RTS is withdrawn, and mark + PollBytes + Slack does not
  exceed the ring.
* *Control endpoint.* A SETUP packet is always accepted and sets both directions to
  NAK; an IN packet that was submitted is then no longer sent. In `control_ep0` the
  host leaves the device time to poll the end of a transfer before the next SETUP
  or reset, and does not give up a request in front of an unfetched packet. The
  CTR flags keep their value until they are written (`qsb_fsdev_ep.h:22-24`; the
  comment in line 56, "The CTR bits are cleared", is not what line 65 does).
  What depends on this: with `HostMay = {"hurry"}` TLC shows a request without a
  reply, since `qsb_dev_poll()` handles CTR_RX before CTR_TX and the endpoint still
  counts as busy; with `"reset"`, a completion handled after the reset.
* *Interrupt endpoint.* In `serial_state` no completion is unpolled when
  SET_CONFIGURATION is handled. With `ConfiguresLate = TRUE` the leftover completion
  makes the endpoint look free while it holds a packet, and TLC shows an overrun
  report overwritten in the packet buffer (`OverrunsReported`).
* *Atomicity.* `check_rx_overrun()` reads the DMA counter twice, and `update_rts()` once
  more just before: one reading in the model. A byte that arrives in between
  may as well arrive afterwards, unless the ring has been overrun: then RTS and the number
  of bytes discarded may be those of one byte more or less than in the model. The two
  readings of `poll()` and `copy_rx_data()` are two steps, `Decide` and `SendBegin`.

## 6. Findings

* **Undetected overruns** (`uart_rx_undetected`). `uart.h:164-171` promises that an overrun
  is detected if the check is made every half buffer. `check_rx_overrun()`
  (`uart.cpp:298-308`) compares the fill level with `last_rx_size`, which only
  `copy_rx_data()` sets. While nothing is copied (host not reading), the level climbs
  from `last_rx_size` to full and wraps to 0, and `len < last_rx_size` is false when
  `last_rx_size` is 0: the ring is lapped unnoticed.
* **False overrun after a reconfiguration** (`uart_rx_reconfigured`). `enable()` resets the tail and
  the DMA channel but not `last_rx_size`, so that the next `poll()` sees a level below it
  and reports an overrun (`uart.h:81-88`: "true once for each occurrence").
* **Endpoint 0 stuck after an abandoned request** (`control_ep0_abandoned`). When a host
  gives up a request whose IN packet it has not fetched, `ep_state_tx[0]` stays at one
  packet: `qsb_dev_ep_transmit_packet()` returns -1 for all later replies, which
  `qsb_control.c` ignores, until the bus is reset. The comments at `qsb_control.c:149`
  and `224` say "submit STATUS IN packet".
* **Flow control at the ends of the range** (`device_flow_control`). The README promises hardware
  flow control from 1200 to 3,000,000 bit/s, `doc/serial-signals.md:42` that RTS is
  deasserted at the high-water mark. The mark is max(1024 - rate/2000, 0)
  (`uart.cpp:408-410`) and RTS is withdrawn when `rx_data_len()` reaches it
  (`uart.cpp:374-381`). The level is at most 1023: below 2000 bit/s RTS is never
  withdrawn, and from 2,048,000 bit/s on, with a mark of 0, it is never asserted.

Met while modelling, without a run of their own:

* After 2^31 ms (25 days) without a transmission, `has_expired()` is false for the
  next 25 days and a lone byte waits for 15 others
  (`common.cpp:28-31`, `usb_serial.cpp:109-110`: "the next byte ... is immediately
  transmitted").
* With a peer that ignores RTS, the level may be 1023 when `poll()` decides to send
  (`usb_serial.cpp:111`). One byte more before `copy_rx_data()` reads the counter
  (`uart.cpp:244`), and the ring looks empty: the copy returns 0 and line 131 sends an empty
  packet that completes no transfer. Stated for every peer, the second half of
  `NoNeedlessPackets` is violated by this in `serial_to_usb`.
* The F1's USART reaches 2.25 Mbit/s, not the 3,000,000 of `README.md:11`.
* A bit rate of 0 is a division by zero (`uart.cpp:423`): 0 or a large number in the model,
  so that the divider ends up at one end of its range; `CodingRoundTrip` and `NearestDivider` are about rates above 0.
* Halting COMM_IN_1 while a packet is in it leaves the driver's count at one packet,
  and a notification while it is halted sets STAT_TX to VALID and so ends the halt
  (`qsb_drv_fsdev_plus.c:272`).
* With two packets outstanding, the length that the CTR_TX branch passes to the callback
  (`qsb_drv_fsdev_plus.c:372-373`) is that of the wrong buffer; no callback uses it.
* A SETUP packet that arrives between the clearing of CTR_RX and `stat_rx_set()` of the
  one before finds the endpoint enabled again by the latter, harmless here because
  SETUP is accepted anyway.

## 7. What is not modelled

* *Throttler* and *loopback test*: programs for other machines, of which nothing of the
  adapter depends.
* *Contents of data*: bytes are positions in a stream; 7-bit data
  (`clear_high_bits()`), parity and stop bits are names in the line coding and nothing on the wire. Of string
  descriptors only the length counts; the serial number is a conversion of the chip's
  identifier at start-up; Windows and BOS descriptors are compiled out.
* *Halting a double-buffered endpoint*: the driver marks it as not yet done
  (`qsb_drv_fsdev_plus.c:157`).
* *Other configurations than the first*: the index of a GET_DESCRIPTOR for a configuration
  (`qsb_standard.c:240-242`) is always 0 in the models; the adapter has one configuration.
* *Class and standard requests in the same model as their interleaving*: `ControlEp0` has the
  stages and three abstract effects, `Device` all requests as single steps.
* *LEDs, clocks, pins*: no data depend on them.
* *Suspend and resume*: the driver calls callbacks that this firmware never registers.
* *`qsb_drv_fsdev.c`*: an alternative driver the firmware does not use.
* *USB errors*: bit errors and retransmissions are handled by the peripheral; the
  models start with packets that were received correctly.

## 8. Plan

All components that carry data or state of the adapter are modelled and checked, and
every invariant and action property of the runs that pass is proved. What would be worth adding:

1. One model of a register and of the flow control on top of it, with `RegisterAgrees` as the proof that
   the counters of `UsbToSerial` and `SerialToUsb` are a refinement of `FsDev`. Today the levels meet in
   section 2.
2. SETUP packets that come while the transfer before is still to be polled, in `FsDev`, where the
   order of the CTR branches matters (section 5, *Control endpoint*).
3. Halts of the double-buffered endpoints, once the driver supports them.
