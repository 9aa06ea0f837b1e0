----------------------------- MODULE LineCoding -----------------------------
(***************************************************************************)
(* Bit rates and framing: what uart_impl::set_coding() and set_baudrate()  *)
(* write to the USART and keep, for the two processors (the USART is on    *)
(* APB1 of both, at 48 MHz on the STM32F0 and 36 MHz on the STM32F1), and  *)
(* which codings set_line_coding() accepts.                                *)
(***************************************************************************)
EXTENDS Integers

Targets == {"STM32F0", "STM32F1"}
Clock(target) == IF target = "STM32F0" THEN 48000000 ELSE 36000000

UART_RX_BUF_LEN == 1024

\* BRR has 16 bits.
MaxDivider == 65535

Clamp(n, least, most) == IF n < least THEN least ELSE IF n > most THEN most ELSE n

\* C's division, which rounds towards 0.
Quotient(a, b) == IF a >= 0 THEN a \div b ELSE -((-a) \div b)

----------------------------------------------------------------------------
\* Mutant: the divider is truncated instead of rounded.
DividersTruncated(target, baud) ==
    IF baud > 0 THEN {Clock(target) \div baud} ELSE {0}

\* (clock + baud / 2) / baud, with clock unsigned. dwDTERate is unsigned and baud
\* an int: from 2^31 on it is negative, and the quotient 0 or 1.
\* Division by 0 is undefined: the processor's divide instruction yields 0, the
\* run-time library's division a large number.
Dividers(target, baud) ==
    IF baud > 0 THEN {(Clock(target) + baud \div 2) \div baud}
    ELSE IF baud < 0 THEN {0} ELSE {0, 65536}

\* The rate reported, BRR and OVER8 for a divider.
Slowest(target) ==
    [rate |-> (Clock(target) + 36863) \div MaxDivider, brr |-> MaxDivider, over8 |-> FALSE]
Fastest(target) ==
    IF target = "STM32F0" THEN [rate |-> Clock(target) \div 8, brr |-> 16, over8 |-> TRUE]
                          ELSE [rate |-> Clock(target) \div 16, brr |-> 16, over8 |-> FALSE]

\* Mutant: the rate reported is the one asked for.
GeneratorAsAsked(target, baud, divider) ==
    IF divider > MaxDivider THEN [Slowest(target) EXCEPT !.rate = baud]
    ELSE IF divider >= 16 THEN [rate |-> baud, brr |-> divider, over8 |-> FALSE]
         ELSE [Fastest(target) EXCEPT !.rate = baud]

\* Oversampling by 8, on the STM32F0 only, takes the last three bits of the
\* divider as the low bits of BRR.
Generator(target, baud, divider) ==
    CASE divider > MaxDivider -> Slowest(target)
      [] divider \in 16 .. MaxDivider -> [rate |-> baud, brr |-> divider, over8 |-> FALSE]
      [] divider \in 8 .. 15 /\ target = "STM32F0" ->
            [rate |-> baud, brr |-> 16 + (divider % 8), over8 |-> TRUE]
      [] OTHER -> Fastest(target)

\* rx_high_water_mark: the receive buffer without 5 ms worth of data.
HighWaterMark(baud) ==
    LET mark == UART_RX_BUF_LEN - Quotient(baud, 2000) IN IF mark < 0 THEN 0 ELSE mark

\* set_coding(): the outcomes. Parity makes for a frame one bit longer.
SetCoding(target, baud, format) ==
    {[generator |-> g, tx_max_chunk_size |-> Clamp(Quotient(g.rate, 10000), 16, 256),
      rx_high_water_mark |-> HighWaterMark(baud), format |-> format,
      frame_bits |-> format.databits + (IF format.parity = "none" THEN 0 ELSE 1)]
        : g \in {Generator(target, baud, d) : d \in Dividers(target, baud)}}

----------------------------------------------------------------------------
\* bCharFormat and bParityType up to 2 have a meaning; "mark" stands for the rest.
StopBits == {"1", "1.5", "2"}
Parities == {"none", "odd", "even"}
Formats == [databits : {5, 6, 7, 8, 16}, stopbits : StopBits \cup {"other"},
            parity : Parities \cup {"mark"}]

\* set_line_coding(): 7 + 1, 8 + 0 and 8 + 1 bits.
FormatAccepted(format) ==
    /\ format.stopbits \in StopBits /\ format.parity \in Parities
    /\ format.databits \in IF format.parity = "none" THEN {8} ELSE {7, 8}

----------------------------------------------------------------------------
(* The USART, by the processors' reference manuals: clock cycles per bit.   *)
(* With OVER8 the low three bits of BRR count twice, and the rate doubles.  *)
CyclesPerBit(generator) ==
    IF generator.over8
    THEN ((generator.brr \div 16) * 16 + 2 * (generator.brr % 8)) \div 2
    ELSE generator.brr

\* What BRR may hold and still make a clock of it.
PossibleCycles(target) == (IF target = "STM32F0" THEN 8 ELSE 16) .. MaxDivider
=============================================================================
