------------------------------ MODULE MCDevice ------------------------------
(* Bit rates at the limits of the divider's ranges, 0 and a rate from 2^31  *)
(* on; framings accepted and refused; replies cut off at various lengths.   *)
EXTENDS Device

MCRates ==
    {-1000, 0, 300, 1200, 9600, 2048000, 3100000, 5900000, 10000000}
MCFormats ==
    {[databits |-> 8, stopbits |-> "1", parity |-> "none"],
     [databits |-> 7, stopbits |-> "2", parity |-> "even"],
     [databits |-> 7, stopbits |-> "1", parity |-> "none"]}
MCLengths == {2, 7, 255}
=============================================================================
