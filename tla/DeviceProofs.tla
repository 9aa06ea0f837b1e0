---------------------------- MODULE DeviceProofs ----------------------------
(* Theorems about the bit rate and the line coding, the endpoints and their  *)
(* buffers, and the replies (modules LineCoding, PacketMemory, Descriptors   *)
(* and Device), for every bit rate a host may ask for, every framing, every  *)
(* length of a reply, both processors, and any sequence of requests and bus  *)
(* resets.                                                                   *)
EXTENDS Device, FiniteSetTheorems, WellFoundedInduction, TLAPS

----------------------------------------------------------------------------
(* The divider. *)

\* Division with remainder.
LEMMA DivFacts ==
    ASSUME NEW a \in Nat, NEW b \in Nat, b > 0
    PROVE  /\ a \div b \in Nat
           /\ (a \div b) * b <= a /\ a < (a \div b) * b + b
<1> DEFINE q == a \div b
           r == a % b
<1>1. q \in Int /\ r \in 0 .. b - 1 /\ a = b * q + r
  OBVIOUS
<1>2. b * q = q * b
  BY <1>1
<1>3. q \in Nat
  BY <1>1
<1> HIDE DEF q, r
<1>4. q * b \in Int
  BY <1>1
<1>5. q * b <= a /\ a < q * b + b
  BY <1>1, <1>2, <1>4
<1> QED BY <1>3, <1>5 DEF q

\* Rounded division: its error is half the divisor at most.
LEMMA RoundedDivision ==
    ASSUME NEW C \in Nat, NEW b \in Nat, b > 0
    PROVE  LET d == (C + b \div 2) \div b
           IN  /\ d \in Nat /\ d * b \in Nat
               /\ 2 * (d * b) <= 2 * C + b /\ 2 * C <= 2 * (d * b) + b
<1> DEFINE h == b \div 2
           d == (C + h) \div b
<1>1. h \in Nat /\ 2 * h <= b /\ b <= 2 * h + 1
  OBVIOUS
<1> HIDE DEF h
<1>2. C + h \in Nat
  BY <1>1
<1>3. d \in Nat /\ d * b <= C + h /\ C + h < d * b + b
  BY <1>2, DivFacts
<1> HIDE DEF d
<1> DEFINE p == d * b
<1>4. p \in Nat
  BY <1>3
<1>5. p <= C + h /\ C + h < p + b
  BY <1>3
<1> HIDE DEF p
<1>6. 2 * p <= 2 * C + b /\ 2 * C <= 2 * p + b
  BY <1>1, <1>4, <1>5
<1> QED BY <1>3, <1>4, <1>6 DEF p, d, h

\* Multiples of the divisor around one of them.
LEMMA Products ==
    ASSUME NEW d \in Nat, NEW b \in Nat, NEW k \in Nat
    PROVE  /\ (d + 1) * b = d * b + b /\ (d - 1) * b = d * b - b
           /\ d >= k => d * b >= k * b
           /\ d <= k => d * b <= k * b
<1>1. (d + 1) * b = d * b + b /\ (d - 1) * b = d * b - b
  OBVIOUS
<1>2. ASSUME d >= k PROVE d * b >= k * b
  <2>1. PICK j \in Nat : d = k + j
    <3>1. d - k \in Nat /\ d = k + (d - k)
      BY <1>2
    <3> QED BY <3>1
  <2>2. d * b = k * b + j * b /\ j * b \in Nat /\ k * b \in Nat /\ d * b \in Nat
    BY <2>1
  <2> QED BY <2>2
<1>3. ASSUME d <= k PROVE d * b <= k * b
  <2>1. PICK j \in Nat : k = d + j
    <3>1. k - d \in Nat /\ k = d + (k - d)
      BY <1>3
    <3> QED BY <3>1
  <2>2. k * b = d * b + j * b /\ j * b \in Nat /\ k * b \in Nat /\ d * b \in Nat
    BY <2>1
  <2> QED BY <2>2
<1> QED BY <1>1, <1>2, <1>3

\* How far a multiple of the bit rate asked for is from the clock.
Error(target_, baud, cycles) == Distance(Clock(target_), cycles * baud)

\* A divider within range is the nearest of all, and the error is half a bit time
\* at most.
LEMMA DividerIsNearest ==
    ASSUME NEW t \in Targets, NEW b \in Nat, b > 0, NEW d \in Dividers(t, b)
    PROVE  /\ d \in Nat
           /\ Error(t, b, d) <= Error(t, b, d + 1)
           /\ Error(t, b, d) <= Error(t, b, d - 1)
           /\ 2 * Error(t, b, d) <= b
<1> DEFINE C == Clock(t)
           p == d * b
<1>1. C \in Nat
  BY DEF Clock
<1>2. d = (C + b \div 2) \div b
  BY DEF Dividers
<1> HIDE DEF C
<1>3. d \in Nat /\ p \in Nat /\ 2 * p <= 2 * C + b /\ 2 * C <= 2 * p + b
  BY <1>1, <1>2, RoundedDivision
<1>4. (d + 1) * b = p + b /\ (d - 1) * b = p - b
  BY <1>3, Products
<1>5. /\ Error(t, b, d) = Distance(C, p) /\ Error(t, b, d + 1) = Distance(C, p + b)
      /\ Error(t, b, d - 1) = Distance(C, p - b)
  BY <1>4 DEF Error, C
<1> HIDE DEF p
<1>6. /\ Distance(C, p) <= Distance(C, p + b)
      /\ Distance(C, p) <= Distance(C, p - b)
      /\ 2 * Distance(C, p) <= b
  BY <1>1, <1>3 DEF Distance
<1> QED BY <1>3, <1>5, <1>6

\* A divider too large: the bit rate is below what the slowest one makes.
LEMMA TooSlow ==
    ASSUME NEW t \in Targets, NEW b \in Nat, b > 0, NEW d \in Dividers(t, b), d > MaxDivider
    PROVE  MaxDivider * b <= Clock(t) /\ b < 2000
<1> DEFINE C == Clock(t)
           p == d * b
<1>1. C \in Nat /\ C <= 48000000
  BY DEF Clock
<1>2. d = (C + b \div 2) \div b
  BY DEF Dividers
<1> HIDE DEF C
<1>3. d \in Nat /\ p \in Nat /\ 2 * p <= 2 * C + b
  BY <1>1, <1>2, RoundedDivision
<1>4. p >= 65536 * b
  BY <1>3, Products, SMT DEF MaxDivider
<1> HIDE DEF p
<1> QED BY <1>1, <1>3, <1>4, SMT DEF C, MaxDivider

\* A divider too small: the bit rate is above what the fastest one makes.
LEMMA TooFast ==
    ASSUME NEW t \in Targets, NEW b \in Nat, b > 0, NEW d \in Dividers(t, b),
           NEW k \in Nat, d < k
    PROVE  2 * Clock(t) <= 2 * (k * b) - b
<1> DEFINE C == Clock(t)
           p == d * b
           q == k * b
<1>1. C \in Nat
  BY DEF Clock
<1>2. d = (C + b \div 2) \div b
  BY DEF Dividers
<1> HIDE DEF C
<1>3. d \in Nat /\ p \in Nat /\ 2 * C <= 2 * p + b
  BY <1>1, <1>2, RoundedDivision
<1>4. p + b <= q
  <2>1. (d + 1) * b = p + b
    BY <1>3, Products
  <2>2. d + 1 \in Nat /\ d + 1 <= k
    BY <1>3
  <2>3. (d + 1) * b <= q
    BY <2>2, Products
  <2> QED BY <2>1, <2>3
<1>5. q \in Nat
  OBVIOUS
<1> HIDE DEF p, q
<1>6. 2 * C <= 2 * q - b
  BY <1>1, <1>3, <1>4, <1>5
<1> QED BY <1>6 DEF C, q

----------------------------------------------------------------------------
(* The generator of the bit clock. *)

FastestCycles(t) == IF t = "STM32F0" THEN 8 ELSE 16
Divided(b, brr, over8) == [rate |-> b, brr |-> brr, over8 |-> over8]

\* The width of BRR, without its value.
LEMMA MaxDividerFacts == MaxDivider \in Nat /\ MaxDivider > 1000
BY DEF MaxDivider

\* set_baudrate() by the range its divider falls in.
LEMMA GeneratorOfDivider ==
    ASSUME NEW t, NEW b, NEW d
    PROVE  /\ d > MaxDivider /\ d \notin 16 .. MaxDivider /\ d \notin 8 .. 15
                => Generator(t, b, d) = Slowest(t)
           /\ ~(d > MaxDivider) /\ d \in 16 .. MaxDivider /\ d \notin 8 .. 15
                => Generator(t, b, d) = Divided(b, d, FALSE)
           /\ ~(d > MaxDivider) /\ d \notin 16 .. MaxDivider /\ d \in 8 .. 15 /\ t = "STM32F0"
                => Generator(t, b, d) = Divided(b, 16 + (d % 8), TRUE)
           /\ /\ ~(d > MaxDivider) /\ d \notin 16 .. MaxDivider
              /\ d \notin 8 .. 15 \/ t # "STM32F0"
              => Generator(t, b, d) = Fastest(t)
<1>1. ASSUME d > MaxDivider, d \notin 16 .. MaxDivider, d \notin 8 .. 15
      PROVE  Generator(t, b, d) = Slowest(t)
  BY <1>1 DEF Generator
<1>2. ASSUME ~(d > MaxDivider), d \in 16 .. MaxDivider, d \notin 8 .. 15
      PROVE  Generator(t, b, d) = Divided(b, d, FALSE)
  BY <1>2 DEF Generator, Divided
<1>3. ASSUME ~(d > MaxDivider), d \notin 16 .. MaxDivider, d \in 8 .. 15, t = "STM32F0"
      PROVE  Generator(t, b, d) = Divided(b, 16 + (d % 8), TRUE)
  BY <1>3 DEF Generator, Divided
<1>4. ASSUME ~(d > MaxDivider), d \notin 16 .. MaxDivider, d \notin 8 .. 15 \/ t # "STM32F0"
      PROVE  Generator(t, b, d) = Fastest(t)
  BY <1>4 DEF Generator
<1> QED BY <1>1, <1>2, <1>3, <1>4

\* What set_baudrate() makes of a divider.
Outcome(t, b, d, g) ==
    /\ d \in Nat
    /\ \/ d > MaxDivider /\ g = Slowest(t)
       \/ d \in 16 .. MaxDivider /\ b > 0 /\ g = Divided(b, d, FALSE)
       \/ d \in 8 .. 15 /\ b > 0 /\ t = "STM32F0" /\ g = Divided(b, 16 + (d % 8), TRUE)
       \/ d < FastestCycles(t) /\ g = Fastest(t)

\* The divider of any bit rate has one of these outcomes.
LEMMA GeneratorCases ==
    ASSUME NEW t \in Targets, NEW b \in Int, NEW d \in Dividers(t, b)
    PROVE  Outcome(t, b, d, Generator(t, b, d))
<1> SUFFICES ASSUME NEW g, g = Generator(t, b, d) PROVE Outcome(t, b, d, g)
  OBVIOUS
<1>1. d \in Nat /\ (b > 0 \/ d = 0 \/ d > MaxDivider)
  <2>1. CASE b > 0
    BY <2>1, DividerIsNearest
  <2>2. CASE ~(b > 0)
    <3>1. d = 0 \/ d = 65536
      BY <2>2 DEF Dividers
    <3> QED BY <3>1 DEF MaxDivider
  <2> QED BY <2>1, <2>2
<1>2. CASE d > MaxDivider
  <2>1. d \notin 16 .. MaxDivider /\ d \notin 8 .. 15
    BY <1>1, <1>2, MaxDividerFacts
  <2> QED BY <1>1, <1>2, <2>1, GeneratorOfDivider DEF Outcome
<1>3. CASE d \in 16 .. MaxDivider
  <2>1. ~(d > MaxDivider) /\ d \notin 8 .. 15 /\ b > 0
    BY <1>1, <1>3, MaxDividerFacts
  <2> QED BY <1>1, <1>3, <2>1, GeneratorOfDivider DEF Outcome
<1>4. CASE d \in 8 .. 15 /\ t = "STM32F0"
  <2>1. ~(d > MaxDivider) /\ d \notin 16 .. MaxDivider /\ b > 0
    BY <1>1, <1>4, MaxDividerFacts
  <2> QED BY <1>1, <1>4, <2>1, GeneratorOfDivider DEF Outcome
<1>5. CASE d \in 0 .. 15 /\ ~(d \in 8 .. 15 /\ t = "STM32F0")
  <2>1. ~(d > MaxDivider) /\ d \notin 16 .. MaxDivider /\ d < FastestCycles(t)
    BY <1>1, <1>5, MaxDividerFacts DEF FastestCycles, Targets
  <2> QED BY <1>1, <1>5, <2>1, GeneratorOfDivider DEF Outcome
<1>6. d > MaxDivider \/ d \in 16 .. MaxDivider \/ d \in 0 .. 15
  BY <1>1, MaxDividerFacts
<1> QED BY <1>1, <1>2, <1>3, <1>4, <1>5, <1>6 DEF Outcome

\* The bit times that follow from it.
LEMMA CycleFacts ==
    ASSUME NEW t \in Targets
    PROVE  /\ CyclesPerBit(Slowest(t)) = MaxDivider /\ CyclesPerBit(Fastest(t)) = FastestCycles(t)
           /\ \A b \in Int, d \in Nat : CyclesPerBit(Divided(b, d, FALSE)) = d
           /\ \A b \in Int : \A d \in 8 .. 15 : CyclesPerBit(Divided(b, 16 + (d % 8), TRUE)) = d
<1>1. CyclesPerBit(Slowest(t)) = MaxDivider
  BY DEF CyclesPerBit, Slowest
<1>2. CyclesPerBit(Fastest(t)) = FastestCycles(t)
  <2>1. (16 \div 16) * 16 + 2 * (16 % 8) = 16 /\ 16 \div 2 = 8
    OBVIOUS
  <2> QED BY <2>1 DEF CyclesPerBit, Fastest, FastestCycles, Targets
<1>3. \A b \in Int, d \in Nat : CyclesPerBit(Divided(b, d, FALSE)) = d
  BY DEF CyclesPerBit, Divided
<1>4. \A b \in Int : \A d \in 8 .. 15 : CyclesPerBit(Divided(b, 16 + (d % 8), TRUE)) = d
  <2>1. \A d \in 8 .. 15 :
           ((((16 + (d % 8)) \div 16) * 16) + (2 * ((16 + (d % 8)) % 8))) \div 2 = d
    <3> SUFFICES ASSUME NEW d \in 8 .. 15
                 PROVE  ((((16 + (d % 8)) \div 16) * 16) + (2 * ((16 + (d % 8)) % 8))) \div 2 = d
      OBVIOUS
    <3>1. d % 8 = d - 8
      OBVIOUS
    <3>2. (16 + (d - 8)) \div 16 = 1 /\ (16 + (d - 8)) % 8 = d - 8
      OBVIOUS
    <3>3. (1 * 16 + 2 * (d - 8)) \div 2 = d
      OBVIOUS
    <3> QED BY <3>1, <3>2, <3>3
  <2> QED BY <2>1 DEF CyclesPerBit, Divided
<1> QED BY <1>1, <1>2, <1>3, <1>4

\* No possible bit time next to the one chosen is nearer.
LEMMA NearestOfAny ==
    ASSUME NEW t \in Targets, NEW b \in Int, NEW d \in Dividers(t, b),
           NEW g, g = Generator(t, b, d), NEW cycles, cycles = CyclesPerBit(g)
    PROVE  /\ cycles \in PossibleCycles(t)
           /\ b > 0 => \A c \in {cycles - 1, cycles + 1} \cap PossibleCycles(t) :
                          Error(t, b, cycles) <= Error(t, b, c)
<1>1. Outcome(t, b, d, g)
  BY GeneratorCases
<1>2. PossibleCycles(t) = FastestCycles(t) .. MaxDivider /\ FastestCycles(t) \in {8, 16}
  BY DEF PossibleCycles, FastestCycles
<1>3. CASE d > MaxDivider /\ g = Slowest(t)
  <2>1. cycles = MaxDivider
    BY <1>3, CycleFacts
  <2>2. cycles \in PossibleCycles(t)
    BY <1>2, <2>1, MaxDividerFacts
  <2>3. ASSUME b > 0, NEW c \in {cycles - 1, cycles + 1} \cap PossibleCycles(t)
        PROVE  Error(t, b, cycles) <= Error(t, b, c)
    <3>1. c = MaxDivider - 1
      BY <1>2, <2>1, <2>3, MaxDividerFacts
    <3>2. Clock(t) \in Nat
      BY DEF Clock
    <3>3. MaxDivider * b <= Clock(t)
      BY <1>3, <2>3, TooSlow
    <3> DEFINE C == Clock(t)
               p == MaxDivider * b
    <3>4. (MaxDivider - 1) * b = p - b /\ p \in Nat
      BY <2>3, MaxDividerFacts, Products
    <3>5. Error(t, b, cycles) = Distance(C, p) /\ Error(t, b, c) = Distance(C, p - b)
      BY <2>1, <3>1, <3>4 DEF Error
    <3>6. C \in Nat /\ p <= C
      BY <3>2, <3>3
    <3> HIDE DEF C, p
    <3>7. Distance(C, p) <= Distance(C, p - b)
      BY <2>3, <3>4, <3>6 DEF Distance
    <3> QED BY <3>5, <3>7
  <2> QED BY <2>2, <2>3
<1>4. ASSUME cycles = d, d \in PossibleCycles(t), b > 0
      PROVE  /\ cycles \in PossibleCycles(t)
             /\ \A c \in {cycles - 1, cycles + 1} \cap PossibleCycles(t) :
                   Error(t, b, cycles) <= Error(t, b, c)
  <2>1. Error(t, b, d) <= Error(t, b, d + 1) /\ Error(t, b, d) <= Error(t, b, d - 1)
    BY <1>4, DividerIsNearest
  <2> QED BY <1>4, <2>1
<1>5. CASE d \in 16 .. MaxDivider /\ b > 0 /\ g = Divided(b, d, FALSE)
  <2>1. cycles = d /\ d \in PossibleCycles(t)
    <3>1. d \in FastestCycles(t) .. MaxDivider
      BY <1>2, <1>5, MaxDividerFacts
    <3>2. CyclesPerBit(Divided(b, d, FALSE)) = d
      BY <1>1, CycleFacts DEF Outcome
    <3> QED BY <1>2, <1>5, <3>1, <3>2
  <2> QED BY <1>4, <1>5, <2>1
<1>6. CASE d \in 8 .. 15 /\ b > 0 /\ t = "STM32F0" /\ g = Divided(b, 16 + (d % 8), TRUE)
  <2>1. cycles = d
    BY <1>6, CycleFacts
  <2>2. d \in PossibleCycles(t)
    BY <1>6, MaxDividerFacts DEF PossibleCycles
  <2> QED BY <1>4, <1>6, <2>1, <2>2
<1>7. CASE d < FastestCycles(t) /\ g = Fastest(t)
  <2> DEFINE k == FastestCycles(t)
  <2>1. cycles = k
    BY <1>7, CycleFacts
  <2>2. cycles \in PossibleCycles(t)
    BY <1>2, <2>1, MaxDividerFacts
  <2>3. ASSUME b > 0, NEW c \in {cycles - 1, cycles + 1} \cap PossibleCycles(t)
        PROVE  Error(t, b, cycles) <= Error(t, b, c)
    <3>1. c = k + 1 /\ k \in Nat
      BY <1>2, <2>1, <2>3
    <3> HIDE DEF k
    <3>2. Clock(t) \in Nat
      BY DEF Clock
    <3>3. 2 * Clock(t) <= 2 * (k * b) - b
      BY <1>7, <2>3, <3>1, TooFast DEF k
    <3>4. (k + 1) * b = k * b + b /\ k * b \in Nat
      BY <2>3, <3>1, Products
    <3> DEFINE C == Clock(t)
               p == k * b
    <3>5. Error(t, b, cycles) = Distance(C, p) /\ Error(t, b, c) = Distance(C, p + b)
      BY <2>1, <3>1, <3>4 DEF Error, k
    <3>6. C \in Nat /\ p \in Nat /\ 2 * C <= 2 * p - b
      BY <3>2, <3>3, <3>4
    <3> HIDE DEF C, p
    <3>7. Distance(C, p) <= Distance(C, p + b)
      BY <2>3, <3>6 DEF Distance
    <3> QED BY <3>5, <3>7
  <2> QED BY <2>2, <2>3
<1> QED BY <1>1, <1>3, <1>5, <1>6, <1>7 DEF Outcome

----------------------------------------------------------------------------
(* The coding reported. *)

\* The rates at either end of the range, in units of a bit per second.
LEMMA EndRates ==
    /\ Slowest("STM32F0").rate = 732 /\ Slowest("STM32F1").rate = 549
    /\ Fastest("STM32F0").rate = 6000000 /\ Fastest("STM32F1").rate = 2250000
<1>1. Slowest("STM32F0").rate = 732
  <2>1. (48000000 + 36863) \div 65535 = 732
    BY SMT
  <2> QED BY <2>1, SMT DEF Slowest, Clock, MaxDivider
<1>2. Slowest("STM32F1").rate = 549
  <2>1. (36000000 + 36863) \div 65535 = 549
    BY SMT
  <2> QED BY <2>1, SMT DEF Slowest, Clock, MaxDivider
<1>3. Fastest("STM32F0").rate = 6000000
  BY SMT DEF Fastest, Clock
<1>4. Fastest("STM32F1").rate = 2250000
  BY SMT DEF Fastest, Clock
<1> QED BY <1>1, <1>2, <1>3, <1>4

\* The rate reported is that of the bit time, to half a unit of the one or the other.
LEMMA RateOfDivider ==
    ASSUME NEW t \in Targets, NEW b \in Int, NEW d \in Dividers(t, b),
           NEW g, g = Generator(t, b, d), NEW cycles, cycles = CyclesPerBit(g)
    PROVE  2 * Distance(Clock(t), cycles * g.rate)
              <= (IF cycles > g.rate THEN cycles ELSE g.rate)
<1>1. Outcome(t, b, d, g)
  BY GeneratorCases
<1>2. CASE d > MaxDivider /\ g = Slowest(t)
  <2>1. cycles = MaxDivider
    BY <1>2, CycleFacts
  <2>2. CASE t = "STM32F0"
    <3>1. g.rate = 732 /\ Clock(t) = 48000000 /\ cycles = 65535
      BY <1>2, <2>1, <2>2, EndRates, SMT DEF Clock, MaxDivider
    <3> QED BY <3>1, SMT DEF Distance
  <2>3. CASE t = "STM32F1"
    <3>1. g.rate = 549 /\ Clock(t) = 36000000 /\ cycles = 65535
      BY <1>2, <2>1, <2>3, EndRates, SMT DEF Clock, MaxDivider
    <3> QED BY <3>1, SMT DEF Distance
  <2> QED BY <2>2, <2>3 DEF Targets
<1>3. ASSUME g.rate = b, cycles = d, d \in Nat, b > 0
      PROVE  2 * Distance(Clock(t), cycles * g.rate)
                <= (IF cycles > g.rate THEN cycles ELSE g.rate)
  <2>1. 2 * Distance(Clock(t), d * b) <= b
    BY <1>3, DividerIsNearest DEF Error
  <2> DEFINE e == Distance(Clock(t), d * b)
  <2>2. e \in Int
    <3>1. Clock(t) \in Int /\ d * b \in Int
      BY <1>3, SMT DEF Clock
    <3> QED BY <3>1 DEF Distance
  <2> HIDE DEF e
  <2>3. 2 * e <= (IF d > b THEN d ELSE b)
    BY <1>3, <2>1, <2>2 DEF e
  <2> QED BY <1>3, <2>3 DEF e
<1>4. CASE d \in 16 .. MaxDivider /\ b > 0 /\ g = Divided(b, d, FALSE)
  <2>1. cycles = d /\ d \in Nat
    BY <1>1, <1>4, CycleFacts DEF Outcome
  <2>2. g.rate = b
    BY <1>4 DEF Divided
  <2> QED BY <1>3, <1>4, <2>1, <2>2
<1>5. CASE d \in 8 .. 15 /\ b > 0 /\ t = "STM32F0" /\ g = Divided(b, 16 + (d % 8), TRUE)
  <2>1. cycles = d
    BY <1>5, CycleFacts
  <2>2. d \in Nat
    BY <1>5
  <2>3. g.rate = b
    BY <1>5 DEF Divided
  <2> QED BY <1>3, <1>5, <2>1, <2>2, <2>3
<1>6. CASE d < FastestCycles(t) /\ g = Fastest(t)
  <2>1. cycles = FastestCycles(t)
    BY <1>6, CycleFacts
  <2>2. CASE t = "STM32F0"
    <3>1. g.rate = 6000000 /\ Clock(t) = 48000000 /\ cycles = 8
      BY <1>6, <2>1, <2>2, EndRates, SMT DEF Clock, FastestCycles
    <3> QED BY <3>1, SMT DEF Distance
  <2>3. CASE t = "STM32F1"
    <3>1. g.rate = 2250000 /\ Clock(t) = 36000000 /\ cycles = 16
      BY <1>6, <2>1, <2>3, EndRates, SMT DEF Clock, FastestCycles
    <3> QED BY <3>1, SMT DEF Distance
  <2> QED BY <2>2, <2>3 DEF Targets
<1> QED BY <1>1, <1>2, <1>4, <1>5, <1>6 DEF Outcome

\* The high-water mark at either end of the range.
LEMMA Marks ==
    ASSUME NEW b \in Nat
    PROVE  /\ b < 2000 => HighWaterMark(b) = UART_RX_BUF_LEN
           /\ b >= 2048000 => HighWaterMark(b) = 0
<1> DEFINE q == b \div 2000
<1>1. Quotient(b, 2000) = q
  BY DEF Quotient
<1>2. q \in Nat /\ (b < 2000 => q = 0) /\ (b >= 2048000 => q >= 1024)
  BY SMT
<1> HIDE DEF q
<1>3. HighWaterMark(b) = IF UART_RX_BUF_LEN - q < 0 THEN 0 ELSE UART_RX_BUF_LEN - q
  BY <1>1 DEF HighWaterMark
<1> QED BY <1>2, <1>3, SMT DEF UART_RX_BUF_LEN

\* The rate reported makes for the same divider and the same high-water mark.
LEMMA ReportedRate ==
    ASSUME NEW t \in Targets, NEW b \in Nat, b > 0, NEW d \in Dividers(t, b),
           NEW g, g = Generator(t, b, d)
    PROVE  /\ g.rate \in Nat /\ g.rate > 0
           /\ \A e \in Dividers(t, g.rate) : Generator(t, g.rate, e) = g
           /\ HighWaterMark(g.rate) = HighWaterMark(b)
<1>1. Outcome(t, b, d, g)
  BY GeneratorCases
<1>2. CASE g.rate = b
  <2>1. \A e \in Dividers(t, b) : e = d
    BY DEF Dividers
  <2> QED BY <1>2, <2>1
<1>3. CASE d > MaxDivider /\ g = Slowest(t)
  <2>1. b < 2000
    BY <1>3, TooSlow
  <2>2. ASSUME NEW r \in Nat, r = g.rate, r > 0, r < 2000,
               NEW e, Dividers(t, r) = {e}, e \in Nat, e > MaxDivider
        PROVE  /\ g.rate \in Nat /\ g.rate > 0
               /\ \A x \in Dividers(t, g.rate) : Generator(t, g.rate, x) = g
               /\ HighWaterMark(g.rate) = HighWaterMark(b)
    <3>1. HighWaterMark(r) = HighWaterMark(b)
      BY <2>1, <2>2, Marks
    <3>2. e > MaxDivider /\ e \notin 16 .. MaxDivider /\ e \notin 8 .. 15
      BY <2>2, MaxDividerFacts
    <3>3. Generator(t, r, e) = Slowest(t)
      BY <3>2, GeneratorOfDivider
    <3> QED BY <1>3, <2>2, <3>1, <3>3
  <2>3. CASE t = "STM32F0"
    <3>1. g.rate = 732
      BY <1>3, <2>3, EndRates
    <3>2. (48000000 + 732 \div 2) \div 732 = 65574
      BY SMT
    <3>3. Dividers(t, 732) = {65574}
      BY <2>3, <3>2, SMT DEF Dividers, Clock
    <3>4. 65574 > MaxDivider
      BY SMT DEF MaxDivider
    <3> QED BY <2>2, <3>1, <3>3, <3>4, SMT
  <2>4. CASE t = "STM32F1"
    <3>1. g.rate = 549
      BY <1>3, <2>4, EndRates
    <3>2. (36000000 + 549 \div 2) \div 549 = 65574
      BY SMT
    <3>3. Dividers(t, 549) = {65574}
      BY <2>4, <3>2, SMT DEF Dividers, Clock
    <3>4. 65574 > MaxDivider
      BY SMT DEF MaxDivider
    <3> QED BY <2>2, <3>1, <3>3, <3>4, SMT
  <2> QED BY <2>3, <2>4 DEF Targets
<1>4. CASE d < FastestCycles(t) /\ g = Fastest(t)
  <2>1. 2 * Clock(t) <= 2 * (FastestCycles(t) * b) - b
    <3>1. FastestCycles(t) \in Nat
      BY DEF FastestCycles
    <3> QED BY <1>4, <3>1, TooFast
  <2>2. CASE t = "STM32F0"
    <3>1. g.rate = 6000000 /\ b >= 2048000
      BY <1>4, <2>1, <2>2, EndRates, SMT DEF Clock, FastestCycles
    <3>2. HighWaterMark(g.rate) = HighWaterMark(b)
      BY <3>1, Marks, SMT
    <3>3. (48000000 + 6000000 \div 2) \div 6000000 = 8
      BY SMT
    <3>4. Dividers(t, g.rate) = {8}
      BY <2>2, <3>1, <3>3, SMT DEF Dividers, Clock
    <3>5. Generator(t, g.rate, 8) = Divided(g.rate, 16 + (8 % 8), TRUE)
      <4>1. ~(8 > MaxDivider) /\ 8 \notin 16 .. MaxDivider /\ 8 \in 8 .. 15
        BY MaxDividerFacts
      <4> QED BY <2>2, <4>1, GeneratorOfDivider
    <3>6. Divided(g.rate, 16 + (8 % 8), TRUE) = g
      BY <1>4, <2>2, <3>1, SMT DEF Divided, Fastest, Clock
    <3>7. \A e \in Dividers(t, g.rate) : Generator(t, g.rate, e) = g
      BY <3>4, <3>5, <3>6, Zenon
    <3>8. g.rate \in Nat /\ g.rate > 0
      BY <3>1, SMT
    <3> QED BY <3>2, <3>7, <3>8, Zenon
  <2>3. CASE t = "STM32F1"
    <3>1. g.rate = 2250000 /\ b >= 2048000
      BY <1>4, <2>1, <2>3, EndRates, SMT DEF Clock, FastestCycles
    <3>2. HighWaterMark(g.rate) = HighWaterMark(b)
      BY <3>1, Marks, SMT
    <3>3. (36000000 + 2250000 \div 2) \div 2250000 = 16
      BY SMT
    <3>4. Dividers(t, g.rate) = {16}
      BY <2>3, <3>1, <3>3, SMT DEF Dividers, Clock
    <3>5. Generator(t, g.rate, 16) = Divided(g.rate, 16, FALSE)
      <4>1. ~(16 > MaxDivider) /\ 16 \in 16 .. MaxDivider /\ 16 \notin 8 .. 15
        BY MaxDividerFacts
      <4> QED BY <4>1, GeneratorOfDivider
    <3>6. Divided(g.rate, 16, FALSE) = g
      BY <1>4, <2>3, <3>1, SMT DEF Divided, Fastest, Clock
    <3>7. \A e \in Dividers(t, g.rate) : Generator(t, g.rate, e) = g
      BY <3>4, <3>5, <3>6, Zenon
    <3>8. g.rate \in Nat /\ g.rate > 0
      BY <3>1, SMT
    <3> QED BY <3>2, <3>7, <3>8, Zenon
  <2> QED BY <2>2, <2>3 DEF Targets
<1>5. CASE d \in 16 .. MaxDivider /\ g = Divided(b, d, FALSE)
  <2>1. g.rate = b
    BY <1>5 DEF Divided
  <2> QED BY <1>2, <2>1
<1>6. CASE g = Divided(b, 16 + (d % 8), TRUE)
  <2>1. g.rate = b
    BY <1>6 DEF Divided
  <2> QED BY <1>2, <2>1
<1> QED BY <1>1, <1>3, <1>4, <1>5, <1>6 DEF Outcome

----------------------------------------------------------------------------
(* The device. *)

\* What set_coding() leaves behind for one generator.
Coding(g, baud, format) ==
    [generator |-> g, tx_max_chunk_size |-> Clamp(Quotient(g.rate, 10000), 16, 256),
     rx_high_water_mark |-> HighWaterMark(baud), format |-> format,
     frame_bits |-> format.databits + (IF format.parity = "none" THEN 0 ELSE 1)]

\* set_coding() by its dividers.
LEMMA SetCodingElements ==
    ASSUME NEW t, NEW b, NEW format
    PROVE  SetCoding(t, b, format) = {Coding(Generator(t, b, d), b, format) : d \in Dividers(t, b)}
<1> DEFINE G == {Generator(t, b, d) : d \in Dividers(t, b)}
<1>1. SetCoding(t, b, format) = {Coding(g, b, format) : g \in G}
  BY DEF SetCoding, Coding
<1>2. {Coding(g, b, format) : g \in G} = {Coding(Generator(t, b, d), b, format) : d \in Dividers(t, b)}
  OBVIOUS
<1> QED BY <1>1, <1>2

\* The generator and the format of a coding.
LEMMA CodingFields ==
    ASSUME NEW g, NEW b, NEW format
    PROVE  Coding(g, b, format).generator = g /\ Coding(g, b, format).format = format
BY DEF Coding

\* The coding in use is what set_coding() makes of the bit rate last asked for and
\* of the format it reports.
CodingInv ==
    /\ target \in Targets
    /\ requested \in Int
    /\ is_enabled => coding \in SetCoding(target, requested, coding.format)

\* The two properties follow from it.
LEMMA NearestOfInv == CodingInv => NearestDivider
<1> SUFFICES ASSUME CodingInv, is_enabled PROVE NearestDivider
  BY DEF NearestDivider
<1>1. PICK d \in Dividers(target, requested) :
         coding = Coding(Generator(target, requested, d), requested, coding.format)
  BY SetCodingElements DEF CodingInv
<1>2. coding.generator = Generator(target, requested, d)
  BY <1>1, CodingFields
<1> DEFINE g == coding.generator
           cycles == CyclesPerBit(g)
<1> HIDE DEF g, cycles
<1>3. /\ cycles \in PossibleCycles(target)
      /\ requested > 0 => \A c \in {cycles - 1, cycles + 1} \cap PossibleCycles(target) :
                            Error(target, requested, cycles) <= Error(target, requested, c)
  BY <1>2, NearestOfAny DEF CodingInv, g, cycles
<1> QED BY <1>3 DEF NearestDivider, Error, g, cycles

\* The second of the two.
LEMMA RoundTripOfInv == CodingInv => CodingRoundTrip
<1> SUFFICES ASSUME CodingInv, is_enabled PROVE CodingRoundTrip
  BY DEF CodingRoundTrip
<1> DEFINE g == coding.generator
           cycles == CyclesPerBit(g)
           format == coding.format
<1>1. PICK d \in Dividers(target, requested) :
         coding = Coding(Generator(target, requested, d), requested, format)
  BY SetCodingElements DEF CodingInv
<1>2. g = Generator(target, requested, d)
  BY <1>1, CodingFields
<1>3. 2 * Distance(Clock(target), cycles * g.rate)
         <= (IF cycles > g.rate THEN cycles ELSE g.rate)
  BY <1>2, RateOfDivider DEF CodingInv
<1>4. ASSUME requested > 0 PROVE SetCoding(target, g.rate, format) = {coding}
  <2>1. /\ g.rate \in Nat /\ g.rate > 0
        /\ \A e \in Dividers(target, g.rate) : Generator(target, g.rate, e) = g
        /\ HighWaterMark(g.rate) = HighWaterMark(requested)
    BY <1>2, <1>4, ReportedRate DEF CodingInv
  <2>2. Dividers(target, g.rate) # {}
    BY DEF Dividers
  <2>3. Coding(g, g.rate, format) = coding
    BY <1>1, <1>2, <2>1 DEF Coding
  <2>4. SetCoding(target, g.rate, format)
           = {Coding(Generator(target, g.rate, e), g.rate, format) : e \in Dividers(target, g.rate)}
    BY SetCodingElements
  <2> QED BY <2>1, <2>2, <2>3, <2>4
<1> QED BY <1>3, <1>4 DEF CodingRoundTrip

\* Of all steps only SET_CONFIGURATION and SET_LINE_CODING concern the coding, and both
\* leave what set_coding() makes of a bit rate.
LEMMA CodingStep ==
    ASSUME Next
    PROVE  /\ target' = target
           /\ \/ UNCHANGED <<is_enabled, coding, requested>>
              \/ \E b \in Int : \E format : requested' = b /\ coding' \in SetCoding(target, b, format)
<1> USE DEF serialVars, Answer, Ignore
<1>1. CASE BusReset
  BY <1>1 DEF BusReset
<1>2. ASSUME NEW value, SetAddress(value) PROVE UNCHANGED <<target, serialVars>>
  BY <1>2 DEF SetAddress
<1>3. ASSUME NEW value, SetConfiguration(value)
      PROVE  /\ target' = target
             /\ \/ UNCHANGED <<is_enabled, coding, requested>>
                \/ \E b \in Int : \E format : requested' = b /\ coding' \in SetCoding(target, b, format)
  BY <1>3 DEF SetConfiguration, EnableUart
<1>4. ASSUME NEW interface, GetInterface(interface) PROVE UNCHANGED <<target, serialVars>>
  BY <1>4 DEF GetInterface
<1>5. ASSUME NEW interface, NEW setting, SetInterface(interface, setting)
      PROVE  UNCHANGED <<target, serialVars>>
  BY <1>5 DEF SetInterface
<1>6. ASSUME NEW stall, HaltEndpoint(stall) PROVE UNCHANGED <<target, serialVars>>
  BY <1>6 DEF HaltEndpoint
<1>7. ASSUME NEW recipient, NEW request, NEW feature, Unsupported(recipient, request, feature)
      PROVE  UNCHANGED <<target, serialVars>>
  BY <1>7 DEF Unsupported
<1>8. ASSUME NEW value, SetControlLineState(value)
      PROVE  UNCHANGED <<target, is_enabled, coding, requested>>
  BY <1>8 DEF SetControlLineState
<1>9. ASSUME NEW len, GetConfiguration(len) \/ GetDescriptor(len)
                        \/ GetDeviceOrInterfaceStatus(len) \/ GetEndpointStatus(len)
      PROVE  UNCHANGED <<target, serialVars>>
  BY <1>9 DEF GetConfiguration, GetDescriptor, GetDeviceOrInterfaceStatus, GetEndpointStatus
<1>10. ASSUME NEW len, NEW interface, GetLineCoding(len, interface)
       PROVE  UNCHANGED <<target, serialVars>>
  BY <1>10 DEF GetLineCoding
<1>11. ASSUME NEW len, NEW interface, NEW baud \in Rates, NEW format,
              SetLineCoding(len, interface, baud, format)
       PROVE  /\ target' = target
              /\ \/ UNCHANGED <<is_enabled, coding, requested>>
                 \/ \E b \in Int : \E f : requested' = b /\ coding' \in SetCoding(target, b, f)
  BY <1>11, DeviceAssumption DEF SetLineCoding
<1>12. CASE Request
  BY <1>2, <1>3, <1>4, <1>5, <1>6, <1>7, <1>8, <1>9, <1>10, <1>11, <1>12 DEF Request
<1> QED BY <1>1, <1>12 DEF Next

\* CodingInv holds in every reachable state.
THEOREM CodingInvariant == Spec => []CodingInv
<1>1. Init => CodingInv
  BY DEF Init, CodingInv
<1>2. CodingInv /\ [Next]_vars => CodingInv'
  <2> SUFFICES ASSUME CodingInv, [Next]_vars PROVE CodingInv'
    OBVIOUS
  <2>1. CASE UNCHANGED vars
    BY <2>1 DEF vars, serialVars, CodingInv
  <2>2. CASE Next
    <3>1. target' = target
      BY <2>2, CodingStep
    <3>2. CASE UNCHANGED <<is_enabled, coding, requested>>
      BY <3>1, <3>2 DEF CodingInv
    <3>3. CASE \E b \in Int : \E format : requested' = b /\ coding' \in SetCoding(target, b, format)
      <4>1. PICK b \in Int : \E format : requested' = b /\ coding' \in SetCoding(target, b, format)
        BY <3>3
      <4>2. PICK format : requested' = b /\ coding' \in SetCoding(target, b, format)
        BY <4>1
      <4>3. PICK d \in Dividers(target, b) : coding' = Coding(Generator(target, b, d), b, format)
        BY <4>2, SetCodingElements
      <4>4. coding'.format = format
        BY <4>3, CodingFields
      <4> QED BY <3>1, <4>2, <4>4 DEF CodingInv
    <3> QED BY <2>2, <3>2, <3>3, CodingStep
  <2> QED BY <2>1, <2>2
<1> QED BY <1>1, <1>2, PTL DEF Spec

\* Whatever bit rate the host asks for, the USART runs at the possible bit time
\* nearest to it (uart_impl::set_baudrate()).
THEOREM NearestDividerHolds == Spec => []NearestDivider
BY CodingInvariant, NearestOfInv, PTL

\* Whatever bit rate the host asked for, the line coding it reads is the one in use,
\* and writing it back changes nothing (uart_impl::set_coding(), coding()).
THEOREM CodingRoundTripHolds == Spec => []CodingRoundTrip
BY CodingInvariant, RoundTripOfInv, PTL

----------------------------------------------------------------------------
(* How endpoints and packet memory are laid out.                             *)

\* The endpoints' numbers.
Out == EpNum(DATA_OUT_1)
In == EpNum(DATA_IN_1)
Comm == EpNum(COMM_IN_1)

Entries == EndpointNumbers \X {0, 1}
Entry(addr, bl_size, num_block) ==
    [addr |-> addr, bl_size |-> bl_size, num_block |-> num_block, count |-> 0]
State(type, dbl_buf, tx, rx) == [type |-> type, dbl_buf |-> dbl_buf, tx |-> tx, rx |-> rx]
States == [type : {0, 2, 3}, dbl_buf : BOOLEAN, tx : {"disabled", "stall", "nak", "valid"},
           rx : {"disabled", "valid"}]

Silent(ep, n) == ep[n].tx = "disabled" /\ ep[n].rx = "disabled"

\* Endpoint 0 and its buffers after a bus reset; the others with theirs after
\* SET_CONFIGURATION.
Endpoint0(ep, mem) ==
    /\ ep[0] = State(QSB_ENDPOINT_ATTR_CONTROL, FALSE, "nak", "valid")
    /\ mem.btable[<<0, 0>>] = Entry(64, 0, 0) /\ mem.btable[<<0, 1>>] = Entry(80, 0, 8)
OtherBuffers(mem) ==
    /\ mem.btable[<<Out, 1>>] = Entry(96, 1, 1) /\ mem.btable[<<Out, 0>>] = Entry(160, 1, 1)
    /\ mem.btable[<<In, 0>>] = Entry(224, 0, 0) /\ mem.btable[<<In, 1>>] = Entry(288, 0, 0)
    /\ mem.btable[<<Comm, 0>>] = Entry(352, 0, 0)
OtherEndpoints(ep, mem) ==
    /\ ep[Out] = State(QSB_ENDPOINT_ATTR_BULK, TRUE, "disabled", "valid")
    /\ ep[In] = State(QSB_ENDPOINT_ATTR_BULK, TRUE, "valid", "disabled")
    /\ \E tx \in {"stall", "nak", "valid"} :
          ep[Comm] = State(QSB_ENDPOINT_ATTR_INTERRUPT, FALSE, tx, "disabled")
    /\ \A n \in EndpointNumbers : n \notin {0, Out, In, Comm} => Silent(ep, n)
    /\ OtherBuffers(mem)

IsMemory(mem) ==
    /\ mem = [pm_top |-> mem.pm_top, btable |-> mem.btable] /\ mem.pm_top \in Nat
    /\ mem.btable = [e \in Entries |-> mem.btable[e]]
Shapes(ep, mem) == ep \in [EndpointNumbers -> States] /\ IsMemory(mem)

AllDefault(ep, mem) == (\A n \in EndpointNumbers : Silent(ep, n)) /\ mem.pm_top = 64
Reset(ep, mem) ==
    Endpoint0(ep, mem) /\ (\A n \in EndpointNumbers \ {0} : Silent(ep, n)) /\ mem.pm_top = 96
Configured(ep, mem) == Endpoint0(ep, mem) /\ OtherEndpoints(ep, mem) /\ mem.pm_top = 368

\* What a bus reset and SET_CONFIGURATION make of endpoints and memory, and what a
\* halt leaves of it.
Layout ==
    /\ Shapes(endpoint, memory)
    /\ ep_callbacks \subseteq {DATA_OUT_1, DATA_IN_1, COMM_IN_1}
    /\ \/ AllDefault(endpoint, memory) /\ current_config = 0
       \/ Reset(endpoint, memory) /\ current_config = 0
       \/ /\ Configured(endpoint, memory)
          /\ ep_callbacks = {DATA_OUT_1, DATA_IN_1, COMM_IN_1}

\* The endpoints' numbers and directions.
LEMMA EpFacts ==
    /\ EndpointNumbers = 0 .. 7
    /\ EpNum(0) = 0 /\ Out = 1 /\ In = 2 /\ Comm = 3
    /\ ~IsTx(0) /\ ~IsTx(DATA_OUT_1) /\ IsTx(DATA_IN_1) /\ IsTx(COMM_IN_1)
BY SMT DEF EndpointNumbers, QSB_NUM_ENDPOINTS, Out, In, Comm, EpNum, IsTx, DATA_OUT_1, DATA_IN_1, COMM_IN_1

\* The two sizes receive buffers have, in blocks.
LEMMA Blocks ==
    /\ RxBlocks(16) = [bl_size |-> 0, num_block |-> 8] /\ BlocksSize(RxBlocks(16)) = 16
    /\ RxBlocks(64) = [bl_size |-> 1, num_block |-> 1] /\ BlocksSize(RxBlocks(64)) = 64
<1>1. ((64 - 1) \div 32) % 32 = 1 /\ (16 + 1) \div 2 = 8
  BY SMT
<1>2. RxBlocks(16) = [bl_size |-> 0, num_block |-> 8] /\ RxBlocks(64) = [bl_size |-> 1, num_block |-> 1]
  BY <1>1, SMT DEF RxBlocks
<1> QED BY <1>2, SMT DEF BlocksSize

\* A buffer set up: where it is, and where the next one will be.
Placed(mem, ep, offset, bl_size, num_block) ==
    [mem.btable EXCEPT ![<<ep, offset>>] = Entry(mem.pm_top, bl_size, num_block)]

\* Setting up a buffer is to place it and to move the top.
LEMMA BufferPlaced ==
    ASSUME NEW mem, NEW ep, NEW offset
    PROVE  /\ \A size : SetupBufTx(mem, ep, offset, size)
                = [pm_top |-> mem.pm_top + size, btable |-> Placed(mem, ep, offset, 0, 0)]
           /\ SetupBufRx(mem, ep, offset, 16)
                = [pm_top |-> mem.pm_top + 16, btable |-> Placed(mem, ep, offset, 0, 8)]
           /\ SetupBufRx(mem, ep, offset, 64)
                = [pm_top |-> mem.pm_top + 64, btable |-> Placed(mem, ep, offset, 1, 1)]
<1>1. \A size : SetupBufTx(mem, ep, offset, size)
         = [pm_top |-> mem.pm_top + size, btable |-> Placed(mem, ep, offset, 0, 0)]
  BY DEF SetupBufTx, Placed, Entry
<1>2. \A size : SetupBufRx(mem, ep, offset, size)
         = [pm_top |-> mem.pm_top + BlocksSize(RxBlocks(size)),
            btable |-> Placed(mem, ep, offset, RxBlocks(size).bl_size, RxBlocks(size).num_block)]
  BY DEF SetupBufRx, Placed, Entry
<1>3. RxBlocks(16).bl_size = 0 /\ RxBlocks(16).num_block = 8
      /\ RxBlocks(64).bl_size = 1 /\ RxBlocks(64).num_block = 1
  BY Blocks
<1> QED BY <1>1, <1>2, <1>3, Blocks

\* A buffer placed changes its own entry of BTABLE only.
LEMMA PlacedFacts ==
    ASSUME NEW mem, IsMemory(mem), NEW ep \in 0 .. 7, NEW offset \in {0, 1}, NEW bl, NEW num
    PROVE  LET placed == Placed(mem, ep, offset, bl, num)
           IN  /\ placed = [e \in Entries |-> placed[e]]
               /\ placed[<<ep, offset>>] = Entry(mem.pm_top, bl, num)
               /\ \A e \in Entries : e # <<ep, offset>> => placed[e] = mem.btable[e]
<1> DEFINE v(e) == IF e = <<ep, offset>> THEN Entry(mem.pm_top, bl, num) ELSE mem.btable[e]
<1>1. \A n \in 0 .. 7, o \in {0, 1} : <<n, o>> \in Entries
  BY EpFacts DEF Entries
<1>2. Placed(mem, ep, offset, bl, num) = [e \in Entries |-> v(e)]
  BY <1>1 DEF IsMemory, Placed
<1>3. \A e \in Entries : e # <<ep, offset>> => v(e) = mem.btable[e]
  OBVIOUS
<1>4. v(<<ep, offset>>) = Entry(mem.pm_top, bl, num)
  OBVIOUS
<1> HIDE DEF v
<1> QED BY <1>1, <1>2, <1>3, <1>4

\* A transmit buffer of 16 bytes.
LEMMA Tx16Placed ==
    ASSUME NEW mem, IsMemory(mem), NEW ep \in 0 .. 7, NEW offset \in {0, 1}
    PROVE  /\ IsMemory(SetupBufTx(mem, ep, offset, 16))
           /\ SetupBufTx(mem, ep, offset, 16).btable[<<ep, offset>>] = Entry(mem.pm_top, 0, 0)
           /\ \A e \in Entries : e # <<ep, offset>> =>
                 SetupBufTx(mem, ep, offset, 16).btable[e] = mem.btable[e]
<1> DEFINE new == SetupBufTx(mem, ep, offset, 16)
           placed == Placed(mem, ep, offset, 0, 0)
<1>1. new = [pm_top |-> mem.pm_top + 16, btable |-> placed]
  BY BufferPlaced
<1> HIDE DEF new
<1>2. /\ new.pm_top = mem.pm_top + 16 /\ new.btable = placed
      /\ new = [pm_top |-> new.pm_top, btable |-> new.btable]
  BY <1>1
<1>3. new.pm_top \in Nat
  BY <1>2 DEF IsMemory
<1>4. /\ placed = [e \in Entries |-> placed[e]]
      /\ placed[<<ep, offset>>] = Entry(mem.pm_top, 0, 0)
      /\ \A e \in Entries : e # <<ep, offset>> => placed[e] = mem.btable[e]
  BY PlacedFacts
<1> HIDE DEF placed
<1>5. IsMemory(new)
  BY <1>2, <1>3, <1>4 DEF IsMemory
<1> QED BY <1>2, <1>4, <1>5 DEF new

\* A transmit buffer of 64 bytes.
LEMMA Tx64Placed ==
    ASSUME NEW mem, IsMemory(mem), NEW ep \in 0 .. 7, NEW offset \in {0, 1}
    PROVE  /\ IsMemory(SetupBufTx(mem, ep, offset, 64))
           /\ SetupBufTx(mem, ep, offset, 64).btable[<<ep, offset>>] = Entry(mem.pm_top, 0, 0)
           /\ \A e \in Entries : e # <<ep, offset>> =>
                 SetupBufTx(mem, ep, offset, 64).btable[e] = mem.btable[e]
<1> DEFINE new == SetupBufTx(mem, ep, offset, 64)
           placed == Placed(mem, ep, offset, 0, 0)
<1>1. new = [pm_top |-> mem.pm_top + 64, btable |-> placed]
  BY BufferPlaced
<1> HIDE DEF new
<1>2. /\ new.pm_top = mem.pm_top + 64 /\ new.btable = placed
      /\ new = [pm_top |-> new.pm_top, btable |-> new.btable]
  BY <1>1
<1>3. new.pm_top \in Nat
  BY <1>2 DEF IsMemory
<1>4. /\ placed = [e \in Entries |-> placed[e]]
      /\ placed[<<ep, offset>>] = Entry(mem.pm_top, 0, 0)
      /\ \A e \in Entries : e # <<ep, offset>> => placed[e] = mem.btable[e]
  BY PlacedFacts
<1> HIDE DEF placed
<1>5. IsMemory(new)
  BY <1>2, <1>3, <1>4 DEF IsMemory
<1> QED BY <1>2, <1>4, <1>5 DEF new

\* A receive buffer of 16 bytes.
LEMMA Rx16Placed ==
    ASSUME NEW mem, IsMemory(mem), NEW ep \in 0 .. 7, NEW offset \in {0, 1}
    PROVE  /\ IsMemory(SetupBufRx(mem, ep, offset, 16))
           /\ SetupBufRx(mem, ep, offset, 16).btable[<<ep, offset>>] = Entry(mem.pm_top, 0, 8)
           /\ \A e \in Entries : e # <<ep, offset>> =>
                 SetupBufRx(mem, ep, offset, 16).btable[e] = mem.btable[e]
<1> DEFINE new == SetupBufRx(mem, ep, offset, 16)
           placed == Placed(mem, ep, offset, 0, 8)
<1>1. new = [pm_top |-> mem.pm_top + 16, btable |-> placed]
  BY BufferPlaced
<1> HIDE DEF new
<1>2. /\ new.pm_top = mem.pm_top + 16 /\ new.btable = placed
      /\ new = [pm_top |-> new.pm_top, btable |-> new.btable]
  BY <1>1
<1>3. new.pm_top \in Nat
  BY <1>2 DEF IsMemory
<1>4. /\ placed = [e \in Entries |-> placed[e]]
      /\ placed[<<ep, offset>>] = Entry(mem.pm_top, 0, 8)
      /\ \A e \in Entries : e # <<ep, offset>> => placed[e] = mem.btable[e]
  BY PlacedFacts
<1> HIDE DEF placed
<1>5. IsMemory(new)
  BY <1>2, <1>3, <1>4 DEF IsMemory
<1> QED BY <1>2, <1>4, <1>5 DEF new

\* A receive buffer of 64 bytes.
LEMMA Rx64Placed ==
    ASSUME NEW mem, IsMemory(mem), NEW ep \in 0 .. 7, NEW offset \in {0, 1}
    PROVE  /\ IsMemory(SetupBufRx(mem, ep, offset, 64))
           /\ SetupBufRx(mem, ep, offset, 64).btable[<<ep, offset>>] = Entry(mem.pm_top, 1, 1)
           /\ \A e \in Entries : e # <<ep, offset>> =>
                 SetupBufRx(mem, ep, offset, 64).btable[e] = mem.btable[e]
<1> DEFINE new == SetupBufRx(mem, ep, offset, 64)
           placed == Placed(mem, ep, offset, 1, 1)
<1>1. new = [pm_top |-> mem.pm_top + 64, btable |-> placed]
  BY BufferPlaced
<1> HIDE DEF new
<1>2. /\ new.pm_top = mem.pm_top + 64 /\ new.btable = placed
      /\ new = [pm_top |-> new.pm_top, btable |-> new.btable]
  BY <1>1
<1>3. new.pm_top \in Nat
  BY <1>2 DEF IsMemory
<1>4. /\ placed = [e \in Entries |-> placed[e]]
      /\ placed[<<ep, offset>>] = Entry(mem.pm_top, 1, 1)
      /\ \A e \in Entries : e # <<ep, offset>> => placed[e] = mem.btable[e]
  BY PlacedFacts
<1> HIDE DEF placed
<1>5. IsMemory(new)
  BY <1>2, <1>3, <1>4 DEF IsMemory
<1> QED BY <1>2, <1>4, <1>5 DEF new

\* Where the next buffer will be.
LEMMA Tops ==
    ASSUME NEW mem, NEW ep, NEW offset
    PROVE  /\ SetupBufTx(mem, ep, offset, 16).pm_top = mem.pm_top + 16
           /\ SetupBufTx(mem, ep, offset, 64).pm_top = mem.pm_top + 64
           /\ SetupBufRx(mem, ep, offset, 16).pm_top = mem.pm_top + 16
           /\ SetupBufRx(mem, ep, offset, 64).pm_top = mem.pm_top + 64
BY BufferPlaced

\* The endpoints and the entries there are.
LEMMA Numbers ==
    /\ 0 \in 0 .. 7 /\ Out \in 0 .. 7 /\ In \in 0 .. 7 /\ Comm \in 0 .. 7 /\ 0 \in {0, 1} /\ 1 \in {0, 1}
BY EpFacts

\* Which buffers an endpoint has.
LEMMA BuffersOf ==
    ASSUME NEW mem
    PROVE  /\ SetupBuffers(mem, 0, FALSE, FALSE, 16)
                = SetupBufRx(SetupBufTx(mem, 0, 0, 16), 0, 1, 16)
           /\ SetupBuffers(mem, Out, FALSE, TRUE, 64)
                = SetupBufRx(SetupBufRx(mem, Out, 1, 64), Out, 0, 64)
           /\ SetupBuffers(mem, In, TRUE, TRUE, 64)
                = SetupBufTx(SetupBufTx(mem, In, 0, 64), In, 1, 64)
           /\ SetupBuffers(mem, Comm, TRUE, FALSE, 16)
                = SetupBufTx(mem, Comm, 0, 16)
BY EpFacts DEF SetupBuffers, qsb_offset_tx, qsb_offset_rx, qsb_offset_db0, qsb_offset_db1

\* The buffers of one endpoint, by its kind.
LEMMA ControlBuffers ==
    ASSUME NEW mem, IsMemory(mem), NEW top \in Nat, mem.pm_top = top,
           NEW m1, m1 = SetupBufTx(mem, 0, 0, 16),
           NEW m2, m2 = SetupBufRx(m1, 0, 1, 16)
    PROVE  /\ IsMemory(m2) /\ m2.pm_top = top + 32
           /\ m2.btable[<<0, 0>>] = Entry(top, 0, 0)
           /\ m2.btable[<<0, 1>>] = Entry(top + 16, 0, 8)
           /\ \A e \in Entries : e # <<0, 0>> /\ e # <<0, 1>> => m2.btable[e] = mem.btable[e]
<1>1. IsMemory(m1)
  BY Tx16Placed, Numbers, Zenon
<1>2. m1.pm_top = mem.pm_top + 16
  BY Tops
<1>3. m1.btable[<<0, 0>>] = Entry(mem.pm_top, 0, 0)
  BY Tx16Placed, Numbers, Zenon
<1>4. \A e \in Entries : e # <<0, 0>> => m1.btable[e] = mem.btable[e]
  BY Tx16Placed, Numbers, Zenon
<1>5. IsMemory(m2)
  BY <1>1, Rx16Placed, Numbers, Zenon
<1>6. m2.pm_top = m1.pm_top + 16
  BY Tops
<1>7. m2.btable[<<0, 1>>] = Entry(m1.pm_top, 0, 8)
  BY <1>1, Rx16Placed, Numbers, Zenon
<1>8. \A e \in Entries : e # <<0, 1>> => m2.btable[e] = m1.btable[e]
  BY <1>1, Rx16Placed, Numbers, Zenon
<1>9. <<0, 0>> \in Entries /\ <<0, 0>> # <<0, 1>>
  BY EpFacts DEF Entries
<1>10. m1.pm_top = top + 16 /\ m2.pm_top = top + 32
  BY <1>2, <1>6
<1>11. m2.btable[<<0, 0>>] = m1.btable[<<0, 0>>]
  BY <1>8, <1>9
<1> QED BY <1>3, <1>4, <1>5, <1>7, <1>8, <1>10, <1>11

\* The two receive buffers of the endpoint for data from the host.
LEMMA OutBuffers ==
    ASSUME NEW mem, IsMemory(mem), NEW top \in Nat, mem.pm_top = top,
           NEW m1, m1 = SetupBufRx(mem, Out, 1, 64),
           NEW m2, m2 = SetupBufRx(m1, Out, 0, 64)
    PROVE  /\ IsMemory(m2) /\ m2.pm_top = top + 128
           /\ m2.btable[<<Out, 1>>] = Entry(top, 1, 1)
           /\ m2.btable[<<Out, 0>>] = Entry(top + 64, 1, 1)
           /\ \A e \in Entries : e # <<Out, 1>> /\ e # <<Out, 0>> => m2.btable[e] = mem.btable[e]
<1>1. IsMemory(m1)
  BY Rx64Placed, Numbers, Zenon
<1>2. m1.pm_top = mem.pm_top + 64
  BY Tops
<1>3. m1.btable[<<Out, 1>>] = Entry(mem.pm_top, 1, 1)
  BY Rx64Placed, Numbers, Zenon
<1>4. \A e \in Entries : e # <<Out, 1>> => m1.btable[e] = mem.btable[e]
  BY Rx64Placed, Numbers, Zenon
<1>5. IsMemory(m2)
  BY <1>1, Rx64Placed, Numbers, Zenon
<1>6. m2.pm_top = m1.pm_top + 64
  BY Tops
<1>7. m2.btable[<<Out, 0>>] = Entry(m1.pm_top, 1, 1)
  BY <1>1, Rx64Placed, Numbers, Zenon
<1>8. \A e \in Entries : e # <<Out, 0>> => m2.btable[e] = m1.btable[e]
  BY <1>1, Rx64Placed, Numbers, Zenon
<1>9. <<Out, 1>> \in Entries /\ <<Out, 1>> # <<Out, 0>>
  BY EpFacts DEF Entries
<1>10. m1.pm_top = top + 64 /\ m2.pm_top = top + 128
  BY <1>2, <1>6
<1>11. m2.btable[<<Out, 1>>] = m1.btable[<<Out, 1>>]
  BY <1>8, <1>9
<1> QED BY <1>3, <1>4, <1>5, <1>7, <1>8, <1>10, <1>11

\* The two transmit buffers of the endpoint for data to the host.
LEMMA InBuffers ==
    ASSUME NEW mem, IsMemory(mem), NEW top \in Nat, mem.pm_top = top,
           NEW m1, m1 = SetupBufTx(mem, In, 0, 64),
           NEW m2, m2 = SetupBufTx(m1, In, 1, 64)
    PROVE  /\ IsMemory(m2) /\ m2.pm_top = top + 128
           /\ m2.btable[<<In, 0>>] = Entry(top, 0, 0)
           /\ m2.btable[<<In, 1>>] = Entry(top + 64, 0, 0)
           /\ \A e \in Entries : e # <<In, 0>> /\ e # <<In, 1>> => m2.btable[e] = mem.btable[e]
<1>1. IsMemory(m1)
  BY Tx64Placed, Numbers, Zenon
<1>2. m1.pm_top = mem.pm_top + 64
  BY Tops
<1>3. m1.btable[<<In, 0>>] = Entry(mem.pm_top, 0, 0)
  BY Tx64Placed, Numbers, Zenon
<1>4. \A e \in Entries : e # <<In, 0>> => m1.btable[e] = mem.btable[e]
  BY Tx64Placed, Numbers, Zenon
<1>5. IsMemory(m2)
  BY <1>1, Tx64Placed, Numbers, Zenon
<1>6. m2.pm_top = m1.pm_top + 64
  BY Tops
<1>7. m2.btable[<<In, 1>>] = Entry(m1.pm_top, 0, 0)
  BY <1>1, Tx64Placed, Numbers, Zenon
<1>8. \A e \in Entries : e # <<In, 1>> => m2.btable[e] = m1.btable[e]
  BY <1>1, Tx64Placed, Numbers, Zenon
<1>9. <<In, 0>> \in Entries /\ <<In, 0>> # <<In, 1>>
  BY EpFacts DEF Entries
<1>10. m1.pm_top = top + 64 /\ m2.pm_top = top + 128
  BY <1>2, <1>6
<1>11. m2.btable[<<In, 0>>] = m1.btable[<<In, 0>>]
  BY <1>8, <1>9
<1> QED BY <1>3, <1>4, <1>5, <1>7, <1>8, <1>10, <1>11

\* The transmit buffer of the endpoint for notifications.
LEMMA CommBuffers ==
    ASSUME NEW mem, IsMemory(mem), NEW top \in Nat, mem.pm_top = top,
           NEW m1, m1 = SetupBufTx(mem, Comm, 0, 16)
    PROVE  /\ IsMemory(m1) /\ m1.pm_top = top + 16 /\ m1.btable[<<Comm, 0>>] = Entry(top, 0, 0)
           /\ \A e \in Entries : e # <<Comm, 0>> => m1.btable[e] = mem.btable[e]
<1>1. IsMemory(m1)
  BY Tx16Placed, Numbers, Zenon
<1>2. m1.pm_top = mem.pm_top + 16
  BY Tops
<1>3. m1.btable[<<Comm, 0>>] = Entry(mem.pm_top, 0, 0)
  BY Tx16Placed, Numbers, Zenon
<1>4. \A e \in Entries : e # <<Comm, 0>> => m1.btable[e] = mem.btable[e]
  BY Tx16Placed, Numbers, Zenon
<1>5. m1.pm_top = top + 16
  BY <1>2
<1> QED BY <1>1, <1>3, <1>4, <1>5

----------------------------------------------------------------------------
(* The endpoints. *)

\* qsb_dev_ep_setup() once the number of buffers is known.
SetupWith(fs, addr, type, dbl, size, callback) ==
    LET ep == EpNum(addr)
        typed == [fs.endpoint[ep] EXCEPT !.type = type, !.dbl_buf = dbl]
        tx == IF IsTx(addr) \/ ep = 0
              THEN [typed EXCEPT !.tx = IF dbl THEN "valid" ELSE "nak"] ELSE typed
    IN  [endpoint |-> [fs.endpoint EXCEPT
                        ![ep] = IF IsTx(addr) THEN tx ELSE [tx EXCEPT !.rx = "valid"]],
         ep_callbacks |-> fs.ep_callbacks \cup (IF ep # 0 /\ callback THEN {addr} ELSE {}),
         memory |-> SetupBuffers(fs.memory, ep, IsTx(addr), dbl, size)]

\* Bulk endpoints have two buffers of 64 bytes.
LEMMA SetupDouble ==
    ASSUME NEW fs, NEW addr, NEW type, NEW size, NEW cb, type = QSB_ENDPOINT_ATTR_BULK, size > 64
    PROVE  EpSetup(fs, addr, type, size, cb) = SetupWith(fs, addr, type, TRUE, 64, cb)
<1> DEFINE dbl == type = QSB_ENDPOINT_ATTR_BULK /\ size > 64
<1>1. EpSetup(fs, addr, type, size, cb) = SetupWith(fs, addr, type, dbl, IF dbl THEN 64 ELSE size, cb)
  BY Zenon DEF EpSetup, SetupWith
<1>2. dbl = TRUE
  OBVIOUS
<1>3. (IF dbl THEN 64 ELSE size) = 64
  OBVIOUS
<1> HIDE DEF dbl
<1> QED BY <1>1, <1>2, <1>3, Zenon

\* The other endpoints have one of the size asked for.
LEMMA SetupSingle ==
    ASSUME NEW fs, NEW addr, NEW type, NEW size, NEW cb, type # QSB_ENDPOINT_ATTR_BULK
    PROVE  EpSetup(fs, addr, type, size, cb) = SetupWith(fs, addr, type, FALSE, size, cb)
<1> DEFINE dbl == type = QSB_ENDPOINT_ATTR_BULK /\ size > 64
<1>1. EpSetup(fs, addr, type, size, cb) = SetupWith(fs, addr, type, dbl, IF dbl THEN 64 ELSE size, cb)
  BY Zenon DEF EpSetup, SetupWith
<1>2. dbl = FALSE
  OBVIOUS
<1>3. (IF dbl THEN 64 ELSE size) = size
  OBVIOUS
<1> HIDE DEF dbl
<1> QED BY <1>1, <1>2, <1>3, Zenon

\* The type and the buffering of an endpoint, but not its status.
LEMMA Retyped ==
    ASSUME NEW s \in States, NEW type, NEW dbl
    PROVE  [s EXCEPT !.type = type, !.dbl_buf = dbl] = State(type, dbl, s.tx, s.rx)
<1>1. s = State(s.type, s.dbl_buf, s.tx, s.rx)
  BY DEF State, States
<1> DEFINE a == s.type
           b == s.dbl_buf
           c == s.tx
           d == s.rx
<1> HIDE DEF a, b, c, d
<1>2. [State(a, b, c, d) EXCEPT !.type = type] = State(type, b, c, d)
  BY SMT DEF State
<1>3. [State(type, b, c, d) EXCEPT !.dbl_buf = dbl] = State(type, dbl, c, d)
  BY SMT DEF State
<1>4. [State(a, b, c, d) EXCEPT !.type = type, !.dbl_buf = dbl]
        = [[State(a, b, c, d) EXCEPT !.type = type] EXCEPT !.dbl_buf = dbl]
  BY SMT
<1>5. [State(a, b, c, d) EXCEPT !.type = type, !.dbl_buf = dbl] = State(type, dbl, c, d)
  BY <1>2, <1>3, <1>4, Zenon
<1> QED BY <1>1, <1>5, Zenon DEF a, b, c, d

\* What becomes of the register of an endpoint.
LEMMA SetupWithTx ==
    ASSUME NEW fs, NEW addr, NEW type, NEW size, NEW dbl,
           IsTx(addr), EpNum(addr) # 0, fs.endpoint[EpNum(addr)] \in States
    PROVE  SetupWith(fs, addr, type, dbl, size, TRUE)
            = [endpoint |-> [fs.endpoint EXCEPT ![EpNum(addr)] =
                    State(type, dbl, IF dbl THEN "valid" ELSE "nak", fs.endpoint[EpNum(addr)].rx)],
               ep_callbacks |-> fs.ep_callbacks \cup {addr},
               memory |-> SetupBuffers(fs.memory, EpNum(addr), TRUE, dbl, size)]
<1> DEFINE typed == [fs.endpoint[EpNum(addr)] EXCEPT !.type = type, !.dbl_buf = dbl]
           status == IF dbl THEN "valid" ELSE "nak"
           rx == fs.endpoint[EpNum(addr)].rx
           tx == fs.endpoint[EpNum(addr)].tx
<1>1. IsTx(addr) = TRUE
  BY DEF IsTx
<1>2. (EpNum(addr) # 0 /\ TRUE) = TRUE
  OBVIOUS
<1>3. SetupWith(fs, addr, type, dbl, size, TRUE)
        = [endpoint |-> [fs.endpoint EXCEPT ![EpNum(addr)] = [typed EXCEPT !.tx = status]],
           ep_callbacks |-> fs.ep_callbacks \cup {addr},
           memory |-> SetupBuffers(fs.memory, EpNum(addr), TRUE, dbl, size)]
  BY <1>1, <1>2, Zenon DEF SetupWith
<1>4. typed = State(type, dbl, tx, rx)
  BY Retyped, Zenon
<1> HIDE DEF typed, status, rx, tx
<1>5. [State(type, dbl, tx, rx) EXCEPT !.tx = status] = State(type, dbl, status, rx)
  BY SMT DEF State
<1> QED BY <1>3, <1>4, <1>5, Zenon DEF status, rx

\* What becomes of the register of an endpoint from the host.
LEMMA SetupWithRx ==
    ASSUME NEW fs, NEW addr, NEW type, NEW size, NEW dbl,
           ~IsTx(addr), EpNum(addr) # 0, fs.endpoint[EpNum(addr)] \in States
    PROVE  SetupWith(fs, addr, type, dbl, size, TRUE)
            = [endpoint |-> [fs.endpoint EXCEPT ![EpNum(addr)] =
                    State(type, dbl, fs.endpoint[EpNum(addr)].tx, "valid")],
               ep_callbacks |-> fs.ep_callbacks \cup {addr},
               memory |-> SetupBuffers(fs.memory, EpNum(addr), FALSE, dbl, size)]
<1> DEFINE typed == [fs.endpoint[EpNum(addr)] EXCEPT !.type = type, !.dbl_buf = dbl]
           rx == fs.endpoint[EpNum(addr)].rx
           tx == fs.endpoint[EpNum(addr)].tx
<1>1. IsTx(addr) = FALSE
  BY DEF IsTx
<1>2. SetupWith(fs, addr, type, dbl, size, TRUE)
        = [endpoint |-> [fs.endpoint EXCEPT ![EpNum(addr)] = [typed EXCEPT !.rx = "valid"]],
           ep_callbacks |-> fs.ep_callbacks \cup {addr},
           memory |-> SetupBuffers(fs.memory, EpNum(addr), FALSE, dbl, size)]
  BY <1>1, Zenon DEF SetupWith
<1>3. typed = State(type, dbl, tx, rx)
  BY Retyped, Zenon
<1> HIDE DEF typed, rx, tx
<1>4. [State(type, dbl, tx, rx) EXCEPT !.rx = "valid"] = State(type, dbl, tx, "valid")
  BY SMT DEF State
<1> QED BY <1>2, <1>3, <1>4, Zenon DEF tx

\* What becomes of the register of endpoint 0.
LEMMA SetupWithBoth ==
    ASSUME NEW fs, NEW type, NEW size, NEW dbl, dbl = FALSE, fs.endpoint[0] \in States
    PROVE  SetupWith(fs, 0, type, dbl, size, FALSE)
            = [endpoint |-> [fs.endpoint EXCEPT ![0] = State(type, dbl, "nak", "valid")],
               ep_callbacks |-> fs.ep_callbacks,
               memory |-> SetupBuffers(fs.memory, 0, FALSE, dbl, size)]
<1> DEFINE typed == [fs.endpoint[0] EXCEPT !.type = type, !.dbl_buf = dbl]
           both == [[typed EXCEPT !.tx = IF dbl THEN "valid" ELSE "nak"] EXCEPT !.rx = "valid"]
           rx == fs.endpoint[0].rx
           tx == fs.endpoint[0].tx
<1>1. IsTx(0) = FALSE /\ EpNum(0) = 0
  BY EpFacts DEF IsTx
<1>2. fs.ep_callbacks \cup {} = fs.ep_callbacks
  OBVIOUS
<1>3. SetupWith(fs, 0, type, dbl, size, FALSE)
        = [endpoint |-> [fs.endpoint EXCEPT ![0] = both],
           ep_callbacks |-> fs.ep_callbacks,
           memory |-> SetupBuffers(fs.memory, 0, FALSE, dbl, size)]
  BY <1>1, <1>2, Zenon DEF SetupWith
<1>4. typed = State(type, dbl, tx, rx)
  BY Retyped, Zenon
<1>5. (IF dbl THEN "valid" ELSE "nak") = "nak"
  OBVIOUS
<1> HIDE DEF typed, rx, tx
<1>6. both = [[State(type, dbl, tx, rx) EXCEPT !.tx = "nak"] EXCEPT !.rx = "valid"]
  BY <1>4, <1>5, Zenon
<1>7. ASSUME NEW d
      PROVE  [State(type, d, tx, rx) EXCEPT !.tx = "nak"] = State(type, d, "nak", rx)
  BY SMT DEF State
<1>8. ASSUME NEW d
      PROVE  [State(type, d, "nak", rx) EXCEPT !.rx = "valid"] = State(type, d, "nak", "valid")
  BY SMT DEF State
<1> HIDE DEF both
<1> QED BY <1>3, <1>6, <1>7, <1>8, Zenon

\* qsb_dev_ep_setup() for each of the endpoints.
LEMMA SetupControl ==
    ASSUME NEW fs, fs.endpoint \in [EndpointNumbers -> States]
    PROVE  EpSetup(fs, 0, QSB_ENDPOINT_ATTR_CONTROL, bMaxPacketSize0, FALSE)
                = [endpoint |-> [fs.endpoint EXCEPT
                                    ![0] = State(QSB_ENDPOINT_ATTR_CONTROL, FALSE, "nak", "valid")],
                   ep_callbacks |-> fs.ep_callbacks,
                   memory |-> SetupBuffers(fs.memory, 0, FALSE, FALSE, 16)]
<1>1. QSB_ENDPOINT_ATTR_CONTROL # QSB_ENDPOINT_ATTR_BULK /\ bMaxPacketSize0 = 16
  BY DEF QSB_ENDPOINT_ATTR_BULK, QSB_ENDPOINT_ATTR_CONTROL, bMaxPacketSize0
<1>2. fs.endpoint[0] \in States
  BY EpFacts
<1>3. EpSetup(fs, 0, QSB_ENDPOINT_ATTR_CONTROL, 16, FALSE)
        = SetupWith(fs, 0, QSB_ENDPOINT_ATTR_CONTROL, FALSE, 16, FALSE)
  BY <1>1, SetupSingle, Zenon
<1> QED BY <1>1, <1>2, <1>3, SetupWithBoth, Zenon

\* The endpoint for data from the host.
LEMMA SetupOut ==
    ASSUME NEW fs, fs.endpoint \in [EndpointNumbers -> States]
    PROVE  EpSetup(fs, DATA_OUT_1, QSB_ENDPOINT_ATTR_BULK, 2 * CDCACM_PACKET_SIZE, TRUE)
                = [endpoint |-> [fs.endpoint EXCEPT
                                    ![Out] = State(QSB_ENDPOINT_ATTR_BULK, TRUE, fs.endpoint[Out].tx, "valid")],
                   ep_callbacks |-> fs.ep_callbacks \cup {DATA_OUT_1},
                   memory |-> SetupBuffers(fs.memory, Out, FALSE, TRUE, 64)]
<1> DEFINE size == 2 * CDCACM_PACKET_SIZE
<1>1. size > 64 /\ Out = EpNum(DATA_OUT_1) /\ Out # 0 /\ ~IsTx(DATA_OUT_1)
  BY EpFacts DEF CDCACM_PACKET_SIZE, Out
<1>2. fs.endpoint[Out] \in States
  BY EpFacts
<1> HIDE DEF size
<1>3. EpSetup(fs, DATA_OUT_1, QSB_ENDPOINT_ATTR_BULK, size, TRUE)
        = SetupWith(fs, DATA_OUT_1, QSB_ENDPOINT_ATTR_BULK, TRUE, 64, TRUE)
  BY <1>1, SetupDouble, Zenon
<1> QED BY <1>1, <1>2, <1>3, SetupWithRx, Zenon DEF size

\* The endpoint for data to the host.
LEMMA SetupIn ==
    ASSUME NEW fs, fs.endpoint \in [EndpointNumbers -> States]
    PROVE  EpSetup(fs, DATA_IN_1, QSB_ENDPOINT_ATTR_BULK, 2 * CDCACM_PACKET_SIZE, TRUE)
                = [endpoint |-> [fs.endpoint EXCEPT
                                    ![In] = State(QSB_ENDPOINT_ATTR_BULK, TRUE, "valid", fs.endpoint[In].rx)],
                   ep_callbacks |-> fs.ep_callbacks \cup {DATA_IN_1},
                   memory |-> SetupBuffers(fs.memory, In, TRUE, TRUE, 64)]
<1> DEFINE size == 2 * CDCACM_PACKET_SIZE
<1>1. size > 64 /\ In = EpNum(DATA_IN_1) /\ In # 0 /\ IsTx(DATA_IN_1)
  BY EpFacts DEF CDCACM_PACKET_SIZE, In
<1>2. fs.endpoint[In] \in States
  BY EpFacts
<1> HIDE DEF size
<1>3. EpSetup(fs, DATA_IN_1, QSB_ENDPOINT_ATTR_BULK, size, TRUE)
        = SetupWith(fs, DATA_IN_1, QSB_ENDPOINT_ATTR_BULK, TRUE, 64, TRUE)
  BY <1>1, SetupDouble, Zenon
<1>4. (IF TRUE THEN "valid" ELSE "nak") = "valid"
  OBVIOUS
<1> QED BY <1>1, <1>2, <1>3, <1>4, SetupWithTx, Zenon DEF size

\* The endpoint for notifications.
LEMMA SetupComm ==
    ASSUME NEW fs, fs.endpoint \in [EndpointNumbers -> States]
    PROVE  EpSetup(fs, COMM_IN_1, QSB_ENDPOINT_ATTR_INTERRUPT, 16, TRUE)
                = [endpoint |-> [fs.endpoint EXCEPT
                                    ![Comm] = State(QSB_ENDPOINT_ATTR_INTERRUPT, FALSE, "nak", fs.endpoint[Comm].rx)],
                   ep_callbacks |-> fs.ep_callbacks \cup {COMM_IN_1},
                   memory |-> SetupBuffers(fs.memory, Comm, TRUE, FALSE, 16)]
<1>1. /\ Comm = EpNum(COMM_IN_1) /\ Comm # 0 /\ IsTx(COMM_IN_1)
      /\ QSB_ENDPOINT_ATTR_INTERRUPT # QSB_ENDPOINT_ATTR_BULK
  BY EpFacts DEF Comm, QSB_ENDPOINT_ATTR_INTERRUPT, QSB_ENDPOINT_ATTR_BULK
<1>2. fs.endpoint[Comm] \in States
  BY EpFacts
<1>3. EpSetup(fs, COMM_IN_1, QSB_ENDPOINT_ATTR_INTERRUPT, 16, TRUE)
        = SetupWith(fs, COMM_IN_1, QSB_ENDPOINT_ATTR_INTERRUPT, FALSE, 16, TRUE)
  BY <1>1, SetupSingle, Zenon
<1>4. (IF FALSE THEN "valid" ELSE "nak") = "nak"
  OBVIOUS
<1> QED BY <1>1, <1>2, <1>3, <1>4, SetupWithTx, Zenon

\* The three fields of what qsb_dev_ep_setup() works on.
LEMMA StateFields ==
    ASSUME NEW fs, NEW ep, NEW callbacks, NEW mem,
           fs = [endpoint |-> ep, ep_callbacks |-> callbacks, memory |-> mem]
    PROVE  fs.endpoint = ep /\ fs.ep_callbacks = callbacks /\ fs.memory = mem
OBVIOUS

\* One endpoint changed.
LEMMA OneChanged ==
    ASSUME NEW f \in [EndpointNumbers -> States], NEW n \in EndpointNumbers, NEW s \in States
    PROVE  /\ [f EXCEPT ![n] = s] \in [EndpointNumbers -> States] /\ [f EXCEPT ![n] = s][n] = s
           /\ \A m \in EndpointNumbers : m # n => [f EXCEPT ![n] = s][m] = f[m]
OBVIOUS

\* What a bus reset makes of the endpoints.
LEMMA ResetState ==
    ASSUME NEW mem, IsMemory(mem), NEW callbacks, NEW fs,
           fs = EpSetup([endpoint |-> [e \in EndpointNumbers |-> Disabled], ep_callbacks |-> callbacks,
                         memory |-> [mem EXCEPT !.pm_top = PM_TOP_INIT]],
                        0, QSB_ENDPOINT_ATTR_CONTROL, bMaxPacketSize0, FALSE)
    PROVE  Shapes(fs.endpoint, fs.memory) /\ Reset(fs.endpoint, fs.memory) /\ fs.ep_callbacks = callbacks
<1> DEFINE all == [e \in EndpointNumbers |-> Disabled]
           low == [mem EXCEPT !.pm_top = PM_TOP_INIT]
           before == [endpoint |-> all, ep_callbacks |-> callbacks, memory |-> low]
           state == State(QSB_ENDPOINT_ATTR_CONTROL, FALSE, "nak", "valid")
           new == SetupBufRx(SetupBufTx(low, 0, 0, 16), 0, 1, 16)
<1>1. Disabled \in States /\ Disabled.tx = "disabled" /\ Disabled.rx = "disabled"
  BY DEF Disabled, States, QSB_ENDPOINT_ATTR_BULK
<1>2. state \in States
  BY DEF State, States, QSB_ENDPOINT_ATTR_CONTROL
<1>3. IsMemory(low) /\ low.pm_top = 64
  BY DEF IsMemory, PM_TOP_INIT, QSB_NUM_ENDPOINTS
<1>4. all \in [EndpointNumbers -> States]
  BY <1>1
<1>5. before.endpoint = all /\ before.ep_callbacks = callbacks /\ before.memory = low
  OBVIOUS
<1> HIDE DEF low, all
<1>6. fs = EpSetup(before, 0, QSB_ENDPOINT_ATTR_CONTROL, bMaxPacketSize0, FALSE)
  BY DEF low, all
<1> HIDE DEF before, state
<1>7. fs = [endpoint |-> [all EXCEPT ![0] = state], ep_callbacks |-> callbacks,
            memory |-> SetupBuffers(low, 0, FALSE, FALSE, 16)]
  BY <1>4, <1>5, <1>6, SetupControl, Zenon DEF state
<1>8. /\ IsMemory(new) /\ new.pm_top = 64 + 32
      /\ new.btable[<<0, 0>>] = Entry(64, 0, 0)
      /\ new.btable[<<0, 1>>] = Entry(64 + 16, 0, 8)
  BY <1>3, ControlBuffers
<1>9. SetupBuffers(low, 0, FALSE, FALSE, 16) = new
  BY BuffersOf, Zenon
<1> HIDE DEF new
<1>10. fs = [endpoint |-> [all EXCEPT ![0] = state], ep_callbacks |-> callbacks, memory |-> new]
  BY <1>7, <1>9, Zenon
<1>11. fs.endpoint = [all EXCEPT ![0] = state] /\ fs.ep_callbacks = callbacks /\ fs.memory = new
  BY <1>10, StateFields, Zenon
<1>12. /\ fs.endpoint \in [EndpointNumbers -> States] /\ fs.endpoint[0] = state
       /\ \A n \in EndpointNumbers \ {0} : fs.endpoint[n] = Disabled
  <2>1. 0 \in EndpointNumbers
    BY EpFacts
  <2>2. \A n \in EndpointNumbers : all[n] = Disabled
    BY DEF all
  <2> QED BY <1>2, <1>4, <1>11, <2>1, <2>2
<1>13. \A n \in EndpointNumbers \ {0} : Silent(fs.endpoint, n)
  BY <1>1, <1>12 DEF Silent
<1>14. Endpoint0(fs.endpoint, fs.memory) /\ fs.memory.pm_top = 96
  <2>1. 64 + 32 = 96 /\ 64 + 16 = 80
    OBVIOUS
  <2>2. new.pm_top = 96 /\ new.btable[<<0, 1>>] = Entry(80, 0, 8)
    BY <1>8, <2>1, Zenon
  <2> QED BY <1>8, <1>12, <1>11, <2>2, Zenon DEF Endpoint0, state
<1> QED BY <1>8, <1>12, <1>13, <1>14, <1>11, Zenon DEF Shapes, Reset

\* qsb_internal_ep_reset()
LEMMA EpResetState ==
    ASSUME NEW ep \in [EndpointNumbers -> States], NEW mem, IsMemory(mem), NEW callbacks, NEW fs,
           fs = EpReset([endpoint |-> ep, ep_callbacks |-> callbacks, memory |-> mem])
    PROVE  /\ Shapes(fs.endpoint, fs.memory) /\ fs.ep_callbacks = callbacks
           /\ fs.endpoint[0] = ep[0] /\ (\A n \in EndpointNumbers \ {0} : Silent(fs.endpoint, n))
           /\ fs.memory.btable = mem.btable /\ fs.memory.pm_top = 96
<1> DEFINE low == [mem EXCEPT !.pm_top = PM_TOP_INIT + 2 * bMaxPacketSize0]
           off(e) == IF e = 0 THEN ep[e] ELSE [ep[e] EXCEPT !.tx = "disabled", !.rx = "disabled"]
           all == [e \in EndpointNumbers |-> off(e)]
<1>1. IsMemory(low) /\ low.pm_top = 96 /\ low.btable = mem.btable
  BY DEF IsMemory, PM_TOP_INIT, QSB_NUM_ENDPOINTS, bMaxPacketSize0
<1>2. \A e \in EndpointNumbers : off(e) \in States
  <2>1. ASSUME NEW s \in States
        PROVE  [s EXCEPT !.tx = "disabled", !.rx = "disabled"] \in States
    BY DEF States
  <2>2. \A e \in EndpointNumbers : ep[e] \in States
    OBVIOUS
  <2> QED BY <2>1, <2>2
<1>3. \A e \in EndpointNumbers \ {0} : off(e).tx = "disabled" /\ off(e).rx = "disabled"
  BY DEF States
<1>4. off(0) = ep[0]
  OBVIOUS
<1>5. fs = [endpoint |-> all, ep_callbacks |-> callbacks, memory |-> low]
  BY DEF EpReset
<1> HIDE DEF off, low
<1>6. fs.endpoint = all /\ fs.ep_callbacks = callbacks /\ fs.memory = low
  BY <1>5
<1> QED BY <1>1, <1>2, <1>3, <1>4, <1>6, EpFacts DEF Shapes, Silent

\* on_usb_configured(): an endpoint's register and buffers.
OutResult(fs, new, s, callbacks, mem, top, second, after) ==
    /\ Shapes(new.endpoint, new.memory) /\ new.ep_callbacks = callbacks /\ new.memory = mem
    /\ new.endpoint[Out] = s
    /\ \A n \in EndpointNumbers : n # Out => new.endpoint[n] = fs.endpoint[n]
    /\ new.memory.pm_top = after
    /\ new.memory.btable[<<Out, 1>>] = Entry(top, 1, 1)
    /\ new.memory.btable[<<Out, 0>>] = Entry(second, 1, 1)
    /\ \A e \in Entries : e # <<Out, 1>> /\ e # <<Out, 0>> =>
             new.memory.btable[e] = fs.memory.btable[e]

\* Data from the host: two receive buffers, where the packet memory ended.
LEMMA OutSet ==
    ASSUME NEW fs, Shapes(fs.endpoint, fs.memory), NEW top \in Nat, fs.memory.pm_top = top,
           NEW second, second = top + 64, NEW after, after = top + 128,
           NEW s \in States, NEW callbacks, NEW mem, mem = SetupBufRx(SetupBufRx(fs.memory, Out, 1, 64), Out, 0, 64),
           NEW new, new = [endpoint |-> [fs.endpoint EXCEPT ![Out] = s], ep_callbacks |-> callbacks,
                           memory |-> mem]
    PROVE  OutResult(fs, new, s, callbacks, mem, top, second, after)
<1>1. IsMemory(fs.memory)
  BY DEF Shapes
<1>2. /\ IsMemory(mem) /\ mem.pm_top = top + 128
      /\ mem.btable[<<Out, 1>>] = Entry(top, 1, 1)
      /\ mem.btable[<<Out, 0>>] = Entry(top + 64, 1, 1)
      /\ \A e \in Entries : e # <<Out, 1>> /\ e # <<Out, 0>> => mem.btable[e] = fs.memory.btable[e]
  BY <1>1, OutBuffers
<1>3. Out \in EndpointNumbers
  BY EpFacts
<1>4. /\ new.endpoint = [fs.endpoint EXCEPT ![Out] = s]
      /\ new.ep_callbacks = callbacks /\ new.memory = mem
  OBVIOUS
<1>5. fs.endpoint \in [EndpointNumbers -> States]
  BY DEF Shapes
<1>6. /\ new.endpoint \in [EndpointNumbers -> States] /\ new.endpoint[Out] = s
      /\ \A n \in EndpointNumbers : n # Out => new.endpoint[n] = fs.endpoint[n]
  BY <1>3, <1>4, <1>5, OneChanged
<1> QED BY <1>2, <1>4, <1>6 DEF Shapes, OutResult

InResult(fs, new, s, callbacks, mem, top, second, after) ==
    /\ Shapes(new.endpoint, new.memory) /\ new.ep_callbacks = callbacks /\ new.memory = mem
    /\ new.endpoint[In] = s
    /\ \A n \in EndpointNumbers : n # In => new.endpoint[n] = fs.endpoint[n]
    /\ new.memory.pm_top = after
    /\ new.memory.btable[<<In, 0>>] = Entry(top, 0, 0)
    /\ new.memory.btable[<<In, 1>>] = Entry(second, 0, 0)
    /\ \A e \in Entries : e # <<In, 0>> /\ e # <<In, 1>> =>
             new.memory.btable[e] = fs.memory.btable[e]

\* Data to the host: two transmit buffers.
LEMMA InSet ==
    ASSUME NEW fs, Shapes(fs.endpoint, fs.memory), NEW top \in Nat, fs.memory.pm_top = top,
           NEW second, second = top + 64, NEW after, after = top + 128,
           NEW s \in States, NEW callbacks, NEW mem, mem = SetupBufTx(SetupBufTx(fs.memory, In, 0, 64), In, 1, 64),
           NEW new, new = [endpoint |-> [fs.endpoint EXCEPT ![In] = s], ep_callbacks |-> callbacks,
                           memory |-> mem]
    PROVE  InResult(fs, new, s, callbacks, mem, top, second, after)
<1>1. IsMemory(fs.memory)
  BY DEF Shapes
<1>2. /\ IsMemory(mem) /\ mem.pm_top = top + 128
      /\ mem.btable[<<In, 0>>] = Entry(top, 0, 0)
      /\ mem.btable[<<In, 1>>] = Entry(top + 64, 0, 0)
      /\ \A e \in Entries : e # <<In, 0>> /\ e # <<In, 1>> => mem.btable[e] = fs.memory.btable[e]
  BY <1>1, InBuffers
<1>3. In \in EndpointNumbers
  BY EpFacts
<1>4. /\ new.endpoint = [fs.endpoint EXCEPT ![In] = s]
      /\ new.ep_callbacks = callbacks /\ new.memory = mem
  OBVIOUS
<1>5. fs.endpoint \in [EndpointNumbers -> States]
  BY DEF Shapes
<1>6. /\ new.endpoint \in [EndpointNumbers -> States] /\ new.endpoint[In] = s
      /\ \A n \in EndpointNumbers : n # In => new.endpoint[n] = fs.endpoint[n]
  BY <1>3, <1>4, <1>5, OneChanged
<1> QED BY <1>2, <1>4, <1>6 DEF Shapes, InResult

CommResult(fs, new, s, callbacks, mem, top, after) ==
    /\ Shapes(new.endpoint, new.memory) /\ new.ep_callbacks = callbacks /\ new.memory = mem
    /\ new.endpoint[Comm] = s
    /\ \A n \in EndpointNumbers : n # Comm => new.endpoint[n] = fs.endpoint[n]
    /\ new.memory.pm_top = after
    /\ new.memory.btable[<<Comm, 0>>] = Entry(top, 0, 0)
    /\ \A e \in Entries : e # <<Comm, 0>> =>
             new.memory.btable[e] = fs.memory.btable[e]

\* Notifications: one transmit buffer.
LEMMA CommSet ==
    ASSUME NEW fs, Shapes(fs.endpoint, fs.memory), NEW top \in Nat, fs.memory.pm_top = top,
           NEW after, after = top + 16,
           NEW s \in States, NEW callbacks, NEW mem, mem = SetupBufTx(fs.memory, Comm, 0, 16),
           NEW new, new = [endpoint |-> [fs.endpoint EXCEPT ![Comm] = s], ep_callbacks |-> callbacks,
                           memory |-> mem]
    PROVE  CommResult(fs, new, s, callbacks, mem, top, after)
<1>1. IsMemory(fs.memory)
  BY DEF Shapes
<1>2. /\ IsMemory(mem) /\ mem.pm_top = top + 16
      /\ mem.btable[<<Comm, 0>>] = Entry(top, 0, 0)
      /\ \A e \in Entries : e # <<Comm, 0>> => mem.btable[e] = fs.memory.btable[e]
  BY <1>1, CommBuffers
<1>3. Comm \in EndpointNumbers
  BY EpFacts
<1>4. /\ new.endpoint = [fs.endpoint EXCEPT ![Comm] = s]
      /\ new.ep_callbacks = callbacks /\ new.memory = mem
  OBVIOUS
<1>5. fs.endpoint \in [EndpointNumbers -> States]
  BY DEF Shapes
<1>6. /\ new.endpoint \in [EndpointNumbers -> States] /\ new.endpoint[Comm] = s
      /\ \A n \in EndpointNumbers : n # Comm => new.endpoint[n] = fs.endpoint[n]
  BY <1>3, <1>4, <1>5, OneChanged
<1> QED BY <1>2, <1>4, <1>6 DEF Shapes, CommResult

\* send_serial_state() of the three fields.
LEMMA FirstState ==
    ASSUME NEW f, NEW callbacks, NEW mem
    PROVE  SendFirstState([endpoint |-> f, ep_callbacks |-> callbacks, memory |-> mem])
            = [endpoint |-> [f EXCEPT ![Comm] = [f[Comm] EXCEPT !.tx = "valid"]],
               ep_callbacks |-> callbacks, memory |-> mem]
BY DEF SendFirstState, Comm

\* What SET_CONFIGURATION makes of the endpoints, and the first notification of
\* the one that is halted sometimes.
LEMMA ConfiguredState ==
    ASSUME NEW ep \in [EndpointNumbers -> States], NEW mem, IsMemory(mem), Endpoint0(ep, mem),
           NEW callbacks
    PROVE  LET new == SendFirstState(SetupEndpoints(EpReset(
                        [endpoint |-> ep, ep_callbacks |-> callbacks, memory |-> mem])))
           IN  /\ Shapes(new.endpoint, new.memory) /\ Configured(new.endpoint, new.memory)
               /\ new.ep_callbacks = callbacks \cup {DATA_OUT_1, DATA_IN_1, COMM_IN_1}
<1> DEFINE fs == [endpoint |-> ep, ep_callbacks |-> callbacks, memory |-> mem]
           reset == EpReset(fs)
           out == EpSetup(reset, DATA_OUT_1, QSB_ENDPOINT_ATTR_BULK, 2 * CDCACM_PACKET_SIZE, TRUE)
           in == EpSetup(out, DATA_IN_1, QSB_ENDPOINT_ATTR_BULK, 2 * CDCACM_PACKET_SIZE, TRUE)
           comm == EpSetup(in, COMM_IN_1, QSB_ENDPOINT_ATTR_INTERRUPT, 16, TRUE)
           new == SendFirstState(comm)
           sOut == State(QSB_ENDPOINT_ATTR_BULK, TRUE, "disabled", "valid")
           sIn == State(QSB_ENDPOINT_ATTR_BULK, TRUE, "valid", "disabled")
           sComm == State(QSB_ENDPOINT_ATTR_INTERRUPT, FALSE, "nak", "disabled")
           sSent == State(QSB_ENDPOINT_ATTR_INTERRUPT, FALSE, "valid", "disabled")
           cOut == reset.ep_callbacks \cup {DATA_OUT_1}
           cIn == out.ep_callbacks \cup {DATA_IN_1}
           cComm == in.ep_callbacks \cup {COMM_IN_1}
           mOut == SetupBufRx(SetupBufRx(reset.memory, Out, 1, 64), Out, 0, 64)
           mIn == SetupBufTx(SetupBufTx(out.memory, In, 0, 64), In, 1, 64)
           mComm == SetupBufTx(in.memory, Comm, 0, 16)
           t1 == 96
           t2 == 160
           t3 == 224
           t4 == 288
           t5 == 352
           t6 == 368
<1>1. /\ t1 \in Nat /\ t2 = t1 + 64 /\ t3 = t1 + 128 /\ t3 \in Nat /\ t4 = t3 + 64 /\ t5 = t3 + 128
      /\ t5 \in Nat /\ t6 = t5 + 16
  OBVIOUS
<1> HIDE DEF t1, t2, t3, t4, t5, t6
<1>2. reset = EpReset([endpoint |-> ep, ep_callbacks |-> callbacks, memory |-> mem])
  OBVIOUS
<1> HIDE DEF fs, reset
<1>3. /\ Shapes(reset.endpoint, reset.memory) /\ reset.ep_callbacks = callbacks
      /\ reset.endpoint[0] = ep[0] /\ (\A n \in EndpointNumbers \ {0} : Silent(reset.endpoint, n))
      /\ reset.memory.btable = mem.btable /\ reset.memory.pm_top = t1
  BY <1>2, EpResetState DEF t1
<1>4. sOut \in States /\ sIn \in States /\ sComm \in States /\ sSent \in States
  BY DEF State, States, QSB_ENDPOINT_ATTR_BULK, QSB_ENDPOINT_ATTR_INTERRUPT
<1>5. /\ Out \in EndpointNumbers \ {0} /\ In \in EndpointNumbers \ {0} /\ Comm \in EndpointNumbers \ {0}
      /\ Out # In /\ Out # Comm /\ In # Comm /\ 0 \in EndpointNumbers
  BY EpFacts
<1>6. /\ \A o \in {0, 1} : <<0, o>> \in Entries /\ <<Out, o>> \in Entries
                           /\ <<In, o>> \in Entries /\ <<Comm, o>> \in Entries
      /\ 0 \in {0, 1} /\ 1 \in {0, 1}
  BY <1>5 DEF Entries
<1>7. /\ \A o, p : <<0, o>> # <<Out, p>> /\ <<0, o>> # <<In, p>> /\ <<0, o>> # <<Comm, p>>
      /\ \A o, p : <<Out, o>> # <<In, p>> /\ <<Out, o>> # <<Comm, p>> /\ <<In, o>> # <<Comm, p>>
  BY <1>5
<1>8. reset.endpoint[Out].tx = "disabled" /\ reset.endpoint[In].rx = "disabled"
      /\ reset.endpoint[Comm].rx = "disabled"
  BY <1>3, <1>5, Zenon DEF Silent
\* The endpoint for data from the host.
<1>9. out = [endpoint |-> [reset.endpoint EXCEPT ![Out] = sOut], ep_callbacks |-> cOut, memory |-> mOut]
  <2>1. reset.endpoint \in [EndpointNumbers -> States]
    BY <1>3 DEF Shapes
  <2>2. out = [endpoint |-> [reset.endpoint EXCEPT ![Out] = State(QSB_ENDPOINT_ATTR_BULK, TRUE, reset.endpoint[Out].tx, "valid")],
               ep_callbacks |-> cOut, memory |-> SetupBuffers(reset.memory, Out, FALSE, TRUE, 64)]
    BY <2>1, SetupOut, Zenon
  <2>3. SetupBuffers(reset.memory, Out, FALSE, TRUE, 64) = mOut
    BY BuffersOf, Zenon
  <2>4. State(QSB_ENDPOINT_ATTR_BULK, TRUE, reset.endpoint[Out].tx, "valid") = sOut
    BY <1>8, Zenon
  <2> HIDE DEF out, cOut, mOut, sOut
  <2> QED BY <2>2, <2>3, <2>4, Zenon
<1> HIDE DEF out, cOut, mOut, sOut
<1>10. /\ Shapes(out.endpoint, out.memory) /\ out.ep_callbacks = cOut
       /\ out.endpoint[Out] = sOut
       /\ \A n \in EndpointNumbers : n # Out => out.endpoint[n] = reset.endpoint[n]
       /\ out.memory.pm_top = t3
       /\ out.memory.btable[<<Out, 1>>] = Entry(t1, 1, 1)
       /\ out.memory.btable[<<Out, 0>>] = Entry(t2, 1, 1)
       /\ \A e \in Entries : e # <<Out, 1>> /\ e # <<Out, 0>> =>
             out.memory.btable[e] = reset.memory.btable[e]
  <2>1. OutResult(reset, out, sOut, cOut, mOut, t1, t2, t3)
    BY <1>3, <1>4, <1>9, <1>1, OutSet DEF mOut
  <2> QED BY <2>1, Zenon DEF OutResult
\* The endpoint for data to the host.
<1>11. out.endpoint[In].rx = "disabled"
  BY <1>5, <1>8, <1>10
<1>12. in = [endpoint |-> [out.endpoint EXCEPT ![In] = sIn], ep_callbacks |-> cIn, memory |-> mIn]
  <2>1. out.endpoint \in [EndpointNumbers -> States]
    BY <1>10 DEF Shapes
  <2>2. in = [endpoint |-> [out.endpoint EXCEPT ![In] = State(QSB_ENDPOINT_ATTR_BULK, TRUE, "valid", out.endpoint[In].rx)],
               ep_callbacks |-> cIn, memory |-> SetupBuffers(out.memory, In, TRUE, TRUE, 64)]
    BY <2>1, SetupIn, Zenon
  <2>3. SetupBuffers(out.memory, In, TRUE, TRUE, 64) = mIn
    BY BuffersOf, Zenon
  <2>4. State(QSB_ENDPOINT_ATTR_BULK, TRUE, "valid", out.endpoint[In].rx) = sIn
    BY <1>11, Zenon
  <2> HIDE DEF in, cIn, mIn, sIn
  <2> QED BY <2>2, <2>3, <2>4, Zenon
<1> HIDE DEF in, cIn, mIn, sIn
<1>13. /\ Shapes(in.endpoint, in.memory) /\ in.ep_callbacks = cIn
       /\ in.endpoint[In] = sIn
       /\ \A n \in EndpointNumbers : n # In => in.endpoint[n] = out.endpoint[n]
       /\ in.memory.pm_top = t5
       /\ in.memory.btable[<<In, 0>>] = Entry(t3, 0, 0)
       /\ in.memory.btable[<<In, 1>>] = Entry(t4, 0, 0)
       /\ \A e \in Entries : e # <<In, 0>> /\ e # <<In, 1>> =>
             in.memory.btable[e] = out.memory.btable[e]
  <2>1. Shapes(out.endpoint, out.memory) /\ out.memory.pm_top = t3
    BY <1>10
  <2>2. mIn = SetupBufTx(SetupBufTx(out.memory, In, 0, 64), In, 1, 64)
    BY Zenon DEF mIn
  <2>3. t3 \in Nat /\ t4 = t3 + 64 /\ t5 = t3 + 128
    BY <1>1
  <2>4. sIn \in States
    BY <1>4, Zenon
  <2>5. InResult(out, in, sIn, cIn, mIn, t3, t4, t5)
    BY <1>12, <2>1, <2>2, <2>3, <2>4, InSet, Zenon
  <2> QED BY <2>5, Zenon DEF InResult
\* The endpoint for notifications.
<1>14. in.endpoint[Comm].rx = "disabled"
  BY <1>5, <1>8, <1>10, <1>13
<1>15. comm = [endpoint |-> [in.endpoint EXCEPT ![Comm] = sComm], ep_callbacks |-> cComm, memory |-> mComm]
  <2>1. in.endpoint \in [EndpointNumbers -> States]
    BY <1>13 DEF Shapes
  <2>2. comm = [endpoint |-> [in.endpoint EXCEPT ![Comm] = State(QSB_ENDPOINT_ATTR_INTERRUPT, FALSE, "nak", in.endpoint[Comm].rx)],
               ep_callbacks |-> cComm, memory |-> SetupBuffers(in.memory, Comm, TRUE, FALSE, 16)]
    BY <2>1, SetupComm, Zenon
  <2>3. SetupBuffers(in.memory, Comm, TRUE, FALSE, 16) = mComm
    BY BuffersOf, Zenon
  <2>4. State(QSB_ENDPOINT_ATTR_INTERRUPT, FALSE, "nak", in.endpoint[Comm].rx) = sComm
    BY <1>14, Zenon
  <2> HIDE DEF comm, cComm, mComm, sComm
  <2> QED BY <2>2, <2>3, <2>4, Zenon
<1> HIDE DEF comm, cComm, mComm, sComm
<1>16. /\ Shapes(comm.endpoint, comm.memory) /\ comm.ep_callbacks = cComm
       /\ comm.endpoint[Comm] = sComm
       /\ \A n \in EndpointNumbers : n # Comm => comm.endpoint[n] = in.endpoint[n]
       /\ comm.memory.pm_top = t6
       /\ comm.memory.btable[<<Comm, 0>>] = Entry(t5, 0, 0)
       /\ \A e \in Entries : e # <<Comm, 0>> => comm.memory.btable[e] = in.memory.btable[e]
  <2>1. CommResult(in, comm, sComm, cComm, mComm, t5, t6)
    BY <1>4, <1>13, <1>15, <1>1, CommSet DEF mComm
  <2> QED BY <2>1, Zenon DEF CommResult
\* The first notification.
<1>17. [sComm EXCEPT !.tx = "valid"] = sSent
  <2>1. ASSUME NEW type, NEW dbl
        PROVE  [State(type, dbl, "nak", "disabled") EXCEPT !.tx = "valid"]
                = State(type, dbl, "valid", "disabled")
    BY SMT DEF State
  <2> QED BY <2>1, Zenon DEF sComm, sSent
<1>18. new = [endpoint |-> [comm.endpoint EXCEPT ![Comm] = sSent], ep_callbacks |-> cComm, memory |-> mComm]
  <2>1. comm.endpoint = [in.endpoint EXCEPT ![Comm] = sComm] /\ comm.endpoint[Comm] = sComm
    BY <1>15, <1>16
  <2>2. comm = [endpoint |-> comm.endpoint, ep_callbacks |-> cComm, memory |-> mComm]
    BY <1>15, <2>1, Zenon
  <2>3. new = [endpoint |-> [comm.endpoint EXCEPT ![Comm] = [comm.endpoint[Comm] EXCEPT !.tx = "valid"]],
               ep_callbacks |-> cComm, memory |-> mComm]
    BY <2>2, FirstState, Zenon
  <2> QED BY <1>17, <2>1, <2>3, Zenon
<1> HIDE DEF new, sSent
<1>19. /\ Shapes(new.endpoint, new.memory) /\ new.ep_callbacks = cComm /\ new.memory = comm.memory
       /\ new.endpoint[Comm] = sSent
       /\ \A n \in EndpointNumbers : n # Comm => new.endpoint[n] = comm.endpoint[n]
  <2>1. new.endpoint = [comm.endpoint EXCEPT ![Comm] = sSent] /\ new.ep_callbacks = cComm
        /\ new.memory = mComm
    BY <1>18
  <2>2. comm.memory = mComm
    BY <1>15
  <2>3. comm.endpoint \in [EndpointNumbers -> States]
    BY <1>16 DEF Shapes
  <2> QED BY <1>4, <1>5, <1>16, <2>1, <2>2, <2>3, OneChanged DEF Shapes
<1>20. new.ep_callbacks = callbacks \cup {DATA_OUT_1, DATA_IN_1, COMM_IN_1}
  BY <1>3, <1>10, <1>13, <1>19 DEF cOut, cIn, cComm
<1>21. /\ new.endpoint[0] = ep[0] /\ new.endpoint[Out] = sOut /\ new.endpoint[In] = sIn
       /\ \A n \in EndpointNumbers : n \notin {0, Out, In, Comm} => Silent(new.endpoint, n)
  BY <1>3, <1>5, <1>10, <1>13, <1>16, <1>19 DEF Silent
<1>22. /\ new.memory.pm_top = 368
       /\ new.memory.btable[<<0, 0>>] = mem.btable[<<0, 0>>]
       /\ new.memory.btable[<<0, 1>>] = mem.btable[<<0, 1>>]
       /\ new.memory.btable[<<Out, 1>>] = Entry(96, 1, 1) /\ new.memory.btable[<<Out, 0>>] = Entry(160, 1, 1)
       /\ new.memory.btable[<<In, 0>>] = Entry(224, 0, 0) /\ new.memory.btable[<<In, 1>>] = Entry(288, 0, 0)
       /\ new.memory.btable[<<Comm, 0>>] = Entry(352, 0, 0)
  <2> DEFINE table == new.memory.btable
  <2>1. \A e \in Entries : e # <<Comm, 0>> => table[e] = in.memory.btable[e]
    BY <1>16, <1>19
  <2>2. \A e \in Entries : e # <<Comm, 0>> /\ e # <<In, 0>> /\ e # <<In, 1>>
            => table[e] = out.memory.btable[e]
    BY <1>13, <2>1
  <2>3. \A e \in Entries : e # <<Comm, 0>> /\ e # <<In, 0>> /\ e # <<In, 1>>
                           /\ e # <<Out, 0>> /\ e # <<Out, 1>>
            => table[e] = mem.btable[e]
    BY <1>3, <1>10, <2>2
  <2>4. table[<<0, 0>>] = mem.btable[<<0, 0>>] /\ table[<<0, 1>>] = mem.btable[<<0, 1>>]
    BY <1>6, <1>7, <2>3
  <2>5. table[<<Out, 1>>] = Entry(t1, 1, 1) /\ table[<<Out, 0>>] = Entry(t2, 1, 1)
    BY <1>6, <1>7, <1>10, <2>2
  <2>6. table[<<In, 0>>] = Entry(t3, 0, 0) /\ table[<<In, 1>>] = Entry(t4, 0, 0)
    BY <1>6, <1>7, <1>13, <2>1
  <2>7. table[<<Comm, 0>>] = Entry(t5, 0, 0) /\ new.memory.pm_top = t6
    BY <1>16, <1>19
  <2> QED BY <2>4, <2>5, <2>6, <2>7, Zenon DEF t1, t2, t3, t4, t5, t6
<1>23. Endpoint0(new.endpoint, new.memory)
  BY <1>21, <1>22, Zenon DEF Endpoint0
<1>24. OtherEndpoints(new.endpoint, new.memory)
  <2>1. "valid" \in {"stall", "nak", "valid"}
    OBVIOUS
  <2> QED BY <1>19, <1>21, <1>22, <2>1, Zenon DEF OtherEndpoints, OtherBuffers, sOut, sIn, sSent
<1>25. Configured(new.endpoint, new.memory)
  BY <1>22, <1>23, <1>24, Zenon DEF Configured
<1> QED BY <1>19, <1>20, <1>25, Zenon DEF fs, reset, out, in, comm, new, SetupEndpoints, SetupDataEndpoints

\* Of all steps only a bus reset, SET_CONFIGURATION and the halt of an endpoint concern
\* the endpoints.
LEMMA EndpointStep ==
    ASSUME Next
    PROVE  \/ BusReset
           \/ /\ endpoint[0].rx = "valid"
              /\ SetFsState(SendFirstState(SetupEndpoints(EpReset(FsState))))
           \/ endpoint[0].rx = "valid" /\ \E stall \in BOOLEAN : HaltEndpoint(stall)
           \/ UNCHANGED <<current_config, endpointVars>>
<1> USE DEF configVars, Answer, Ignore
<1>1. ASSUME NEW value, SetAddress(value) PROVE UNCHANGED <<current_config, endpointVars>>
  BY <1>1 DEF SetAddress
<1>2. ASSUME NEW value, SetConfiguration(value)
      PROVE  \/ SetFsState(SendFirstState(SetupEndpoints(EpReset(FsState))))
             \/ UNCHANGED <<current_config, endpointVars>>
  BY <1>2 DEF SetConfiguration
<1>3. ASSUME NEW interface, GetInterface(interface) PROVE UNCHANGED <<current_config, endpointVars>>
  BY <1>3 DEF GetInterface
<1>4. ASSUME NEW interface, NEW setting, SetInterface(interface, setting)
      PROVE  UNCHANGED <<current_config, endpointVars>>
  BY <1>4 DEF SetInterface
<1>5. ASSUME NEW recipient, NEW request, NEW feature, Unsupported(recipient, request, feature)
      PROVE  UNCHANGED <<current_config, endpointVars>>
  BY <1>5 DEF Unsupported
<1>6. ASSUME NEW value, SetControlLineState(value)
      PROVE  UNCHANGED <<current_config, endpointVars>>
  BY <1>6 DEF SetControlLineState
<1>7. ASSUME NEW len, GetConfiguration(len) \/ GetDescriptor(len)
                        \/ GetDeviceOrInterfaceStatus(len) \/ GetEndpointStatus(len)
      PROVE  UNCHANGED <<current_config, endpointVars>>
  BY <1>7 DEF GetConfiguration, GetDescriptor, GetDeviceOrInterfaceStatus, GetEndpointStatus
<1>8. ASSUME NEW len, NEW interface, GetLineCoding(len, interface)
       PROVE  UNCHANGED <<current_config, endpointVars>>
  BY <1>8 DEF GetLineCoding
<1>9. ASSUME NEW len, NEW interface, NEW baud \in Rates, NEW format,
              SetLineCoding(len, interface, baud, format)
       PROVE  UNCHANGED <<current_config, endpointVars>>
  BY <1>9 DEF SetLineCoding
<1>10. CASE Request
  BY <1>1, <1>2, <1>3, <1>4, <1>5, <1>6, <1>7, <1>8, <1>9, <1>10 DEF Request
<1> QED BY <1>10 DEF Next

\* Before the first bus reset no endpoint answers.
LEMMA InitialLayout == Init => Layout
<1> SUFFICES ASSUME Init PROVE Layout
  OBVIOUS
<1>1. endpoint = [e \in EndpointNumbers |-> Disabled] /\ memory = InitialMemory
      /\ ep_callbacks = {} /\ current_config = 0
  BY DEF Init
<1>2. Disabled \in States /\ Disabled.tx = "disabled" /\ Disabled.rx = "disabled"
  BY DEF Disabled, States, QSB_ENDPOINT_ATTR_BULK
<1>3. endpoint \in [EndpointNumbers -> States] /\ \A n \in EndpointNumbers : Silent(endpoint, n)
  BY <1>1, <1>2 DEF Silent
<1>4. Entries = (0 .. QSB_NUM_ENDPOINTS - 1) \X {0, 1}
  BY Zenon DEF Entries, EndpointNumbers
<1>5. memory = [pm_top |-> 64, btable |-> [e \in Entries |-> NoBuffer]]
  BY <1>1, <1>4 DEF InitialMemory, PM_TOP_INIT, QSB_NUM_ENDPOINTS
<1>6. IsMemory(memory) /\ memory.pm_top = 64
  BY <1>5 DEF IsMemory
<1> QED BY <1>1, <1>3, <1>6 DEF Layout, Shapes, AllDefault

\* A halt changes the endpoint for notifications only, and only its direction.
LEMMA HaltLayout ==
    ASSUME Layout, NEW stall \in BOOLEAN, HaltEndpoint(stall)
    PROVE  Layout'
<1> DEFINE tx == IF stall THEN "stall" ELSE "nak"
           state == State(QSB_ENDPOINT_ATTR_INTERRUPT, FALSE, tx, "disabled")
<1>1. /\ Shapes(endpoint, memory) /\ Configured(endpoint, memory)
      /\ ep_callbacks = {DATA_OUT_1, DATA_IN_1, COMM_IN_1}
  BY DEF Layout, HaltEndpoint
<1>2. /\ endpoint' = [endpoint EXCEPT ![Comm] = [endpoint[Comm] EXCEPT !.tx = tx]]
      /\ ep_callbacks' = ep_callbacks /\ memory' = memory
  BY DEF HaltEndpoint, Comm
<1>3. tx \in {"stall", "nak", "valid"}
  OBVIOUS
<1> HIDE DEF tx
<1>4. PICK old : endpoint[Comm] = State(QSB_ENDPOINT_ATTR_INTERRUPT, FALSE, old, "disabled")
  BY <1>1 DEF Configured, OtherEndpoints
<1>5. ASSUME NEW type, NEW dbl
      PROVE  [State(type, dbl, old, "disabled") EXCEPT !.tx = tx] = State(type, dbl, tx, "disabled")
  BY SMT DEF State
<1>6. endpoint' = [endpoint EXCEPT ![Comm] = state]
  BY <1>2, <1>4, <1>5, Zenon
<1>7. state \in States
  BY <1>3 DEF State, States, QSB_ENDPOINT_ATTR_INTERRUPT
<1> HIDE DEF state
<1>8. endpoint \in [EndpointNumbers -> States] /\ Comm \in EndpointNumbers
  BY <1>1, EpFacts DEF Shapes
<1>9. /\ endpoint' \in [EndpointNumbers -> States] /\ endpoint'[Comm] = state
      /\ \A m \in EndpointNumbers : m # Comm => endpoint'[m] = endpoint[m]
  BY <1>6, <1>7, <1>8, OneChanged, Zenon
<1>10. /\ Out \in EndpointNumbers /\ In \in EndpointNumbers /\ 0 \in EndpointNumbers
       /\ Out # Comm /\ In # Comm /\ 0 # Comm
  BY EpFacts
<1>11. Endpoint0(endpoint', memory')
  BY <1>1, <1>2, <1>9, <1>10, Zenon DEF Configured, Endpoint0
<1>12. OtherEndpoints(endpoint', memory')
  <2>1. \A n \in EndpointNumbers : n \notin {0, Out, In, Comm} => Silent(endpoint', n)
    BY <1>1, <1>9 DEF Configured, OtherEndpoints, Silent
  <2>2. endpoint[Out] = State(QSB_ENDPOINT_ATTR_BULK, TRUE, "disabled", "valid")
        /\ endpoint[In] = State(QSB_ENDPOINT_ATTR_BULK, TRUE, "valid", "disabled")
        /\ OtherBuffers(memory)
    BY <1>1, Zenon DEF Configured, OtherEndpoints
  <2>3. endpoint'[Out] = endpoint[Out] /\ endpoint'[In] = endpoint[In]
    BY <1>9, <1>10, Zenon
  <2>4. endpoint'[Comm] = State(QSB_ENDPOINT_ATTR_INTERRUPT, FALSE, tx, "disabled")
    BY <1>9, Zenon DEF state
  <2> QED BY <1>2, <1>3, <2>1, <2>2, <2>3, <2>4, Zenon DEF OtherEndpoints
<1>13. Configured(endpoint', memory') /\ Shapes(endpoint', memory')
  BY <1>1, <1>2, <1>9, <1>11, <1>12, Zenon DEF Configured, Shapes
<1> QED BY <1>1, <1>2, <1>13 DEF Layout

\* SET_CONFIGURATION lays out all endpoints, from whatever configuration.
LEMMA ConfigurationLayout ==
    ASSUME Layout, endpoint[0].rx = "valid",
           SetFsState(SendFirstState(SetupEndpoints(EpReset(FsState))))
    PROVE  Layout'
<1> DEFINE new == SendFirstState(SetupEndpoints(EpReset(
                [endpoint |-> endpoint, ep_callbacks |-> ep_callbacks, memory |-> memory])))
<1>1. Endpoint0(endpoint, memory)
  <2>1. ~AllDefault(endpoint, memory)
    BY EpFacts DEF AllDefault, Silent
  <2> QED BY <2>1, Zenon DEF Layout, Reset, Configured
<1>2. endpoint \in [EndpointNumbers -> States] /\ IsMemory(memory)
      /\ ep_callbacks \subseteq {DATA_OUT_1, DATA_IN_1, COMM_IN_1}
  BY DEF Layout, Shapes
<1>3. /\ Shapes(new.endpoint, new.memory) /\ Configured(new.endpoint, new.memory)
      /\ new.ep_callbacks = ep_callbacks \cup {DATA_OUT_1, DATA_IN_1, COMM_IN_1}
  BY <1>1, <1>2, ConfiguredState, Zenon
<1>4. endpoint' = new.endpoint /\ ep_callbacks' = new.ep_callbacks /\ memory' = new.memory
  BY Zenon DEF SetFsState, FsState
<1> HIDE DEF new
<1>5. ep_callbacks' = {DATA_OUT_1, DATA_IN_1, COMM_IN_1}
  BY <1>2, <1>3, <1>4
<1> QED BY <1>3, <1>4, <1>5 DEF Layout

\* A bus reset leaves endpoint 0 only.
LEMMA BusResetLayout == ASSUME Layout, BusReset PROVE Layout'
<1> DEFINE new == EpSetup([endpoint |-> [e \in EndpointNumbers |-> Disabled],
                           ep_callbacks |-> ep_callbacks,
                           memory |-> [memory EXCEPT !.pm_top = PM_TOP_INIT]],
                          0, QSB_ENDPOINT_ATTR_CONTROL, bMaxPacketSize0, FALSE)
<1>1. IsMemory(memory)
  BY DEF Layout, Shapes
<1>2. Shapes(new.endpoint, new.memory) /\ Reset(new.endpoint, new.memory) /\ new.ep_callbacks = ep_callbacks
  BY <1>1, ResetState, Zenon
<1>3. endpoint' = new.endpoint /\ ep_callbacks' = new.ep_callbacks /\ memory' = new.memory
      /\ current_config' = 0
  BY Zenon DEF BusReset, SetFsState
<1> HIDE DEF new
<1> QED BY <1>2, <1>3 DEF Layout

\* Layout holds in every reachable state.
THEOREM LayoutInvariant == Spec => []Layout
<1>1. Layout /\ [Next]_vars => Layout'
  <2> SUFFICES ASSUME Layout, [Next]_vars PROVE Layout'
    OBVIOUS
  <2>1. CASE UNCHANGED <<current_config, endpointVars>>
    BY <2>1 DEF Layout, endpointVars
  <2>2. CASE UNCHANGED vars
    BY <2>1, <2>2 DEF vars, configVars
  <2>3. CASE Next
    BY <2>1, <2>3, EndpointStep, HaltLayout, ConfigurationLayout, BusResetLayout
  <2> QED BY <2>2, <2>3
<1> QED BY <1>1, InitialLayout, PTL DEF Spec

----------------------------------------------------------------------------
(* Descriptors.                                                              *)

\* Flattening one sequence, or two.
LEMMA FlattenOne ==
    ASSUME NEW a
    PROVE  Seqs!FlattenSeq(<<a>>) = a
<1> DEFINE s == <<a>>
           F(f) == [i \in 1 .. Len(s) |-> IF i = 1 THEN s[i] ELSE f[i - 1] \o s[i]]
           f == CHOOSE g : g = F(g)
<1>1. Len(s) = 1 /\ s[1] = a
  OBVIOUS
<1>2. Seqs!FlattenSeq(s) = f[Len(s)]
  BY <1>1 DEF Seqs!FlattenSeq
<1> HIDE DEF s
<1>3. F([i \in 1 .. 1 |-> a]) = [i \in 1 .. 1 |-> a]
  BY <1>1
<1>4. f = F(f)
  BY <1>3
<1>5. f[1] = a
  BY <1>1, <1>4
<1> QED BY <1>1, <1>2, <1>5 DEF s

\* Two sequences.
LEMMA FlattenTwo ==
    ASSUME NEW a, NEW b
    PROVE  Seqs!FlattenSeq(<<a, b>>) = a \o b
<1> DEFINE s == <<a, b>>
           F(f) == [i \in 1 .. Len(s) |-> IF i = 1 THEN s[i] ELSE f[i - 1] \o s[i]]
           f == CHOOSE g : g = F(g)
<1>1. Len(s) = 2 /\ s[1] = a /\ s[2] = b
  OBVIOUS
<1>2. Seqs!FlattenSeq(s) = f[Len(s)]
  BY <1>1 DEF Seqs!FlattenSeq
<1> HIDE DEF s
<1> DEFINE w == [i \in 1 .. 2 |-> IF i = 1 THEN a ELSE a \o b]
<1>3. F(w) = w
  BY <1>1
<1> HIDE DEF w
<1>4. f = F(f)
  BY <1>3
<1> HIDE DEF f
<1>5. f[1] = a
  BY <1>1, <1>4
<1>6. f[2] = a \o b
  <2>1. F(f)[2] = f[2 - 1] \o s[2]
    BY <1>1
  <2>2. 2 - 1 = 1
    OBVIOUS
  <2> HIDE DEF F
  <2>3. f[2] = F(f)[2]
    BY <1>4
  <2> QED BY <1>1, <1>5, <2>1, <2>2, <2>3
<1> QED BY <1>1, <1>2, <1>6 DEF s

----------------------------------------------------------------------------
(* What stands where in the configuration descriptor.                        *)

\* A sequence of bytes of a given length; it stands at a place in another one.
Bytes(s, n) == s \in Seq(Nat) /\ Len(s) = n

Join(c, s, m, t, n, k) ==
    /\ Bytes(c, k)
    /\ \A i \in 1 .. m : c[i] = s[i]
    /\ \A i \in m + 1 .. m + n : c[i] = t[i - m]

\* One sequence after the other.
LEMMA Joined ==
    ASSUME NEW s, NEW m \in Nat, Bytes(s, m), NEW t, NEW n \in Nat, Bytes(t, n),
           NEW c, c = s \o t, NEW k, k = m + n
    PROVE  Join(c, s, m, t, n, k)
<1>1. s \in Seq(Nat) /\ t \in Seq(Nat) /\ Len(s) = m /\ Len(t) = n
  BY DEF Bytes
<1>2. s \o t \in Seq(Nat) /\ Len(s \o t) = m + n
  <2>1. s \in Seq(Nat) /\ t \in Seq(Nat) => s \o t \in Seq(Nat) /\ Len(s \o t) = Len(s) + Len(t)
    OBVIOUS
  <2> QED BY <1>1, <2>1
<1>3. ASSUME NEW i \in 1 .. m PROVE (s \o t)[i] = s[i]
  BY <1>1
<1>4. ASSUME NEW i \in m + 1 .. m + n PROVE (s \o t)[i] = t[i - m]
  BY <1>1
<1> QED BY <1>2, <1>3, <1>4 DEF Bytes, Join

\* A word, low byte first.
LEMMA WordBytes ==
    ASSUME NEW n \in Nat
    PROVE  Bytes(Word(n), 2) /\ Word(n)[1] = n % 256 /\ Word(n)[2] = n \div 256
BY DEF Bytes, Word

\* An endpoint descriptor, with the fields a host goes by.
IsEndpoint(d, addr, attributes, low, high) ==
    /\ Bytes(d, 7) /\ d[1] = 7 /\ d[2] = QSB_DT_ENDPOINT /\ d[3] = addr
    /\ d[4] = attributes /\ d[5] = low /\ d[6] = high

\* The fields of an endpoint descriptor are where the USB specification has them.
LEMMA EndpointBytes ==
    ASSUME NEW addr \in Nat, NEW attributes \in Nat, NEW size \in Nat, NEW interval \in Nat,
           NEW low, low = size % 256, NEW high, high = size \div 256,
           NEW d, d = EndpointDesc(addr, attributes, size, interval)
    PROVE  IsEndpoint(d, addr, attributes, low, high)
BY DEF IsEndpoint, EndpointDesc, Bytes, Word, QSB_DT_ENDPOINT

\* A class, a subclass and a protocol.
LEMMA ThreeBytes ==
    ASSUME NEW a \in Nat, NEW b \in Nat, NEW c \in Nat
    PROVE  Bytes(<<a, b, c>>, 3)
BY DEF Bytes

\* An interface descriptor and an interface association descriptor.
IsInterface(d, number, endpoints, string) ==
    /\ Bytes(d, 9) /\ d[1] = 9 /\ d[2] = QSB_DT_INTERFACE /\ d[3] = number
    /\ d[5] = endpoints /\ d[9] = string
IsAssoc(d, first, count, string) ==
    /\ Bytes(d, 8) /\ d[1] = 8 /\ d[2] = QSB_DT_INTERFACE_ASSOCIATION /\ d[3] = first
    /\ d[4] = count /\ d[8] = string

\* The fields of an interface descriptor: the class is between the others.
LEMMA InterfaceBytesOf ==
    ASSUME NEW number \in Nat, NEW setting \in Nat, NEW endpoints \in Nat, NEW string \in Nat,
           NEW class, Bytes(class, 3)
    PROVE  IsInterface(InterfaceDesc(number, setting, endpoints, class, string), number, endpoints, string)
<1> DEFINE head == <<9, QSB_DT_INTERFACE, number, setting, endpoints>>
           tail == <<string>>
<1>1. /\ Bytes(head, 5) /\ head[1] = 9 /\ head[2] = QSB_DT_INTERFACE /\ head[3] = number
      /\ head[5] = endpoints /\ Bytes(tail, 1) /\ tail[1] = string
  BY DEF Bytes, QSB_DT_INTERFACE
<1>2. InterfaceDesc(number, setting, endpoints, class, string) = (head \o class) \o tail
  BY DEF InterfaceDesc
<1> HIDE DEF head, tail
<1> DEFINE front == head \o class
           d == front \o tail
<1>6. front = head \o class /\ d = front \o tail
  OBVIOUS
<1> HIDE DEF front, d
<1>3. Bytes(front, 8) /\ \A i \in 1 .. 5 : front[i] = head[i]
  <2>1. 5 \in Nat /\ 3 \in Nat /\ 8 = 5 + 3
    OBVIOUS
  <2>2. Join(front, head, 5, class, 3, 8)
    BY <1>1, <1>6, <2>1, Joined, Zenon
  <2> QED BY <2>2 DEF Join
<1>4. Bytes(d, 9) /\ (\A i \in 1 .. 8 : d[i] = front[i]) /\ d[9] = tail[1]
  <2>1. 8 \in Nat /\ 1 \in Nat /\ 9 = 8 + 1
    OBVIOUS
  <2>2. Join(d, front, 8, tail, 1, 9)
    BY <1>1, <1>3, <1>6, <2>1, Joined, Zenon
  <2> QED BY <2>2 DEF Join
<1>5. Bytes(d, 9) /\ d[1] = 9 /\ d[2] = QSB_DT_INTERFACE /\ d[3] = number /\ d[5] = endpoints /\ d[9] = string
  BY <1>1, <1>3, <1>4
<1>7. d = InterfaceDesc(number, setting, endpoints, class, string)
  BY <1>2, <1>6, Zenon
<1> QED BY <1>5, <1>7, Zenon DEF IsInterface

\* The fields of an interface association descriptor.
LEMMA AssocBytes ==
    ASSUME NEW first \in Nat, NEW count \in Nat, NEW string \in Nat, NEW class, Bytes(class, 3)
    PROVE  IsAssoc(AssocDesc(first, count, class, string), first, count, string)
<1> DEFINE head == <<8, QSB_DT_INTERFACE_ASSOCIATION, first, count>>
           tail == <<string>>
<1>1. /\ Bytes(head, 4) /\ head[1] = 8 /\ head[2] = QSB_DT_INTERFACE_ASSOCIATION
      /\ head[3] = first /\ head[4] = count /\ Bytes(tail, 1) /\ tail[1] = string
  BY DEF Bytes, QSB_DT_INTERFACE_ASSOCIATION
<1>2. AssocDesc(first, count, class, string) = (head \o class) \o tail
  BY DEF AssocDesc
<1> HIDE DEF head, tail
<1> DEFINE front == head \o class
           d == front \o tail
<1>6. front = head \o class /\ d = front \o tail
  OBVIOUS
<1> HIDE DEF front, d
<1>3. Bytes(front, 7) /\ \A i \in 1 .. 4 : front[i] = head[i]
  <2>1. 4 \in Nat /\ 3 \in Nat /\ 7 = 4 + 3
    OBVIOUS
  <2>2. Join(front, head, 4, class, 3, 7)
    BY <1>1, <1>6, <2>1, Joined, Zenon
  <2> QED BY <2>2 DEF Join
<1>4. Bytes(d, 8) /\ (\A i \in 1 .. 7 : d[i] = front[i]) /\ d[8] = tail[1]
  <2>1. 7 \in Nat /\ 1 \in Nat /\ 8 = 7 + 1
    OBVIOUS
  <2>2. Join(d, front, 7, tail, 1, 8)
    BY <1>1, <1>3, <1>6, <2>1, Joined, Zenon
  <2> QED BY <2>2 DEF Join
<1>5. /\ Bytes(d, 8) /\ d[1] = 8 /\ d[2] = QSB_DT_INTERFACE_ASSOCIATION /\ d[3] = first
      /\ d[4] = count /\ d[8] = string
  BY <1>1, <1>3, <1>4
<1>7. d = AssocDesc(first, count, class, string)
  BY <1>2, <1>6, Zenon
<1> QED BY <1>5, <1>7, Zenon DEF IsAssoc

\* The fields of the configuration descriptor proper.
LEMMA ConfigHeader ==
    ASSUME NEW interfaces \in Nat, NEW value \in Nat, NEW attributes \in Nat, NEW power \in Nat
    PROVE  LET d == ConfigDesc(interfaces, value, attributes, power)
           IN  /\ Bytes(d, 9) /\ d[1] = 9 /\ d[2] = QSB_DT_CONFIGURATION /\ d[5] = interfaces
BY DEF ConfigDesc, Bytes, Word, QSB_DT_CONFIGURATION

\* Lengths and types of the function descriptors.
LEMMA FunctionalBytes ==
    /\ Bytes(HeaderDesc(272), 5) /\ HeaderDesc(272)[1] = 5
    /\ HeaderDesc(272)[2] = QSB_CDC_FUNC_DT_INTERFACE
    /\ \A c, i \in Nat : LET d == CallManagementDesc(c, i)
                         IN  Bytes(d, 5) /\ d[1] = 5 /\ d[2] = QSB_CDC_FUNC_DT_INTERFACE
    /\ \A c \in Nat : LET d == AcmDesc(c)
                      IN  Bytes(d, 4) /\ d[1] = 4 /\ d[2] = QSB_CDC_FUNC_DT_INTERFACE
    /\ \A c, i \in Nat : LET d == UnionDesc(c, i)
                         IN  Bytes(d, 5) /\ d[1] = 5 /\ d[2] = QSB_CDC_FUNC_DT_INTERFACE
BY DEF HeaderDesc, Bytes, Word, QSB_CDC_FUNC_DT_INTERFACE, CallManagementDesc, AcmDesc, UnionDesc

\* The function descriptors one after the other.
Functions(F) ==
    /\ Bytes(F, 19)
    /\ F[1] = 5 /\ F[2] = QSB_CDC_FUNC_DT_INTERFACE /\ F[6] = 5 /\ F[7] = QSB_CDC_FUNC_DT_INTERFACE
    /\ F[11] = 4 /\ F[12] = QSB_CDC_FUNC_DT_INTERFACE
    /\ F[15] = 5 /\ F[16] = QSB_CDC_FUNC_DT_INTERFACE

\* The four function descriptors follow one another without a gap.
LEMMA FunctionsPlaced == Functions(cdc_func_desc)
<1> DEFINE H == HeaderDesc(272)
           M == CallManagementDesc(0, INTF_DATA)
           A == AcmDesc(QSB_ACM_CAP_LINE_CODING)
           U == UnionDesc(INTF_COMM, INTF_DATA)
           HM == H \o M
           HMA == HM \o A
           F == HMA \o U
<1>1. INTF_COMM \in Nat /\ INTF_DATA \in Nat /\ QSB_ACM_CAP_LINE_CODING \in Nat
  BY DEF INTF_COMM, INTF_DATA, QSB_ACM_CAP_LINE_CODING
<1>2. /\ Bytes(H, 5) /\ H[1] = 5 /\ H[2] = QSB_CDC_FUNC_DT_INTERFACE
      /\ Bytes(M, 5) /\ M[1] = 5 /\ M[2] = QSB_CDC_FUNC_DT_INTERFACE
      /\ Bytes(A, 4) /\ A[1] = 4 /\ A[2] = QSB_CDC_FUNC_DT_INTERFACE
      /\ Bytes(U, 5) /\ U[1] = 5 /\ U[2] = QSB_CDC_FUNC_DT_INTERFACE
  <2>1. Bytes(H, 5) /\ H[1] = 5 /\ H[2] = QSB_CDC_FUNC_DT_INTERFACE
    BY FunctionalBytes
  <2>2. Bytes(M, 5) /\ M[1] = 5 /\ M[2] = QSB_CDC_FUNC_DT_INTERFACE
    BY <1>1, FunctionalBytes
  <2>3. Bytes(A, 4) /\ A[1] = 4 /\ A[2] = QSB_CDC_FUNC_DT_INTERFACE
    BY <1>1, FunctionalBytes
  <2>4. Bytes(U, 5) /\ U[1] = 5 /\ U[2] = QSB_CDC_FUNC_DT_INTERFACE
    BY <1>1, FunctionalBytes
  <2> HIDE DEF H, M, A, U
  <2> QED BY <2>1, <2>2, <2>3, <2>4, Zenon
<1>3. cdc_func_desc = F
  BY DEF cdc_func_desc, FunctionalDescs
<1>4. HM = H \o M /\ HMA = HM \o A /\ F = HMA \o U
  OBVIOUS
<1> HIDE DEF H, M, A, U, HM, HMA, F
<1>5. /\ 5 \in Nat /\ 4 \in Nat /\ 10 \in Nat /\ 14 \in Nat
      /\ 10 = 5 + 5 /\ 14 = 10 + 4 /\ 19 = 14 + 5
  OBVIOUS
<1>6. Join(HM, H, 5, M, 5, 10)
  BY <1>2, <1>4, <1>5, Joined, Zenon
<1>7. Join(HMA, HM, 10, A, 4, 14)
  <2>1. Bytes(HM, 10)
    BY <1>6, Zenon DEF Join
  <2> QED BY <1>2, <1>4, <1>5, <2>1, Joined, Zenon
<1>8. Join(F, HMA, 14, U, 5, 19)
  <2>1. Bytes(HMA, 14)
    BY <1>7, Zenon DEF Join
  <2> QED BY <1>2, <1>4, <1>5, <2>1, Joined, Zenon
<1>9. HM[1] = H[1] /\ HM[2] = H[2] /\ HM[6] = M[1] /\ HM[7] = M[2]
  BY <1>6 DEF Join
<1>10. HMA[1] = HM[1] /\ HMA[2] = HM[2] /\ HMA[6] = HM[6] /\ HMA[7] = HM[7]
       /\ HMA[11] = A[1] /\ HMA[12] = A[2]
  BY <1>7 DEF Join
<1>11. /\ Bytes(F, 19) /\ F[1] = HMA[1] /\ F[2] = HMA[2] /\ F[6] = HMA[6] /\ F[7] = HMA[7]
       /\ F[11] = HMA[11] /\ F[12] = HMA[12] /\ F[15] = U[1] /\ F[16] = U[2]
  BY <1>8 DEF Join
<1> QED BY <1>2, <1>3, <1>9, <1>10, <1>11 DEF Functions

\* The descriptors of the two interfaces, each with those that belong to it.
CommInterface == InterfaceBytes(comm_if_1_desc[1])
DataInterface == InterfaceBytes(data_if_1_desc[1])

\* The communication interface: its function descriptors, then its endpoint.
LEMMA CommPlaced ==
    LET b == CommInterface
    IN  /\ Bytes(b, 35)
        /\ b[1] = 9 /\ b[2] = QSB_DT_INTERFACE /\ b[3] = INTF_COMM /\ b[5] = 1 /\ b[9] = 5
        /\ b[10] = 5 /\ b[11] = QSB_CDC_FUNC_DT_INTERFACE
        /\ b[15] = 5 /\ b[16] = QSB_CDC_FUNC_DT_INTERFACE
        /\ b[20] = 4 /\ b[21] = QSB_CDC_FUNC_DT_INTERFACE
        /\ b[24] = 5 /\ b[25] = QSB_CDC_FUNC_DT_INTERFACE
        /\ b[29] = 7 /\ b[30] = QSB_DT_ENDPOINT /\ b[31] = COMM_IN_1
        /\ b[32] = QSB_ENDPOINT_ATTR_INTERRUPT /\ b[33] = 16 /\ b[34] = 0
<1> DEFINE D == InterfaceDesc(INTF_COMM, 0, 1, ClassCommAcmAt, 5)
           F == cdc_func_desc
           E == EndpointDesc(COMM_IN_1, QSB_ENDPOINT_ATTR_INTERRUPT, 16, 255)
           DF == D \o F
           b == DF \o E
<1>1. CommInterface = b
  <2>1. comm_ep_1_desc = <<E>> /\ Len(comm_ep_1_desc) = 1
    BY DEF comm_ep_1_desc
  <2>2. StringIndex.comm = 5
    BY DEF StringIndex
  <2>3. comm_if_1_desc[1] = [desc |-> D, extra |-> F, endpoint |-> comm_ep_1_desc]
    BY <2>1, <2>2 DEF comm_if_1_desc
  <2> HIDE DEF D, F, E
  <2> QED BY <2>1, <2>3, FlattenOne DEF CommInterface, InterfaceBytes
<1>2. IsInterface(D, INTF_COMM, 1, 5)
  <2>1. Bytes(ClassCommAcmAt, 3)
    BY ThreeBytes DEF ClassCommAcmAt
  <2>2. INTF_COMM \in Nat /\ 0 \in Nat /\ 1 \in Nat /\ 5 \in Nat
    BY DEF INTF_COMM
  <2> QED BY <2>1, <2>2, InterfaceBytesOf, Zenon
<1>3. Functions(F)
  BY FunctionsPlaced
<1>4. IsEndpoint(E, COMM_IN_1, QSB_ENDPOINT_ATTR_INTERRUPT, 16, 0)
  <2>1. /\ COMM_IN_1 \in Nat /\ QSB_ENDPOINT_ATTR_INTERRUPT \in Nat
        /\ 16 = 16 % 256 /\ 0 = 16 \div 256 /\ 16 \in Nat /\ 255 \in Nat
    BY DEF COMM_IN_1, QSB_ENDPOINT_ATTR_INTERRUPT
  <2> QED BY <2>1, EndpointBytes
<1>5. DF = D \o F /\ b = DF \o E
  OBVIOUS
<1> HIDE DEF D, F, E, DF, b
<1>6. 9 \in Nat /\ 19 \in Nat /\ 28 \in Nat /\ 7 \in Nat /\ 28 = 9 + 19 /\ 35 = 28 + 7
  OBVIOUS
<1>7. Join(DF, D, 9, F, 19, 28)
  <2>1. Bytes(F, 19) /\ Bytes(D, 9)
    BY <1>2, <1>3, Zenon DEF Functions, IsInterface
  <2> QED BY <1>5, <1>6, <2>1, Joined, Zenon
<1>8. Join(b, DF, 28, E, 7, 35)
  <2>1. Bytes(DF, 28) /\ Bytes(E, 7)
    BY <1>4, <1>7, Zenon DEF Join, IsEndpoint
  <2> QED BY <1>5, <1>6, <2>1, Joined, Zenon
<1>9. /\ DF[1] = D[1] /\ DF[2] = D[2] /\ DF[3] = D[3] /\ DF[5] = D[5] /\ DF[9] = D[9]
      /\ DF[10] = F[1] /\ DF[11] = F[2] /\ DF[15] = F[6] /\ DF[16] = F[7]
      /\ DF[20] = F[11] /\ DF[21] = F[12] /\ DF[24] = F[15] /\ DF[25] = F[16]
  BY <1>7 DEF Join
<1>10. /\ Bytes(b, 35) /\ b[1] = DF[1] /\ b[2] = DF[2] /\ b[3] = DF[3] /\ b[5] = DF[5]
       /\ b[9] = DF[9] /\ b[10] = DF[10] /\ b[11] = DF[11] /\ b[15] = DF[15] /\ b[16] = DF[16]
       /\ b[20] = DF[20] /\ b[21] = DF[21] /\ b[24] = DF[24] /\ b[25] = DF[25]
       /\ b[29] = E[1] /\ b[30] = E[2] /\ b[31] = E[3] /\ b[32] = E[4] /\ b[33] = E[5] /\ b[34] = E[6]
  BY <1>8 DEF Join
<1> QED BY <1>1, <1>2, <1>3, <1>4, <1>9, <1>10 DEF Functions, IsInterface, IsEndpoint

\* The data interface: its two endpoints.
LEMMA DataPlaced ==
    LET b == DataInterface
    IN  /\ Bytes(b, 23)
        /\ b[1] = 9 /\ b[2] = QSB_DT_INTERFACE /\ b[3] = INTF_DATA /\ b[5] = 2 /\ b[9] = 6
        /\ b[10] = 7 /\ b[11] = QSB_DT_ENDPOINT /\ b[12] = DATA_OUT_1
        /\ b[13] = QSB_ENDPOINT_ATTR_BULK /\ b[14] = CDCACM_PACKET_SIZE /\ b[15] = 0
        /\ b[17] = 7 /\ b[18] = QSB_DT_ENDPOINT /\ b[19] = DATA_IN_1
        /\ b[20] = QSB_ENDPOINT_ATTR_BULK /\ b[21] = CDCACM_PACKET_SIZE /\ b[22] = 0
<1> DEFINE D == InterfaceDesc(INTF_DATA, 0, 2, ClassData, 6)
           O == EndpointDesc(DATA_OUT_1, QSB_ENDPOINT_ATTR_BULK, CDCACM_PACKET_SIZE, 1)
           I == EndpointDesc(DATA_IN_1, QSB_ENDPOINT_ATTR_BULK, CDCACM_PACKET_SIZE, 1)
           OI == O \o I
           b == D \o OI
<1>1. IsInterface(D, INTF_DATA, 2, 6)
  <2>1. Bytes(ClassData, 3)
    BY ThreeBytes DEF ClassData
  <2>2. INTF_DATA \in Nat /\ 0 \in Nat /\ 2 \in Nat /\ 6 \in Nat
    BY DEF INTF_DATA
  <2> QED BY <2>1, <2>2, InterfaceBytesOf, Zenon
<1>2. /\ DATA_OUT_1 \in Nat /\ DATA_IN_1 \in Nat /\ QSB_ENDPOINT_ATTR_BULK \in Nat
      /\ CDCACM_PACKET_SIZE \in Nat /\ CDCACM_PACKET_SIZE = CDCACM_PACKET_SIZE % 256
      /\ 0 = CDCACM_PACKET_SIZE \div 256 /\ 1 \in Nat
  BY DEF DATA_OUT_1, DATA_IN_1, QSB_ENDPOINT_ATTR_BULK, CDCACM_PACKET_SIZE
<1>3. IsEndpoint(O, DATA_OUT_1, QSB_ENDPOINT_ATTR_BULK, CDCACM_PACKET_SIZE, 0)
  BY <1>2, EndpointBytes
<1>4. IsEndpoint(I, DATA_IN_1, QSB_ENDPOINT_ATTR_BULK, CDCACM_PACKET_SIZE, 0)
  BY <1>2, EndpointBytes
<1>5. DataInterface = b
  <2>1. data_ep_1_desc = <<O, I>> /\ Len(data_ep_1_desc) = 2
    BY DEF data_ep_1_desc
  <2>2. StringIndex.data = 6
    BY DEF StringIndex
  <2>3. data_if_1_desc[1] = [desc |-> D, extra |-> <<>>, endpoint |-> data_ep_1_desc]
    BY <2>1, <2>2 DEF data_if_1_desc
  <2> HIDE DEF D, O, I
  <2>4. DataInterface = (D \o <<>>) \o OI
    <3>1. Seqs!FlattenSeq(data_ep_1_desc) = OI
      BY <2>1, FlattenTwo, Zenon
    <3>2. /\ data_if_1_desc[1].desc = D /\ data_if_1_desc[1].extra = <<>>
          /\ data_if_1_desc[1].endpoint = data_ep_1_desc
      BY <2>3
    <3> QED BY <3>1, <3>2, Zenon DEF DataInterface, InterfaceBytes
  <2>5. D \o <<>> = D
    BY <1>1 DEF IsInterface, Bytes
  <2> QED BY <2>4, <2>5
<1>6. OI = O \o I /\ b = D \o OI
  OBVIOUS
<1> HIDE DEF D, O, I, OI, b
<1>7. 9 \in Nat /\ 7 \in Nat /\ 14 \in Nat /\ 14 = 7 + 7 /\ 23 = 9 + 14
  OBVIOUS
<1>8. Join(OI, O, 7, I, 7, 14)
  <2>1. Bytes(O, 7) /\ Bytes(I, 7)
    BY <1>3, <1>4, Zenon DEF IsEndpoint
  <2> QED BY <1>6, <1>7, <2>1, Joined, Zenon
<1>9. Join(b, D, 9, OI, 14, 23)
  <2>1. Bytes(OI, 14) /\ Bytes(D, 9)
    BY <1>1, <1>8, Zenon DEF Join, IsInterface
  <2> QED BY <1>6, <1>7, <2>1, Joined, Zenon
<1>10. /\ OI[1] = O[1] /\ OI[2] = O[2] /\ OI[3] = O[3] /\ OI[4] = O[4] /\ OI[5] = O[5] /\ OI[6] = O[6]
       /\ OI[8] = I[1] /\ OI[9] = I[2] /\ OI[10] = I[3] /\ OI[11] = I[4] /\ OI[12] = I[5] /\ OI[13] = I[6]
  BY <1>8 DEF Join
<1>11. /\ Bytes(b, 23) /\ b[1] = D[1] /\ b[2] = D[2] /\ b[3] = D[3] /\ b[5] = D[5] /\ b[9] = D[9]
       /\ b[10] = OI[1] /\ b[11] = OI[2] /\ b[12] = OI[3] /\ b[13] = OI[4] /\ b[14] = OI[5] /\ b[15] = OI[6]
       /\ b[17] = OI[8] /\ b[18] = OI[9] /\ b[19] = OI[10] /\ b[20] = OI[11] /\ b[21] = OI[12] /\ b[22] = OI[13]
  BY <1>9 DEF Join
<1> QED BY <1>1, <1>3, <1>4, <1>5, <1>10, <1>11 DEF IsInterface, IsEndpoint

\* What stands where in the configuration descriptor.
ConfigSpelled(b) ==
    /\ Bytes(b, 75) /\ b[1] = 9 /\ b[2] = QSB_DT_CONFIGURATION /\ b[3] = 75 /\ b[4] = 0 /\ b[5] = 2
    /\ b[10] = 8 /\ b[11] = QSB_DT_INTERFACE_ASSOCIATION /\ b[12] = INTF_COMM /\ b[13] = 2 /\ b[17] = 4
CommSpelled(b) ==
    /\ b[18] = 9 /\ b[19] = QSB_DT_INTERFACE /\ b[20] = INTF_COMM /\ b[22] = 1 /\ b[26] = 5
    /\ b[27] = 5 /\ b[28] = QSB_CDC_FUNC_DT_INTERFACE
    /\ b[32] = 5 /\ b[33] = QSB_CDC_FUNC_DT_INTERFACE
    /\ b[37] = 4 /\ b[38] = QSB_CDC_FUNC_DT_INTERFACE
    /\ b[41] = 5 /\ b[42] = QSB_CDC_FUNC_DT_INTERFACE
    /\ b[46] = 7 /\ b[47] = QSB_DT_ENDPOINT /\ b[48] = COMM_IN_1
    /\ b[49] = QSB_ENDPOINT_ATTR_INTERRUPT /\ b[50] = 16 /\ b[51] = 0
DataSpelled(b) ==
    /\ b[53] = 9 /\ b[54] = QSB_DT_INTERFACE /\ b[55] = INTF_DATA /\ b[57] = 2 /\ b[61] = 6
    /\ b[62] = 7 /\ b[63] = QSB_DT_ENDPOINT /\ b[64] = DATA_OUT_1
    /\ b[65] = QSB_ENDPOINT_ATTR_BULK /\ b[66] = CDCACM_PACKET_SIZE /\ b[67] = 0
    /\ b[69] = 7 /\ b[70] = QSB_DT_ENDPOINT /\ b[71] = DATA_IN_1
    /\ b[72] = QSB_ENDPOINT_ATTR_BULK /\ b[73] = CDCACM_PACKET_SIZE /\ b[74] = 0

\* A function on 1 .. 2 is a pair.
LEMMA TwoOf ==
    ASSUME NEW f, f = [i \in 1 .. 2 |-> f[i]], NEW x, NEW y, f[1] = x, f[2] = y
    PROVE  f = <<x, y>>
OBVIOUS

\* build_config_descriptor() puts it together.
LEMMA ConfigPutTogether ==
    LET T == config_desc \o ((assoc_1_desc \o CommInterface) \o DataInterface)
    IN  BuildConfigDescriptor = [T EXCEPT ![3] = Word(Len(T))[1], ![4] = Word(Len(T))[2]]
<1> DEFINE settings(i) == [j \in DOMAIN usb_interfaces[i].altsetting |->
                            InterfaceBytes(usb_interfaces[i].altsetting[j])]
           C == assoc_1_desc \o CommInterface
           T == config_desc \o (C \o DataInterface)
<1>1. /\ Len(usb_interfaces) = 2
      /\ usb_interfaces[1].iface_assoc = assoc_1_desc /\ usb_interfaces[1].altsetting = comm_if_1_desc
      /\ usb_interfaces[2].iface_assoc = <<>> /\ usb_interfaces[2].altsetting = data_if_1_desc
  BY DEF usb_interfaces
<1>2. settings(1) = <<CommInterface>>
  <2>1. DOMAIN comm_if_1_desc = 1 .. 1
    BY DEF comm_if_1_desc
  <2>2. settings(1) = [j \in 1 .. 1 |-> InterfaceBytes(comm_if_1_desc[j])]
    BY <1>1, <2>1
  <2>3. \A j \in 1 .. 1 : InterfaceBytes(comm_if_1_desc[j]) = CommInterface
    BY DEF CommInterface
  <2> QED BY <2>2, <2>3
<1>3. settings(2) = <<DataInterface>>
  <2>1. DOMAIN data_if_1_desc = 1 .. 1
    BY DEF data_if_1_desc
  <2>2. settings(2) = [j \in 1 .. 1 |-> InterfaceBytes(data_if_1_desc[j])]
    BY <1>1, <2>1
  <2>3. \A j \in 1 .. 1 : InterfaceBytes(data_if_1_desc[j]) = DataInterface
    BY DEF DataInterface
  <2> QED BY <2>2, <2>3
<1> DEFINE each == [i \in DOMAIN usb_interfaces |->
                       usb_interfaces[i].iface_assoc \o Seqs!FlattenSeq(settings(i))]
<1>4. each = <<C, DataInterface>>
  <2>1. Seqs!FlattenSeq(settings(1)) = CommInterface /\ Seqs!FlattenSeq(settings(2)) = DataInterface
    BY <1>2, <1>3, FlattenOne
  <2>2. DOMAIN usb_interfaces = 1 .. 2
    BY DEF usb_interfaces
  <2> HIDE DEF settings
  <2>3. <<>> \o DataInterface = DataInterface
    BY DataPlaced DEF Bytes
  <2>4. each = [i \in 1 .. 2 |-> usb_interfaces[i].iface_assoc \o Seqs!FlattenSeq(settings(i))]
    BY <2>2, Zenon
  <2>5. each[1] = C /\ each[2] = DataInterface
    <3>1. each[1] = usb_interfaces[1].iface_assoc \o Seqs!FlattenSeq(settings(1))
      BY <2>4
    <3>2. each[2] = usb_interfaces[2].iface_assoc \o Seqs!FlattenSeq(settings(2))
      BY <2>4
    <3> HIDE DEF each
    <3> QED BY <1>1, <2>1, <2>3, <3>1, <3>2, Zenon
  <2>6. each = [i \in 1 .. 2 |-> each[i]]
    BY <2>2
  <2> HIDE DEF C, each
  <2> QED BY <2>5, <2>6, TwoOf, Zenon
<1>5. Seqs!FlattenSeq(each) = C \o DataInterface
  <2> HIDE DEF each, C
  <2> QED BY <1>4, FlattenTwo, Zenon
<1>6. BuildConfigDescriptor =
         LET all == config_desc \o Seqs!FlattenSeq(each)
         IN  [all EXCEPT ![3] = Word(Len(all))[1], ![4] = Word(Len(all))[2]]
  BY Zenon DEF BuildConfigDescriptor
<1> HIDE DEF each, settings
<1> QED BY <1>5, <1>6, Zenon

\* The reply is 75 bytes long, says so, and has its descriptors at these places.
LEMMA DescriptorSpelled ==
    LET b == BuildConfigDescriptor
    IN  ConfigSpelled(b) /\ CommSpelled(b) /\ DataSpelled(b)
<1> DEFINE A == assoc_1_desc
           X == A \o CommInterface
           Y == X \o DataInterface
           T == config_desc \o Y
           b == BuildConfigDescriptor
<1>1. /\ Bytes(config_desc, 9) /\ config_desc[1] = 9 /\ config_desc[2] = QSB_DT_CONFIGURATION
      /\ config_desc[5] = 2
  <2>1. Len(usb_interfaces) = 2 /\ bConfigurationValue \in Nat
    BY DEF usb_interfaces, bConfigurationValue
  <2> QED BY <2>1, ConfigHeader DEF config_desc
<1>2. IsAssoc(A, INTF_COMM, 2, 4)
  <2>1. Bytes(ClassCommAcmAt, 3)
    BY ThreeBytes DEF ClassCommAcmAt
  <2>2. INTF_COMM \in Nat /\ 2 \in Nat /\ 4 \in Nat /\ StringIndex.serial_port = 4
    BY DEF INTF_COMM, StringIndex
  <2> QED BY <2>1, <2>2, AssocBytes, Zenon DEF assoc_1_desc
<1>3. Bytes(A, 8) /\ Bytes(CommInterface, 35) /\ Bytes(DataInterface, 23)
  BY <1>2, CommPlaced, DataPlaced, Zenon DEF IsAssoc
<1>4. X = A \o CommInterface /\ Y = X \o DataInterface /\ T = config_desc \o Y
  OBVIOUS
<1>5. b = [T EXCEPT ![3] = Word(Len(T))[1], ![4] = Word(Len(T))[2]]
  BY ConfigPutTogether, Zenon
<1> HIDE DEF A, X, Y, T, b
<1>6. /\ 9 \in Nat /\ 8 \in Nat /\ 35 \in Nat /\ 23 \in Nat /\ 43 \in Nat /\ 66 \in Nat
      /\ 43 = 8 + 35 /\ 66 = 43 + 23 /\ 75 = 9 + 66
  OBVIOUS
<1>7. Join(X, A, 8, CommInterface, 35, 43)
  BY <1>3, <1>4, <1>6, Joined, Zenon
<1>8. Join(Y, X, 43, DataInterface, 23, 66)
  <2>1. Bytes(X, 43)
    BY <1>7, Zenon DEF Join
  <2> QED BY <1>3, <1>4, <1>6, <2>1, Joined, Zenon
<1>9. Join(T, config_desc, 9, Y, 66, 75)
  <2>1. Bytes(Y, 66) /\ Bytes(config_desc, 9)
    BY <1>1, <1>8, Zenon DEF Join
  <2> QED BY <1>4, <1>6, <2>1, Joined, Zenon
<1>10. Bytes(b, 75) /\ b[3] = 75 /\ b[4] = 0 /\ \A i \in 1 .. 75 : i # 3 /\ i # 4 => b[i] = T[i]
  <2>1. T \in Seq(Nat) /\ Len(T) = 75
    BY <1>9 DEF Join, Bytes
  <2>2. Word(Len(T))[1] = 75 /\ Word(Len(T))[2] = 0
    BY <2>1, WordBytes
  <2>3. b = [T EXCEPT ![3] = 75, ![4] = 0]
    BY <1>5, <2>2, Zenon
  <2>4. /\ T = [i \in 1 .. 75 |-> T[i]] /\ \A i \in 1 .. 75 : T[i] \in Nat
    <3>1. T \in Seq(Nat) => T = [i \in 1 .. Len(T) |-> T[i]] /\ \A i \in 1 .. Len(T) : T[i] \in Nat
      OBVIOUS
    <3> QED BY <2>1, <3>1, Zenon
  <2>5. DOMAIN b = 1 .. 75
    BY <2>3, <2>4
  <2>6. b[3] = 75 /\ b[4] = 0 /\ \A i \in 1 .. 75 : i # 3 /\ i # 4 => b[i] = T[i]
    BY <2>3, <2>4
  <2>7. \A i \in 1 .. 75 : b[i] \in Nat
    BY <2>4, <2>6
  <2>8. b = [i \in 1 .. 75 |-> b[i]]
    BY <2>3, <2>4, <2>5
  <2>9. b \in Seq(Nat) /\ Len(b) = 75
    BY <2>7, <2>8
  <2> QED BY <2>6, <2>9 DEF Bytes
<1>11. ConfigSpelled(b)
  <2>1. /\ b[1] = config_desc[1] /\ b[2] = config_desc[2] /\ b[5] = config_desc[5]
        /\ b[10] = Y[1] /\ b[11] = Y[2] /\ b[12] = Y[3] /\ b[13] = Y[4] /\ b[17] = Y[8]
    BY <1>9, <1>10 DEF Join
  <2>2. Y[1] = A[1] /\ Y[2] = A[2] /\ Y[3] = A[3] /\ Y[4] = A[4] /\ Y[8] = A[8]
    BY <1>7, <1>8 DEF Join
  <2> QED BY <1>1, <1>2, <1>10, <2>1, <2>2, Zenon DEF ConfigSpelled, IsAssoc
<1>12. CommSpelled(b)
  <2>1. ASSUME NEW i \in 1 .. 35 PROVE b[17 + i] = CommInterface[i]
    <3>1. X[8 + i] = CommInterface[i]
      BY <1>7 DEF Join
    <3>2. Y[8 + i] = X[8 + i]
      BY <1>8 DEF Join
    <3>3. b[17 + i] = T[17 + i]
      BY <1>10
    <3>4. T[17 + i] = Y[8 + i]
      BY <1>9 DEF Join
    <3> QED BY <3>1, <3>2, <3>3, <3>4
  <2> DEFINE c == CommInterface
  <2>2. /\ b[18] = c[1] /\ b[19] = c[2] /\ b[20] = c[3] /\ b[22] = c[5] /\ b[26] = c[9] /\ b[27] = c[10]
        /\ b[28] = c[11] /\ b[32] = c[15] /\ b[33] = c[16] /\ b[37] = c[20] /\ b[38] = c[21]
    <3> HIDE DEF c
    <3>1. \A i \in 1 .. 35 : b[17 + i] = c[i]
      BY <2>1 DEF c
    <3> QED BY <3>1
  <2>3. /\ b[41] = c[24] /\ b[42] = c[25] /\ b[46] = c[29] /\ b[47] = c[30] /\ b[48] = c[31]
        /\ b[49] = c[32] /\ b[50] = c[33] /\ b[51] = c[34]
    <3> HIDE DEF c
    <3>1. \A i \in 1 .. 35 : b[17 + i] = c[i]
      BY <2>1 DEF c
    <3> QED BY <3>1
  <2> QED BY <2>2, <2>3, CommPlaced, Zenon DEF CommSpelled
<1>13. DataSpelled(b)
  <2>1. ASSUME NEW i \in 1 .. 23 PROVE b[52 + i] = DataInterface[i]
    <3>1. Y[43 + i] = DataInterface[i]
      BY <1>8 DEF Join
    <3>2. b[52 + i] = T[52 + i]
      BY <1>10
    <3>3. T[52 + i] = Y[43 + i]
      BY <1>9 DEF Join
    <3> QED BY <3>1, <3>2, <3>3
  <2> DEFINE c == DataInterface
  <2>2. /\ b[53] = c[1] /\ b[54] = c[2] /\ b[55] = c[3] /\ b[57] = c[5] /\ b[61] = c[9]
        /\ b[62] = c[10] /\ b[63] = c[11] /\ b[64] = c[12] /\ b[65] = c[13] /\ b[66] = c[14]
    <3> HIDE DEF c
    <3>1. \A i \in 1 .. 23 : b[52 + i] = c[i]
      BY <2>1 DEF c
    <3> QED BY <3>1
  <2>3. /\ b[67] = c[15] /\ b[69] = c[17] /\ b[70] = c[18] /\ b[71] = c[19] /\ b[72] = c[20]
        /\ b[73] = c[21] /\ b[74] = c[22]
    <3> HIDE DEF c
    <3>1. \A i \in 1 .. 23 : b[52 + i] = c[i]
      BY <2>1 DEF c
    <3> QED BY <3>1
  <2> QED BY <2>2, <2>3, DataPlaced, Zenon DEF DataSpelled
<1> QED BY <1>11, <1>12, <1>13, Zenon DEF b

\* The configuration descriptor is a sequence of numbers.
LEMMA ConfigBytes == BuildConfigDescriptor \in Seq(Nat)
BY DescriptorSpelled DEF ConfigSpelled, Bytes

----------------------------------------------------------------------------
(* How a host reads it.                                                      *)

\* A set of numbers that is not empty has a least one.
LEMMA LeastNatural ==
    ASSUME NEW T, T \subseteq Nat, T # {}
    PROVE  \E x \in T : \A y \in T : x <= y
<1>1. \E x \in T : \A y \in T : <<y, x>> \notin OpToRel(<, Nat)
  BY NatLessThanWellFounded, WFMin
<1>2. PICK x \in T : \A y \in T : <<y, x>> \notin OpToRel(<, Nat)
  BY <1>1
<1>3. ASSUME NEW y \in T PROVE x <= y
  <2>1. <<y, x>> \notin OpToRel(<, Nat)
    BY <1>2
  <2>2. ~(y < x)
    BY <2>1 DEF OpToRel
  <2> QED BY <2>2
<1> QED BY <1>3

\* One step of a host that goes from descriptor to descriptor.
StartsFrom(from, bytes, p) ==
    IF p = Len(bytes) + 1 THEN <<>>
    ELSE IF bytes[p] < 2 \/ p + bytes[p] > Len(bytes) + 1 THEN <<0>>
    ELSE <<p>> \o from[p + bytes[p]]

\* The recursion of DescriptorStarts has a solution: take a shortest end of the bytes
\* for which it has none.
LEMMA StartsExist ==
    ASSUME NEW bytes \in Seq(Nat)
    PROVE  \E from : from = [p \in 1 .. Len(bytes) + 1 |-> StartsFrom(from, bytes, p)]
<1> DEFINE L == Len(bytes)
           Steps(g, k) == \A p \in k .. L + 1 : g[p] = StartsFrom(g, bytes, p)
           T == {j \in 0 .. L : ~ \E g : Steps(g, L + 1 - j)}
<1>1. L \in Nat /\ \A p \in 1 .. L : bytes[p] \in Nat
  OBVIOUS
<1>2. T = {}
  <2> SUFFICES ASSUME T # {} PROVE FALSE
    OBVIOUS
  <2>1. PICK j \in T : \A i \in T : j <= i
    <3>1. T \subseteq Nat
      OBVIOUS
    <3> HIDE DEF T
    <3> QED BY <3>1, LeastNatural
  <2>2. j # 0
    <3>1. Steps([p \in {L + 1} |-> <<>>], L + 1)
      BY <1>1 DEF StartsFrom
    <3> QED BY <1>1, <3>1
  <2>3. j - 1 \notin T /\ j - 1 \in 0 .. L /\ j \in 1 .. L
    <3>1. j \in 0 .. L
      OBVIOUS
    <3>2. j - 1 \in 0 .. L /\ j \in 1 .. L /\ ~(j <= j - 1)
      BY <1>1, <2>2, <3>1
    <3> HIDE DEF T
    <3> QED BY <2>1, <3>2
  <2> DEFINE k == L + 1 - j
  <2>4. k \in 1 .. L
    BY <1>1, <2>3
  <2>5. PICK g : Steps(g, k + 1)
    <3>1. L + 1 - (j - 1) = k + 1
      BY <1>1, <2>3
    <3> QED BY <2>3, <3>1
  <2> HIDE DEF k
  <2> DEFINE h == [p \in 1 .. L + 1 |-> IF p = k THEN StartsFrom(g, bytes, k) ELSE g[p]]
  <2>6. ASSUME NEW p \in k .. L + 1 PROVE h[p] = StartsFrom(h, bytes, p)
    <3>1. h[p] = StartsFrom(g, bytes, p)
      <4>1. CASE p = k
        BY <1>1, <2>4, <4>1
      <4>2. CASE p # k
        <5>1. p \in k + 1 .. L + 1 /\ p \in 1 .. L + 1
          BY <1>1, <2>4, <4>2
        <5>2. h[p] = g[p]
          BY <4>2, <5>1
        <5> QED BY <2>5, <5>1, <5>2
      <4> QED BY <4>1, <4>2
    <3>2. CASE p = L + 1 \/ bytes[p] < 2 \/ p + bytes[p] > L + 1
      BY <3>1, <3>2 DEF StartsFrom
    <3>3. CASE ~(p = L + 1 \/ bytes[p] < 2 \/ p + bytes[p] > L + 1)
      <4>1. p \in 1 .. L /\ bytes[p] \in Nat
        <5>1. p \in Nat /\ 1 <= p /\ p <= L + 1 /\ p # L + 1
          BY <1>1, <2>4, <3>3
        <5>2. L \in Nat
          OBVIOUS
        <5>3. p \in 1 .. L
          BY <5>1, <5>2
        <5> QED BY <1>1, <5>3
      <4>2. p + bytes[p] \in 1 .. L + 1 /\ p + bytes[p] # k
        <5>1. bytes[p] >= 2 /\ p + bytes[p] <= L + 1
          BY <1>1, <3>3, <4>1
        <5>2. k <= p /\ k \in Nat /\ p \in Nat /\ p >= 1
          BY <2>4, <4>1
        <5> DEFINE b == bytes[p]
        <5>3. b \in Nat /\ L \in Nat /\ b >= 2 /\ p + b <= L + 1
          BY <4>1, <5>1
        <5> HIDE DEF b, L
        <5>4. p + b \in 1 .. L + 1 /\ p + b # k
          BY <5>2, <5>3
        <5> QED BY <5>4 DEF b
      <4>3. h[p + bytes[p]] = g[p + bytes[p]]
        BY <4>2
      <4> HIDE DEF h
      <4> QED BY <3>1, <3>3, <4>3 DEF StartsFrom
    <3> QED BY <3>2, <3>3
  <2>7. Steps(h, L + 1 - j)
    <3> HIDE DEF h
    <3> QED BY <2>6 DEF k
  <2> HIDE DEF h
  <2> QED BY <2>1, <2>7, Zenon
<1>3. PICK g : Steps(g, 1)
  <2>1. L \in 0 .. L /\ L \notin T /\ L + 1 - L = 1
    BY <1>1, <1>2
  <2> QED BY <2>1
<1> DEFINE from == [p \in 1 .. L + 1 |-> g[p]]
<1>4. ASSUME NEW p \in 1 .. L + 1 PROVE from[p] = StartsFrom(from, bytes, p)
  <2>1. from[p] = StartsFrom(g, bytes, p)
    BY <1>3
  <2>2. CASE p = L + 1 \/ bytes[p] < 2 \/ p + bytes[p] > L + 1
    BY <2>1, <2>2 DEF StartsFrom
  <2>3. CASE ~(p = L + 1 \/ bytes[p] < 2 \/ p + bytes[p] > L + 1)
    <3>1. p \in 1 .. L /\ bytes[p] \in Nat
      BY <1>1, <2>3
    <3>2. p + bytes[p] \in 1 .. L + 1
      BY <1>1, <2>3, <3>1
    <3>3. from[p + bytes[p]] = g[p + bytes[p]]
      BY <3>2
    <3> HIDE DEF from
    <3> QED BY <2>1, <2>3, <3>3 DEF StartsFrom
  <2> QED BY <2>2, <2>3
<1>5. from = [p \in 1 .. L + 1 |-> StartsFrom(from, bytes, p)]
  <2>1. from = [p \in 1 .. L + 1 |-> from[p]]
    OBVIOUS
  <2> HIDE DEF from
  <2> QED BY <1>4, <2>1, Zenon
<1> QED BY <1>5

\* DescriptorStarts unfolds one descriptor at a time, whatever the bytes.
LEMMA StartsUnfold ==
    ASSUME NEW bytes \in Seq(Nat)
    PROVE  \E from : /\ DescriptorStarts(bytes) = from[1]
                     /\ \A p \in 1 .. Len(bytes) + 1 : from[p] = StartsFrom(from, bytes, p)
<1> DEFINE f == CHOOSE from : from = [p \in 1 .. Len(bytes) + 1 |-> StartsFrom(from, bytes, p)]
<1>1. f = [p \in 1 .. Len(bytes) + 1 |-> StartsFrom(f, bytes, p)]
  BY StartsExist
<1>2. DescriptorStarts(bytes) = f[1]
  BY Zenon DEF DescriptorStarts, StartsFrom
<1> HIDE DEF f
<1>3. \A p \in 1 .. Len(bytes) + 1 : f[p] = StartsFrom(f, bytes, p)
  BY <1>1, Zenon
<1> QED BY <1>2, <1>3

\* The descriptors found from a place on start there.
StartsAt(from, p, S) == from[p] \in Seq(Nat) /\ Seqs!ToSet(from[p]) = S

\* The recursion of DescriptorStarts, and a descriptor that leads to the next.
Unfolds(from, bytes, n) == \A p \in 1 .. n : from[p] = StartsFrom(from, bytes, p)

Leads(from, bytes, L, p, l, n, S) ==
    /\ L \in Nat /\ Len(bytes) = L /\ Unfolds(from, bytes, L + 1)
    /\ p \in 1 .. L /\ l \in Nat /\ bytes[p] = l /\ l >= 2
    /\ n = p + l /\ n <= L + 1 /\ StartsAt(from, n, S)

\* A host goes from a descriptor to the one its length leads to.
LEMMA NextStart ==
    ASSUME NEW bytes, NEW L, NEW from, NEW p, NEW l, NEW n, NEW S,
           Leads(from, bytes, L, p, l, n, S)
    PROVE  StartsAt(from, p, {p} \cup S)
<1> USE DEF Leads
<1>1. from[n] \in Seq(Nat) /\ Seqs!ToSet(from[n]) = S
  BY DEF StartsAt
<1>2. from[p] = <<p>> \o from[n]
  <2>1. p \in 1 .. L + 1 /\ p # L + 1 /\ ~(l < 2) /\ ~(p + l > L + 1)
    OBVIOUS
  <2>2. from[p] = StartsFrom(from, bytes, p)
    BY <2>1, Zenon DEF Unfolds
  <2> QED BY <2>1, <2>2, Zenon DEF StartsFrom
<1> DEFINE s == from[n]
           r == <<p>> \o s
<1>3. /\ r \in Seq(Nat) /\ Len(s) \in Nat /\ Len(r) = Len(s) + 1 /\ r[1] = p
      /\ DOMAIN r = 1 .. Len(r) /\ DOMAIN s = 1 .. Len(s)
  <2>1. s \in Seq(Nat)
    BY <1>1
  <2> HIDE DEF s
  <2> QED BY <2>1
<1>4. \A i \in 1 .. Len(s) : r[i + 1] = s[i]
  <2>1. s \in Seq(Nat)
    BY <1>1
  <2> HIDE DEF s
  <2> QED BY <2>1
<1>5. Seqs!ToSet(r) = {p} \cup Seqs!ToSet(s)
  <2>1. Seqs!ToSet(r) = {r[i] : i \in 1 .. Len(r)} /\ Seqs!ToSet(s) = {s[i] : i \in 1 .. Len(s)}
    BY <1>3 DEF Seqs!ToSet
  <2> HIDE DEF r, s
  <2>2. ASSUME NEW i \in 1 .. Len(r) PROVE r[i] \in {p} \cup {s[j] : j \in 1 .. Len(s)}
    <3>1. CASE i = 1
      BY <1>3, <3>1
    <3>2. CASE i # 1
      <4>1. i - 1 \in 1 .. Len(s) /\ (i - 1) + 1 = i
        BY <1>3, <3>2
      <4> QED BY <1>4, <4>1
    <3> QED BY <3>1, <3>2
  <2>3. p \in {r[i] : i \in 1 .. Len(r)}
    BY <1>3
  <2>4. ASSUME NEW j \in 1 .. Len(s) PROVE s[j] \in {r[i] : i \in 1 .. Len(r)}
    <3>1. j + 1 \in 1 .. Len(r) /\ r[j + 1] = s[j]
      BY <1>3, <1>4
    <3> QED BY <3>1
  <2> QED BY <2>1, <2>2, <2>3, <2>4
<1> QED BY <1>1, <1>2, <1>3, <1>5 DEF StartsAt

\* The places of the eleven descriptors.
Starts == {1, 10, 18, 27, 32, 37, 41, 46, 53, 62, 69}

\* A host that goes by the lengths finds all of them, and ends where the reply ends.
LEMMA HostFindsAll ==
    LET s == DescriptorStarts(BuildConfigDescriptor)
    IN  s \in Seq(Nat) /\ Seqs!ToSet(s) = Starts
<1> DEFINE b == BuildConfigDescriptor
<1>1. ConfigSpelled(b) /\ CommSpelled(b) /\ DataSpelled(b)
  BY DescriptorSpelled
<1> HIDE DEF b
<1>2. b \in Seq(Nat) /\ Len(b) = 75
  BY <1>1 DEF ConfigSpelled, Bytes
<1>3. PICK from : DescriptorStarts(b) = from[1] /\ Unfolds(from, b, 76)
  <2>1. PICK from : /\ DescriptorStarts(b) = from[1]
                    /\ \A p \in 1 .. Len(b) + 1 : from[p] = StartsFrom(from, b, p)
    BY <1>2, StartsUnfold
  <2>2. 1 .. Len(b) + 1 = 1 .. 76
    BY <1>2
  <2>3. Unfolds(from, b, 76)
    BY <2>1, <2>2, Zenon DEF Unfolds
  <2> QED BY <2>1, <2>3
<1>4. /\ b[1] = 9 /\ b[10] = 8 /\ b[18] = 9 /\ b[27] = 5 /\ b[32] = 5 /\ b[37] = 4 /\ b[41] = 5
      /\ b[46] = 7 /\ b[53] = 9 /\ b[62] = 7 /\ b[69] = 7
  BY <1>1, Zenon DEF ConfigSpelled, CommSpelled, DataSpelled
<1>5. 75 \in Nat /\ 76 = 75 + 1
  OBVIOUS
<1>6. StartsAt(from, 76, {})
  <2>1. from[76] = StartsFrom(from, b, 76)
    <3>1. 76 \in 1 .. 76
      OBVIOUS
    <3> QED BY <1>3, <3>1, Zenon DEF Unfolds
  <2>2. from[76] = <<>>
    BY <1>2, <2>1 DEF StartsFrom
  <2> QED BY <2>2 DEF StartsAt, Seqs!ToSet
<1>7. Unfolds(from, b, 75 + 1)
  BY <1>3, <1>5
<1>8. StartsAt(from, 69, {69})
  <2>1. Leads(from, b, 75, 69, 7, 76, {})
    BY <1>2, <1>4, <1>7, <1>6 DEF Leads
  <2>2. {69} = {69} \cup {}
    OBVIOUS
  <2>3. StartsAt(from, 69, {69} \cup {})
    BY <2>1, NextStart
  <2> QED BY <2>2, <2>3
<1>9. StartsAt(from, 62, {62, 69})
  <2>1. Leads(from, b, 75, 62, 7, 69, {69})
    BY <1>2, <1>4, <1>7, <1>8 DEF Leads
  <2>2. {62, 69} = {62} \cup {69}
    OBVIOUS
  <2>3. StartsAt(from, 62, {62} \cup {69})
    BY <2>1, NextStart
  <2> QED BY <2>2, <2>3
<1>10. StartsAt(from, 53, {53, 62, 69})
  <2>1. Leads(from, b, 75, 53, 9, 62, {62, 69})
    BY <1>2, <1>4, <1>7, <1>9 DEF Leads
  <2>2. {53, 62, 69} = {53} \cup {62, 69}
    OBVIOUS
  <2>3. StartsAt(from, 53, {53} \cup {62, 69})
    BY <2>1, NextStart
  <2> QED BY <2>2, <2>3
<1>11. StartsAt(from, 46, {46, 53, 62, 69})
  <2>1. Leads(from, b, 75, 46, 7, 53, {53, 62, 69})
    BY <1>2, <1>4, <1>7, <1>10 DEF Leads
  <2>2. {46, 53, 62, 69} = {46} \cup {53, 62, 69}
    OBVIOUS
  <2>3. StartsAt(from, 46, {46} \cup {53, 62, 69})
    BY <2>1, NextStart
  <2> QED BY <2>2, <2>3
<1>12. StartsAt(from, 41, {41, 46, 53, 62, 69})
  <2>1. Leads(from, b, 75, 41, 5, 46, {46, 53, 62, 69})
    BY <1>2, <1>4, <1>7, <1>11 DEF Leads
  <2>2. {41, 46, 53, 62, 69} = {41} \cup {46, 53, 62, 69}
    OBVIOUS
  <2>3. StartsAt(from, 41, {41} \cup {46, 53, 62, 69})
    BY <2>1, NextStart
  <2> QED BY <2>2, <2>3
<1>13. StartsAt(from, 37, {37, 41, 46, 53, 62, 69})
  <2>1. Leads(from, b, 75, 37, 4, 41, {41, 46, 53, 62, 69})
    BY <1>2, <1>4, <1>7, <1>12 DEF Leads
  <2>2. {37, 41, 46, 53, 62, 69} = {37} \cup {41, 46, 53, 62, 69}
    OBVIOUS
  <2>3. StartsAt(from, 37, {37} \cup {41, 46, 53, 62, 69})
    BY <2>1, NextStart
  <2> QED BY <2>2, <2>3
<1>14. StartsAt(from, 32, {32, 37, 41, 46, 53, 62, 69})
  <2>1. Leads(from, b, 75, 32, 5, 37, {37, 41, 46, 53, 62, 69})
    BY <1>2, <1>4, <1>7, <1>13 DEF Leads
  <2>2. {32, 37, 41, 46, 53, 62, 69} = {32} \cup {37, 41, 46, 53, 62, 69}
    OBVIOUS
  <2>3. StartsAt(from, 32, {32} \cup {37, 41, 46, 53, 62, 69})
    BY <2>1, NextStart
  <2> QED BY <2>2, <2>3
<1>15. StartsAt(from, 27, {27, 32, 37, 41, 46, 53, 62, 69})
  <2>1. Leads(from, b, 75, 27, 5, 32, {32, 37, 41, 46, 53, 62, 69})
    BY <1>2, <1>4, <1>7, <1>14 DEF Leads
  <2>2. {27, 32, 37, 41, 46, 53, 62, 69} = {27} \cup {32, 37, 41, 46, 53, 62, 69}
    OBVIOUS
  <2>3. StartsAt(from, 27, {27} \cup {32, 37, 41, 46, 53, 62, 69})
    BY <2>1, NextStart
  <2> QED BY <2>2, <2>3
<1>16. StartsAt(from, 18, {18, 27, 32, 37, 41, 46, 53, 62, 69})
  <2>1. Leads(from, b, 75, 18, 9, 27, {27, 32, 37, 41, 46, 53, 62, 69})
    BY <1>2, <1>4, <1>7, <1>15 DEF Leads
  <2>2. {18, 27, 32, 37, 41, 46, 53, 62, 69} = {18} \cup {27, 32, 37, 41, 46, 53, 62, 69}
    OBVIOUS
  <2>3. StartsAt(from, 18, {18} \cup {27, 32, 37, 41, 46, 53, 62, 69})
    BY <2>1, NextStart
  <2> QED BY <2>2, <2>3
<1>17. StartsAt(from, 10, {10, 18, 27, 32, 37, 41, 46, 53, 62, 69})
  <2>1. Leads(from, b, 75, 10, 8, 18, {18, 27, 32, 37, 41, 46, 53, 62, 69})
    BY <1>2, <1>4, <1>7, <1>16 DEF Leads
  <2>2. {10, 18, 27, 32, 37, 41, 46, 53, 62, 69} = {10} \cup {18, 27, 32, 37, 41, 46, 53, 62, 69}
    OBVIOUS
  <2>3. StartsAt(from, 10, {10} \cup {18, 27, 32, 37, 41, 46, 53, 62, 69})
    BY <2>1, NextStart
  <2> QED BY <2>2, <2>3
<1>18. StartsAt(from, 1, {1, 10, 18, 27, 32, 37, 41, 46, 53, 62, 69})
  <2>1. Leads(from, b, 75, 1, 9, 10, {10, 18, 27, 32, 37, 41, 46, 53, 62, 69})
    BY <1>2, <1>4, <1>7, <1>17 DEF Leads
  <2>2. {1, 10, 18, 27, 32, 37, 41, 46, 53, 62, 69} = {1} \cup {10, 18, 27, 32, 37, 41, 46, 53, 62, 69}
    OBVIOUS
  <2>3. StartsAt(from, 1, {1} \cup {10, 18, 27, 32, 37, 41, 46, 53, 62, 69})
    BY <2>1, NextStart
  <2> QED BY <2>2, <2>3
<1> QED
  BY <1>3, <1>18 DEF StartsAt, Starts, b

\* The places of endpoint and interface descriptors.
EndpointPlaces == {46, 62, 69}
InterfacePlaces == {18, 53}

\* The host tells the descriptors apart by their types.
LEMMA PlacesFound ==
    LET b == BuildConfigDescriptor
    IN  /\ Places(b, QSB_DT_ENDPOINT) = EndpointPlaces
        /\ Places(b, QSB_DT_INTERFACE) = InterfacePlaces
        /\ Places(b, QSB_DT_INTERFACE_ASSOCIATION) = {10}
        /\ Places(b, QSB_CDC_FUNC_DT_INTERFACE) = {27, 32, 37, 41}
<1> DEFINE b == BuildConfigDescriptor
<1>1. ConfigSpelled(b) /\ CommSpelled(b) /\ DataSpelled(b)
  BY DescriptorSpelled
<1>2. ASSUME NEW type PROVE Places(b, type) = {p \in Starts : p # 0 /\ b[p + 1] = type}
  BY HostFindsAll, Zenon DEF Places
<1> HIDE DEF b
<1>3. \A p \in Starts : p # 0
  BY DEF Starts
<1>4. /\ b[1 + 1] = 2 /\ b[10 + 1] = 11 /\ b[18 + 1] = 4 /\ b[27 + 1] = 36 /\ b[32 + 1] = 36
      /\ b[37 + 1] = 36 /\ b[41 + 1] = 36 /\ b[46 + 1] = 5 /\ b[53 + 1] = 4 /\ b[62 + 1] = 5
      /\ b[69 + 1] = 5
  BY <1>1 DEF ConfigSpelled, CommSpelled, DataSpelled, QSB_DT_CONFIGURATION, QSB_DT_INTERFACE,
     QSB_DT_ENDPOINT, QSB_DT_INTERFACE_ASSOCIATION, QSB_CDC_FUNC_DT_INTERFACE
<1> DEFINE type(p) == b[p + 1]
<1>5. /\ type(1) = 2 /\ type(10) = 11 /\ type(18) = 4 /\ type(27) = 36 /\ type(32) = 36
      /\ type(37) = 36 /\ type(41) = 36 /\ type(46) = 5 /\ type(53) = 4 /\ type(62) = 5 /\ type(69) = 5
  BY <1>4
<1>6. ASSUME NEW t PROVE Places(b, t) = {p \in Starts : type(p) = t}
  BY <1>2, <1>3
<1> HIDE DEF type
<1>7. /\ {p \in Starts : type(p) = 5} = EndpointPlaces
      /\ {p \in Starts : type(p) = 4} = InterfacePlaces
      /\ {p \in Starts : type(p) = 11} = {10}
      /\ {p \in Starts : type(p) = 36} = {27, 32, 37, 41}
  BY <1>5 DEF Starts, EndpointPlaces, InterfacePlaces
<1> QED BY <1>6, <1>7 DEF b, QSB_DT_INTERFACE,
     QSB_DT_ENDPOINT, QSB_DT_INTERFACE_ASSOCIATION, QSB_CDC_FUNC_DT_INTERFACE

\* What a host finds in the configuration descriptor.
LEMMA DescriptorsAnnounce ==
    AdvertisedEndpoints(BuildConfigDescriptor) =
        {[addr |-> DATA_OUT_1, type |-> QSB_ENDPOINT_ATTR_BULK, size |-> CDCACM_PACKET_SIZE],
         [addr |-> DATA_IN_1, type |-> QSB_ENDPOINT_ATTR_BULK, size |-> CDCACM_PACKET_SIZE],
         [addr |-> COMM_IN_1, type |-> QSB_ENDPOINT_ATTR_INTERRUPT, size |-> 16]}
<1> DEFINE b == BuildConfigDescriptor
           At(p) == [addr |-> b[p + 2], type |-> b[p + 3], size |-> b[p + 4] + 256 * b[p + 5]]
<1>1. CommSpelled(b) /\ DataSpelled(b)
  BY DescriptorSpelled
<1>2. AdvertisedEndpoints(b) = {At(p) : p \in EndpointPlaces}
  BY PlacesFound, Zenon DEF AdvertisedEndpoints
<1> HIDE DEF b
<1>3. At(46) = [addr |-> COMM_IN_1, type |-> QSB_ENDPOINT_ATTR_INTERRUPT, size |-> 16]
  <2>1. /\ b[46 + 2] = COMM_IN_1 /\ b[46 + 3] = QSB_ENDPOINT_ATTR_INTERRUPT
        /\ b[46 + 4] + 256 * b[46 + 5] = 16
    BY <1>1 DEF CommSpelled
  <2> QED BY <2>1, Zenon
<1>4. At(62) = [addr |-> DATA_OUT_1, type |-> QSB_ENDPOINT_ATTR_BULK, size |-> CDCACM_PACKET_SIZE]
  <2>1. /\ b[62 + 2] = DATA_OUT_1 /\ b[62 + 3] = QSB_ENDPOINT_ATTR_BULK
        /\ b[62 + 4] + 256 * b[62 + 5] = CDCACM_PACKET_SIZE
    BY <1>1 DEF DataSpelled, CDCACM_PACKET_SIZE
  <2> QED BY <2>1, Zenon
<1>5. At(69) = [addr |-> DATA_IN_1, type |-> QSB_ENDPOINT_ATTR_BULK, size |-> CDCACM_PACKET_SIZE]
  <2>1. /\ b[69 + 2] = DATA_IN_1 /\ b[69 + 3] = QSB_ENDPOINT_ATTR_BULK
        /\ b[69 + 4] + 256 * b[69 + 5] = CDCACM_PACKET_SIZE
    BY <1>1 DEF DataSpelled, CDCACM_PACKET_SIZE
  <2> QED BY <2>1, Zenon
<1> DEFINE c == At(46)
           o == At(62)
           i == At(69)
<1>6. {At(p) : p \in EndpointPlaces} = {o, i, c}
  <2> HIDE DEF At
  <2> QED BY DEF EndpointPlaces
<1>7. AdvertisedEndpoints(BuildConfigDescriptor) = {o, i, c}
  BY <1>2, <1>6, Zenon DEF b
<1> HIDE DEF At
<1> QED BY <1>3, <1>4, <1>5, <1>7, Zenon

\* How many there are of a few numbers.
LEMMA CountOne == \A x : IsFiniteSet({x}) /\ Cardinality({x}) = 1
BY FS_Singleton, Zenon

\* Two of them.
LEMMA CountTwo ==
    ASSUME NEW x, NEW y, x # y
    PROVE  IsFiniteSet({x, y}) /\ Cardinality({x, y}) = 2
<1>1. {x, y} = {x} \cup {y} /\ y \notin {x}
  OBVIOUS
<1>2. IsFiniteSet({x}) /\ Cardinality({x}) = 1
  BY CountOne, Zenon
<1>3. IsFiniteSet({x} \cup {y}) /\ Cardinality({x} \cup {y}) = Cardinality({x}) + 1
  BY <1>1, <1>2, FS_AddElement, Zenon
<1>4. 1 + 1 = 2
  OBVIOUS
<1> QED BY <1>1, <1>2, <1>3, <1>4, Zenon

\* Three.
LEMMA CountThree ==
    ASSUME NEW x, NEW y, NEW z, x # y, x # z, y # z
    PROVE  IsFiniteSet({x, y, z}) /\ Cardinality({x, y, z}) = 3
<1>1. {x, y, z} = {x, y} \cup {z} /\ z \notin {x, y}
  OBVIOUS
<1>2. IsFiniteSet({x, y}) /\ Cardinality({x, y}) = 2
  BY CountTwo, Zenon
<1>3. IsFiniteSet({x, y} \cup {z}) /\ Cardinality({x, y} \cup {z}) = Cardinality({x, y}) + 1
  BY <1>1, <1>2, FS_AddElement, Zenon
<1>4. 2 + 1 = 3
  OBVIOUS
<1> QED BY <1>1, <1>2, <1>3, <1>4, Zenon

\* Four.
LEMMA CountFour ==
    ASSUME NEW w, NEW x, NEW y, NEW z, w # x, w # y, w # z, x # y, x # z, y # z
    PROVE  Cardinality({w, x, y, z}) = 4
<1>1. {w, x, y, z} = {w, x, y} \cup {z} /\ z \notin {w, x, y}
  OBVIOUS
<1>2. IsFiniteSet({w, x, y}) /\ Cardinality({w, x, y}) = 3
  BY CountThree, Zenon
<1>3. Cardinality({w, x, y} \cup {z}) = Cardinality({w, x, y}) + 1
  BY <1>1, <1>2, FS_AddElement, Zenon
<1>4. 3 + 1 = 4
  OBVIOUS
<1> QED BY <1>1, <1>2, <1>3, <1>4, Zenon

\* What ConfigDescriptorParses says of a descriptor.
Parses(b) ==
    /\ \A i \in DOMAIN DescriptorStarts(b) : DescriptorStarts(b)[i] # 0
    /\ b[3] + 256 * b[4] = Len(b)
    /\ {b[p + 2] : p \in Places(b, QSB_DT_INTERFACE)} = 0 .. b[5] - 1
    /\ Cardinality(Places(b, QSB_DT_INTERFACE)) = b[5]
    /\ \A p \in Places(b, QSB_DT_INTERFACE) : /\ Cardinality(EndpointsOf(b, p)) = b[p + 4]
                                              /\ b[p + 8] \in DOMAIN usb_strings
    /\ \A p \in Places(b, QSB_DT_INTERFACE_ASSOCIATION) :
          /\ b[p + 2] .. b[p + 2] + b[p + 3] - 1 \subseteq 0 .. b[5] - 1
          /\ b[p + 7] \in DOMAIN usb_strings
    /\ Cardinality(Places(b, QSB_CDC_FUNC_DT_INTERFACE)) = 4
    /\ Cardinality(AdvertisedEndpoints(b)) = Cardinality(Places(b, QSB_DT_ENDPOINT))

\* A host can read the configuration descriptor by its lengths and counts.
LEMMA DescriptorParses == Parses(BuildConfigDescriptor)
<1> DEFINE b == BuildConfigDescriptor
           S == DescriptorStarts(b)
<1>1. ConfigSpelled(b) /\ CommSpelled(b) /\ DataSpelled(b)
  BY DescriptorSpelled
<1>2. S \in Seq(Nat) /\ Seqs!ToSet(S) = Starts
  BY HostFindsAll, Zenon
<1>3. /\ Places(b, QSB_DT_ENDPOINT) = EndpointPlaces
      /\ Places(b, QSB_DT_INTERFACE) = InterfacePlaces
      /\ Places(b, QSB_DT_INTERFACE_ASSOCIATION) = {10}
      /\ Places(b, QSB_CDC_FUNC_DT_INTERFACE) = {27, 32, 37, 41}
  BY PlacesFound
<1> DEFINE eOut == [addr |-> DATA_OUT_1, type |-> QSB_ENDPOINT_ATTR_BULK, size |-> CDCACM_PACKET_SIZE]
           eIn == [addr |-> DATA_IN_1, type |-> QSB_ENDPOINT_ATTR_BULK, size |-> CDCACM_PACKET_SIZE]
           eComm == [addr |-> COMM_IN_1, type |-> QSB_ENDPOINT_ATTR_INTERRUPT, size |-> 16]
<1>4. AdvertisedEndpoints(b) = {eOut, eIn, eComm}
  BY DescriptorsAnnounce, Zenon
<1> HIDE DEF b, S, eOut, eIn, eComm
<1>5. \A i \in DOMAIN S : S[i] # 0
  <2>1. \A i \in DOMAIN S : S[i] \in Starts
    BY <1>2, Zenon DEF Seqs!ToSet
  <2>2. \A p \in Starts : p # 0
    BY DEF Starts
  <2> QED BY <2>1, <2>2
<1>6. b[3] + 256 * b[4] = Len(b)
  BY <1>1 DEF ConfigSpelled, Bytes
<1>7. {b[p + 2] : p \in InterfacePlaces} = 0 .. b[5] - 1
  <2>1. b[18 + 2] = 0 /\ b[53 + 2] = 1 /\ b[5] = 2
    BY <1>1 DEF ConfigSpelled, CommSpelled, DataSpelled, INTF_COMM, INTF_DATA
  <2>2. {b[p + 2] : p \in InterfacePlaces} = {b[18 + 2], b[53 + 2]}
    BY DEF InterfacePlaces
  <2>3. 0 .. b[5] - 1 = {0, 1}
    BY <2>1
  <2> QED BY <2>1, <2>2, <2>3, Zenon
<1>8. Cardinality(InterfacePlaces) = b[5]
  <2>1. b[5] = 2 /\ 18 # 53
    BY <1>1 DEF ConfigSpelled
  <2> QED BY <2>1, CountTwo, Zenon DEF InterfacePlaces
<1>9. EndpointsOf(b, 18) = {46} /\ EndpointsOf(b, 53) = {62, 69}
  <2>1. \A p : EndpointsOf(b, p) =
           {e \in EndpointPlaces : e > p /\ \A q \in InterfacePlaces : ~(p < q /\ q < e)}
    BY <1>3, Zenon DEF EndpointsOf
  <2>2. {e \in EndpointPlaces : e > 18 /\ \A q \in InterfacePlaces : ~(18 < q /\ q < e)} = {46}
    BY DEF EndpointPlaces, InterfacePlaces
  <2>3. {e \in EndpointPlaces : e > 53 /\ \A q \in InterfacePlaces : ~(53 < q /\ q < e)} = {62, 69}
    BY DEF EndpointPlaces, InterfacePlaces
  <2> QED BY <2>1, <2>2, <2>3
<1>10. DOMAIN usb_strings = 1 .. 6
  BY DEF usb_strings
<1>11. \A p \in InterfacePlaces : /\ Cardinality(EndpointsOf(b, p)) = b[p + 4]
                                  /\ b[p + 8] \in DOMAIN usb_strings
  <2>1. b[18 + 4] = 1 /\ b[18 + 8] = 5 /\ b[53 + 4] = 2 /\ b[53 + 8] = 6
    BY <1>1 DEF CommSpelled, DataSpelled
  <2>2. Cardinality({46}) = 1 /\ Cardinality({62, 69}) = 2
    <3>1. Cardinality({46}) = 1
      BY CountOne, Zenon
    <3> DEFINE x == 62
               y == 69
    <3>2. x # y
      OBVIOUS
    <3>3. Cardinality({x, y}) = 2
      <4> HIDE DEF x, y
      <4> QED BY <3>2, CountTwo, Zenon
    <3> QED BY <3>1, <3>3, Zenon
  <2>3. Cardinality(EndpointsOf(b, 18)) = 1 /\ Cardinality(EndpointsOf(b, 53)) = 2
    BY <1>9, <2>2, Zenon
  <2> QED BY <1>10, <2>1, <2>3 DEF InterfacePlaces
<1>12. \A p \in {10} : /\ b[p + 2] .. b[p + 2] + b[p + 3] - 1 \subseteq 0 .. b[5] - 1
                       /\ b[p + 7] \in DOMAIN usb_strings
  <2>1. b[10 + 2] = 0 /\ b[10 + 3] = 2 /\ b[10 + 7] = 4 /\ b[5] = 2
    BY <1>1 DEF ConfigSpelled, INTF_COMM
  <2> QED BY <1>10, <2>1
<1>13. Cardinality({27, 32, 37, 41}) = 4
  <2> DEFINE w == 27
             x == 32
             y == 37
             z == 41
  <2>1. w # x /\ w # y /\ w # z /\ x # y /\ x # z /\ y # z
    OBVIOUS
  <2>2. Cardinality({w, x, y, z}) = 4
    <3> HIDE DEF w, x, y, z
    <3> QED BY <2>1, CountFour, Zenon
  <2> QED BY <2>2, Zenon
<1>14. Cardinality({eOut, eIn, eComm}) = Cardinality(EndpointPlaces)
  <2>1. eOut # eIn /\ eOut # eComm /\ eIn # eComm
    <3>1. eOut.addr = 1 /\ eIn.addr = 130 /\ eComm.addr = 131
      BY DEF eOut, eIn, eComm, DATA_OUT_1, DATA_IN_1, COMM_IN_1
    <3> QED BY <3>1
  <2>2. Cardinality({eOut, eIn, eComm}) = 3
    BY <2>1, CountThree, Zenon
  <2> DEFINE x == 46
             y == 62
             z == 69
  <2>3. EndpointPlaces = {x, y, z} /\ x # y /\ x # z /\ y # z
    BY DEF EndpointPlaces
  <2>4. Cardinality(EndpointPlaces) = 3
    <3> HIDE DEF x, y, z
    <3> QED BY <2>3, CountThree, Zenon
  <2> QED BY <2>2, <2>4, Zenon
<1>15. Parses(b)
  BY <1>3, <1>4, <1>5, <1>6, <1>7, <1>8, <1>11, <1>12, <1>13, <1>14, Zenon DEF Parses, S
<1> QED BY <1>15 DEF b

----------------------------------------------------------------------------
(* Replies. *)

\* The device descriptor.
LEMMA DeviceBytes == dev_desc \in Seq(Nat)
<1>1. \A s, t \in Seq(Nat) : s \o t \in Seq(Nat)
  OBVIOUS
<1>2. /\ <<18, QSB_DT_DEVICE>> \in Seq(Nat) /\ ClassMisc \in Seq(Nat)
      /\ <<bMaxPacketSize0>> \in Seq(Nat)
      /\ <<StringIndex.manufacturer, StringIndex.product, StringIndex.serial_number, 1>> \in Seq(Nat)
  BY DEF QSB_DT_DEVICE, ClassMisc, bMaxPacketSize0, StringIndex
<1>3. Word(512) \in Seq(Nat) /\ Word(4617) \in Seq(Nat) /\ Word(32840) \in Seq(Nat) /\ Word(288) \in Seq(Nat)
  BY WordBytes DEF Bytes
<1> QED BY <1>1, <1>2, <1>3 DEF dev_desc, DeviceDesc

\* String descriptors (get_string_descriptor()).
LEMMA StringBytes ==
    ASSUME NEW index \in 0 .. Len(usb_strings)
    PROVE  StringDescriptor(index) \in Seq(Nat)
<1> DEFINE size == IF index = 0 THEN 4 ELSE 2 * usb_strings[index] + 2
<1>1. Len(usb_strings) = 6
  BY DEF usb_strings
<1>2. \A i \in 1 .. 6 : usb_strings[i] \in Nat
  BY DEF usb_strings
<1>3. size \in Nat
  BY <1>1, <1>2
<1>4. StringDescriptor(index)
        = [i \in 1 .. size |-> CASE i = 1 -> size [] i = 2 -> QSB_DT_STRING [] OTHER -> 0]
  BY DEF StringDescriptor
<1> HIDE DEF size
<1>5. \A i \in 1 .. size : (CASE i = 1 -> size [] i = 2 -> QSB_DT_STRING [] OTHER -> 0) \in Nat
  BY <1>3 DEF QSB_DT_STRING
<1> QED BY <1>3, <1>4, <1>5

\* A reply is never longer than asked for.
LEMMA FirstBytesShort ==
    ASSUME NEW s \in Seq(Nat), NEW len \in Nat
    PROVE  /\ FirstBytes(s, len) \in Seq(Nat) /\ Len(FirstBytes(s, len)) <= len
           /\ Len(FirstBytes(s, len)) >= Len(s) => FirstBytes(s, len) = s
<1> DEFINE n == Least(len, Len(s))
<1>1. n \in 0 .. len /\ n <= Len(s)
  BY DEF Least
<1>2. FirstBytes(s, len) = SubSeq(s, 1, n)
  BY DEF FirstBytes
<1> HIDE DEF n
<1>3. SubSeq(s, 1, n) \in Seq(Nat) /\ Len(SubSeq(s, 1, n)) = n
  BY <1>1
<1>4. n >= Len(s) => SubSeq(s, 1, n) = s
  BY <1>1, <1>3
<1> QED BY <1>1, <1>2, <1>3, <1>4

----------------------------------------------------------------------------
(* The fields and the replies.                                               *)

\* The fields no other invariant speaks of.
ConfigFields ==
    /\ target \in Targets /\ current_config \in 0 .. 1 /\ configured \in 0 .. 1
    /\ control_callbacks \in {<<>>, <<"cdc_control_request">>} /\ address \in 0 .. 127
BooleanFields == is_enabled \in BOOLEAN /\ dtr \in BOOLEAN
Asked ==
    /\ requested \in Rates \cup {0, 9600}
    /\ is_enabled => FormatAccepted(coding.format)
Fields == ConfigFields /\ BooleanFields /\ Asked

\* The reply is one of those there is a request for: never longer than the buffer,
\* and the first bytes of the descriptors if it is about those.
ConfigRequest == "GET_DESCRIPTOR configuration"
ReplyInv ==
    /\ reply.refused \in BOOLEAN /\ Len(reply.data) <= USB_CONTROL_BUF_SIZE
    /\ reply.request = ConfigRequest =>
          \E len \in Lengths : reply.data = FirstBytes(BuildConfigDescriptor, len)

----------------------------------------------------------------------------
(* The fields. *)

\* SET_CONFIGURATION configures, registers the class's handler and enables the UART.
LEMMA ConfigurationFields ==
    ASSUME Fields, NEW value \in 0 .. 2, SetConfiguration(value)
    PROVE  Fields'
<1>1. CASE value \in {0, bConfigurationValue}
  <2>1. /\ current_config' = value /\ configured' = value /\ target' = target /\ address' = address
        /\ control_callbacks' = RegisterControlCallback(<<>>, "cdc_control_request")
    BY <1>1 DEF SetConfiguration
  <2>2. RegisterControlCallback(<<>>, "cdc_control_request") = <<"cdc_control_request">>
    BY DEF RegisterControlCallback, QSB_MAX_CONTROL_CALLBACKS
  <2>3. value \in 0 .. 1
    BY <1>1 DEF bConfigurationValue
  <2>4. ConfigFields'
    BY <2>1, <2>2, <2>3 DEF ConfigFields, Fields
  <2> DEFINE format == [databits |-> 8, stopbits |-> "1", parity |-> "none"]
  <2>5. BooleanFields' /\ requested' = 9600 /\ coding' \in SetCoding(target, 9600, format)
    BY <1>1 DEF SetConfiguration, EnableUart, BooleanFields
  <2>6. FormatAccepted(format)
    BY DEF FormatAccepted, StopBits, Parities
  <2> HIDE DEF format
  <2>7. PICK d \in Dividers(target, 9600) : coding' = Coding(Generator(target, 9600, d), 9600, format)
    BY <2>5, SetCodingElements
  <2>8. coding'.format = format
    BY <2>7, CodingFields
  <2>9. Asked'
    BY <2>5, <2>6, <2>8 DEF Asked
  <2> QED BY <2>4, <2>5, <2>9 DEF Fields
<1>2. CASE value \notin {0, bConfigurationValue}
  <2>1. UNCHANGED <<configVars, serialVars, target, address>>
    BY <1>2 DEF SetConfiguration
  <2> QED BY <2>1 DEF Fields, ConfigFields, BooleanFields, Asked, configVars, serialVars
<1> QED BY <1>1, <1>2

\* SET_LINE_CODING leaves an accepted format.
LEMMA LineCodingFields ==
    ASSUME Fields, NEW len, NEW interface, NEW baud \in Rates, NEW format,
           SetLineCoding(len, interface, baud, format)
    PROVE  Fields'
<1>1. UNCHANGED <<target, configVars, address, is_enabled, dtr>>
  BY DEF SetLineCoding
<1>2. ConfigFields' /\ BooleanFields'
  BY <1>1 DEF Fields, ConfigFields, BooleanFields, configVars
<1>3. CASE UNCHANGED <<coding, requested>>
  BY <1>1, <1>2, <1>3 DEF Fields, Asked
<1>4. CASE FormatAccepted(format) /\ coding' \in SetCoding(target, baud, format) /\ requested' = baud
  <2>1. PICK d \in Dividers(target, baud) : coding' = Coding(Generator(target, baud, d), baud, format)
    BY <1>4, SetCodingElements
  <2>2. coding'.format = format
    BY <2>1, CodingFields
  <2> QED BY <1>2, <1>4, <2>2 DEF Fields, Asked
<1> QED BY <1>3, <1>4 DEF SetLineCoding

\* Every step keeps the fields in their ranges.
LEMMA FieldsStep ==
    ASSUME Fields, Next
    PROVE  Fields'
<1> USE DEF configVars, serialVars, Answer, Ignore
<1>1. CASE UNCHANGED <<target, configVars, address, serialVars>>
  BY <1>1 DEF Fields, ConfigFields, BooleanFields, Asked
<1>2. CASE BusReset
  BY <1>2 DEF BusReset, Fields, ConfigFields, BooleanFields, Asked
<1>3. ASSUME NEW value \in {5, 200}, SetAddress(value) PROVE Fields'
  <2>1. UNCHANGED <<target, configVars, serialVars>> /\ address' \in {address, 5}
    BY <1>3 DEF SetAddress
  <2>2. BooleanFields' /\ Asked'
    BY <2>1 DEF Fields, BooleanFields, Asked
  <2>3. ConfigFields'
    BY <2>1 DEF Fields, ConfigFields
  <2> QED BY <2>2, <2>3 DEF Fields
<1>4. ASSUME NEW value \in 0 .. 2, SetConfiguration(value) PROVE Fields'
  BY <1>4, ConfigurationFields
<1>5. ASSUME NEW interface, GetInterface(interface) PROVE Fields'
  BY <1>1, <1>5 DEF GetInterface
<1>6. ASSUME NEW interface, NEW setting, SetInterface(interface, setting) PROVE Fields'
  BY <1>1, <1>6 DEF SetInterface
<1>7. ASSUME NEW stall, HaltEndpoint(stall) PROVE Fields'
  BY <1>1, <1>7 DEF HaltEndpoint
<1>8. ASSUME NEW recipient, NEW request, NEW feature, Unsupported(recipient, request, feature)
      PROVE  Fields'
  BY <1>1, <1>8 DEF Unsupported
<1>9. ASSUME NEW value, SetControlLineState(value) PROVE Fields'
  <2>1. UNCHANGED <<target, configVars, address, is_enabled, requested, coding>>
        /\ (dtr' = dtr \/ dtr' = (value % 2 = 1))
    BY <1>9 DEF SetControlLineState
  <2>2. ConfigFields' /\ Asked'
    BY <2>1 DEF Fields, ConfigFields, Asked
  <2>3. BooleanFields'
    BY <2>1 DEF Fields, BooleanFields
  <2> QED BY <2>2, <2>3 DEF Fields
<1>10. ASSUME NEW len, GetConfiguration(len) \/ GetDescriptor(len)
                        \/ GetDeviceOrInterfaceStatus(len) \/ GetEndpointStatus(len)
      PROVE  Fields'
  BY <1>1, <1>10 DEF GetConfiguration, GetDescriptor, GetDeviceOrInterfaceStatus, GetEndpointStatus
<1>11. ASSUME NEW len, NEW interface, GetLineCoding(len, interface) PROVE Fields'
  BY <1>1, <1>11 DEF GetLineCoding
<1>12. ASSUME NEW len, NEW interface, NEW baud \in Rates, NEW format,
              SetLineCoding(len, interface, baud, format)
       PROVE  Fields'
  BY <1>12, LineCodingFields
<1>13. CASE Request
  BY <1>3, <1>4, <1>5, <1>6, <1>7, <1>8, <1>9, <1>10, <1>11, <1>12, <1>13 DEF Request
<1> QED BY <1>2, <1>13 DEF Next

\* They stay there.
LEMMA FieldsInvariant == Spec => []Fields
<1>1. Init => Fields
  <2> SUFFICES ASSUME Init PROVE Fields
    OBVIOUS
  <2>1. ConfigFields
    BY DEF Init, ConfigFields
  <2>2. BooleanFields /\ requested = 0 /\ ~is_enabled
    BY DEF Init, BooleanFields
  <2> QED BY <2>1, <2>2 DEF Fields, Asked
<1>2. Fields /\ UNCHANGED vars => Fields'
  BY DEF Fields, ConfigFields, BooleanFields, Asked, vars, configVars, serialVars
<1> QED BY <1>1, <1>2, FieldsStep, PTL DEF Spec

----------------------------------------------------------------------------
(* Replies. *)

\* No other request has the name of the one for the configuration descriptor.
LEMMA Names ==
    /\ "SET_ADDRESS" # ConfigRequest /\ "SET_CONFIGURATION" # ConfigRequest
    /\ "GET_CONFIGURATION" # ConfigRequest /\ "GET_DESCRIPTOR" # ConfigRequest
    /\ "GET_DESCRIPTOR device" # ConfigRequest /\ "GET_DESCRIPTOR string" # ConfigRequest
    /\ "GET_INTERFACE" # ConfigRequest /\ "SET_INTERFACE" # ConfigRequest
    /\ "GET_STATUS" # ConfigRequest /\ "GET_STATUS endpoint" # ConfigRequest
    /\ "SET_FEATURE" # ConfigRequest /\ "CLEAR_FEATURE" # ConfigRequest
    /\ "GET_LINE_CODING" # ConfigRequest /\ "SET_LINE_CODING" # ConfigRequest
    /\ "SET_CONTROL_LINE_STATE" # ConfigRequest /\ "none" # ConfigRequest
    /\ \A request \in StandardRequests : request # ConfigRequest
BY Zenon DEF ConfigRequest, StandardRequests

\* Requests without data, accepted or refused.
LEMMA EmptyReply ==
    ASSUME NEW request, request # ConfigRequest
    PROVE  /\ Refuse(request) => ReplyInv'
           /\ Reply(request, <<>>) => ReplyInv'
<1>1. Len(<<>>) <= USB_CONTROL_BUF_SIZE
  BY DEF USB_CONTROL_BUF_SIZE
<1>2. ASSUME NEW refused \in BOOLEAN, reply' = [request |-> request, refused |-> refused, data |-> <<>>]
      PROVE  ReplyInv'
  <2>1. reply'.request = request /\ reply'.refused \in BOOLEAN /\ reply'.data = <<>>
    BY <1>2
  <2> QED BY <1>1, <2>1 DEF ReplyInv
<1>3. TRUE \in BOOLEAN /\ FALSE \in BOOLEAN
  OBVIOUS
<1> QED BY <1>2, <1>3, Zenon DEF Refuse, Reply

\* Requests with data.
LEMMA AnswerReply ==
    ASSUME NEW request, request # ConfigRequest, NEW len \in Lengths \cup {0, 1},
           NEW data \in Seq(Nat), Answer(request, data, len)
    PROVE  ReplyInv'
<1>1. len \in Nat /\ len <= USB_CONTROL_BUF_SIZE /\ USB_CONTROL_BUF_SIZE \in Nat
  BY DeviceAssumption DEF USB_CONTROL_BUF_SIZE
<1>2. FirstBytes(data, len) \in Seq(Nat) /\ Len(FirstBytes(data, len)) <= len
  BY <1>1, FirstBytesShort
<1>3. Len(FirstBytes(data, len)) <= USB_CONTROL_BUF_SIZE
  BY <1>1, <1>2
<1> QED BY <1>3 DEF Answer, Reply, ReplyInv

\* GET_DESCRIPTOR, for each kind of descriptor.
LEMMA DescriptorReply ==
    ASSUME NEW len \in Lengths, GetDescriptor(len)
    PROVE  ReplyInv'
<1>1. CASE Answer("GET_DESCRIPTOR device", dev_desc, len)
  BY <1>1, AnswerReply, Names, DeviceBytes
<1>2. CASE Answer("GET_DESCRIPTOR configuration", BuildConfigDescriptor, len)
  <2>1. len \in Nat /\ len <= USB_CONTROL_BUF_SIZE /\ USB_CONTROL_BUF_SIZE \in Nat
    BY DeviceAssumption DEF USB_CONTROL_BUF_SIZE
  <2>2. /\ FirstBytes(BuildConfigDescriptor, len) \in Seq(Nat)
        /\ Len(FirstBytes(BuildConfigDescriptor, len)) <= len
    BY <2>1, ConfigBytes, FirstBytesShort
  <2>3. Len(FirstBytes(BuildConfigDescriptor, len)) <= USB_CONTROL_BUF_SIZE
    BY <2>1, <2>2
  <2> QED BY <1>2, <2>3, Zenon DEF Answer, Reply, ReplyInv
<1>3. ASSUME NEW index \in 0 .. Len(usb_strings),
             Answer("GET_DESCRIPTOR string", StringDescriptor(index), len)
      PROVE  ReplyInv'
  BY <1>3, AnswerReply, Names, StringBytes
<1>4. CASE Ignore("GET_DESCRIPTOR")
  BY <1>4, EmptyReply, Names DEF Ignore
<1> QED BY <1>1, <1>2, <1>3, <1>4 DEF GetDescriptor

\* Every step leaves such a reply.
LEMMA ReplyStep ==
    ASSUME ReplyInv, Next
    PROVE  ReplyInv'
<1>1. CASE BusReset
  <2>1. Len(<<>>) <= USB_CONTROL_BUF_SIZE
    BY DEF USB_CONTROL_BUF_SIZE
  <2> QED BY <1>1, <2>1, Names DEF BusReset, ReplyInv
<1>2. ASSUME NEW value, SetAddress(value) PROVE ReplyInv'
  BY <1>2, EmptyReply, Names DEF SetAddress
<1>3. ASSUME NEW value, SetConfiguration(value) PROVE ReplyInv'
  BY <1>3, EmptyReply, Names DEF SetConfiguration
<1>4. ASSUME NEW interface, GetInterface(interface) PROVE ReplyInv'
  <2>1. <<0>> \in Seq(Nat)
    OBVIOUS
  <2> QED BY <1>4, <2>1, EmptyReply, AnswerReply, Names DEF GetInterface, Ignore
<1>5. ASSUME NEW interface, NEW setting, SetInterface(interface, setting) PROVE ReplyInv'
  <2>1. <<>> \in Seq(Nat)
    OBVIOUS
  <2> QED BY <1>5, <2>1, EmptyReply, AnswerReply, Names DEF SetInterface, Ignore
<1>6. ASSUME NEW stall, HaltEndpoint(stall) PROVE ReplyInv'
  BY <1>6, EmptyReply, Names DEF HaltEndpoint
<1>7. ASSUME NEW recipient, NEW request \in StandardRequests, NEW feature,
             Unsupported(recipient, request, feature)
      PROVE  ReplyInv'
  <2>1. request # ConfigRequest
    BY Names
  <2> QED BY <1>7, <2>1, EmptyReply DEF Unsupported, Ignore
<1>8. ASSUME NEW value, SetControlLineState(value) PROVE ReplyInv'
  BY <1>8, EmptyReply, Names DEF SetControlLineState
<1>9. ASSUME NEW len \in Lengths, GetConfiguration(len) PROVE ReplyInv'
  <2>1. <<IF current_config > 0 THEN bConfigurationValue ELSE 0>> \in Seq(Nat)
    BY DEF bConfigurationValue
  <2> QED BY <1>9, <2>1, AnswerReply, Names DEF GetConfiguration
<1>10. ASSUME NEW len \in Lengths, GetDescriptor(len) PROVE ReplyInv'
  BY <1>10, DescriptorReply
<1>11. ASSUME NEW len \in Lengths, GetDeviceOrInterfaceStatus(len) PROVE ReplyInv'
  <2>1. <<0, 0>> \in Seq(Nat)
    OBVIOUS
  <2> QED BY <1>11, <2>1, AnswerReply, Names DEF GetDeviceOrInterfaceStatus
<1>12. ASSUME NEW len \in Lengths, GetEndpointStatus(len) PROVE ReplyInv'
  <2>1. <<IF endpoint[EpNum(COMM_IN_1)].tx = "stall" THEN 1 ELSE 0, 0>> \in Seq(Nat)
    OBVIOUS
  <2> QED BY <1>12, <2>1, AnswerReply, Names DEF GetEndpointStatus
<1>13. ASSUME NEW len, NEW interface, GetLineCoding(len, interface) PROVE ReplyInv'
  <2>1. Len(<<coding.generator.rate, coding.format>>) <= USB_CONTROL_BUF_SIZE
    BY DEF USB_CONTROL_BUF_SIZE
  <2>2. CASE Ignore("GET_LINE_CODING")
    BY <2>2, EmptyReply, Names DEF Ignore
  <2>3. CASE Reply("GET_LINE_CODING", <<coding.generator.rate, coding.format>>)
    <3>1. /\ reply'.request = "GET_LINE_CODING" /\ reply'.refused \in BOOLEAN
          /\ reply'.data = <<coding.generator.rate, coding.format>>
      BY <2>3 DEF Reply
    <3> QED BY <2>1, <3>1, Names DEF ReplyInv
  <2> QED BY <1>13, <2>2, <2>3, Zenon DEF GetLineCoding
<1>14. ASSUME NEW len, NEW interface, NEW baud, NEW format,
              SetLineCoding(len, interface, baud, format)
       PROVE  ReplyInv'
  BY <1>14, EmptyReply, Names DEF SetLineCoding
<1>15. CASE Request
  BY <1>2, <1>3, <1>4, <1>5, <1>6, <1>7, <1>8, <1>9, <1>10, <1>11, <1>12, <1>13, <1>14, <1>15
     DEF Request
<1> QED BY <1>1, <1>15 DEF Next

\* ReplyInv holds in every reachable state.
LEMMA ReplyInvariant == Spec => []ReplyInv
<1>1. Init => ReplyInv
  <2>1. Len(<<>>) <= USB_CONTROL_BUF_SIZE
    BY DEF USB_CONTROL_BUF_SIZE
  <2> SUFFICES ASSUME Init PROVE ReplyInv
    OBVIOUS
  <2>2. reply.request = "none" /\ reply.refused \in BOOLEAN /\ reply.data = <<>>
    BY DEF Init
  <2> QED BY <2>1, <2>2, Names DEF ReplyInv
<1>2. ReplyInv /\ UNCHANGED vars => ReplyInv'
  BY DEF ReplyInv, vars
<1> QED BY <1>1, <1>2, ReplyStep, PTL DEF Spec

----------------------------------------------------------------------------
(* The properties. *)

\* What the host is told of the endpoints is how they are set up.
LEMMA AdvertisedOfLayout ==
    ASSUME Layout
    PROVE  EndpointsAsAdvertised
<1> DEFINE advertised == AdvertisedEndpoints(BuildConfigDescriptor)
           eOut == [addr |-> DATA_OUT_1, type |-> QSB_ENDPOINT_ATTR_BULK, size |-> CDCACM_PACKET_SIZE]
           eIn == [addr |-> DATA_IN_1, type |-> QSB_ENDPOINT_ATTR_BULK, size |-> CDCACM_PACKET_SIZE]
           eComm == [addr |-> COMM_IN_1, type |-> QSB_ENDPOINT_ATTR_INTERRUPT, size |-> 16]
           Told(e) ==
              /\ endpoint[EpNum(e.addr)].type = e.type
              /\ e.addr \in ep_callbacks
              /\ IF IsTx(e.addr)
                 THEN /\ endpoint[EpNum(e.addr)].tx # "disabled"
                      /\ endpoint[EpNum(e.addr)].rx = "disabled"
                 ELSE /\ endpoint[EpNum(e.addr)].rx # "disabled"
                      /\ endpoint[EpNum(e.addr)].tx = "disabled"
                      /\ \A offset \in {0, 1} :
                            BlocksSize(memory.btable[<<EpNum(e.addr), offset>>]) = e.size
<1>1. advertised = {eOut, eIn, eComm}
  BY DescriptorsAnnounce, Zenon
<1>2. /\ eOut.addr = DATA_OUT_1 /\ eOut.type = QSB_ENDPOINT_ATTR_BULK /\ eOut.size = 64
      /\ eIn.addr = DATA_IN_1 /\ eIn.type = QSB_ENDPOINT_ATTR_BULK
      /\ eComm.addr = COMM_IN_1 /\ eComm.type = QSB_ENDPOINT_ATTR_INTERRUPT
  BY DEF CDCACM_PACKET_SIZE
<1> HIDE DEF eOut, eIn, eComm, advertised
<1> SUFFICES ASSUME current_config = 1
             PROVE  /\ \A e \in advertised : Told(e)
                    /\ \A n \in EndpointNumbers \ {0} :
                          ~(\E e \in advertised : EpNum(e.addr) = n) =>
                                endpoint[n].tx = "disabled" /\ endpoint[n].rx = "disabled"
  BY Zenon DEF EndpointsAsAdvertised, advertised
<1>3. /\ Configured(endpoint, memory) /\ ep_callbacks = {DATA_OUT_1, DATA_IN_1, COMM_IN_1}
  BY DEF Layout
<1>4. /\ EpNum(DATA_OUT_1) = Out /\ EpNum(DATA_IN_1) = In /\ EpNum(COMM_IN_1) = Comm
      /\ ~IsTx(DATA_OUT_1) /\ IsTx(DATA_IN_1) /\ IsTx(COMM_IN_1)
  BY EpFacts DEF Out, In, Comm
<1>5. /\ endpoint[Out].type = QSB_ENDPOINT_ATTR_BULK
      /\ endpoint[Out].tx = "disabled" /\ endpoint[Out].rx = "valid"
      /\ endpoint[In].type = QSB_ENDPOINT_ATTR_BULK
      /\ endpoint[In].tx = "valid" /\ endpoint[In].rx = "disabled"
      /\ endpoint[Comm].type = QSB_ENDPOINT_ATTR_INTERRUPT
      /\ endpoint[Comm].tx # "disabled" /\ endpoint[Comm].rx = "disabled"
  BY <1>3 DEF Configured, OtherEndpoints, State
<1>6. \A offset \in {0, 1} : BlocksSize(memory.btable[<<Out, offset>>]) = 64
  <2>1. BlocksSize(Entry(96, 1, 1)) = 64 /\ BlocksSize(Entry(160, 1, 1)) = 64
    BY DEF BlocksSize, Entry
  <2>2. memory.btable[<<Out, 1>>] = Entry(96, 1, 1) /\ memory.btable[<<Out, 0>>] = Entry(160, 1, 1)
    BY <1>3 DEF Configured, OtherEndpoints, OtherBuffers
  <2> QED BY <2>1, <2>2
<1>7. Told(eOut)
  BY <1>2, <1>3, <1>4, <1>5, <1>6
<1>8. Told(eIn)
  BY <1>2, <1>3, <1>4, <1>5
<1>9. Told(eComm)
  BY <1>2, <1>3, <1>4, <1>5
<1> HIDE DEF Told
<1>10. \A e \in advertised : Told(e)
  BY <1>1, <1>7, <1>8, <1>9
<1>11. ASSUME NEW n \in EndpointNumbers \ {0}, ~(\E e \in advertised : EpNum(e.addr) = n)
       PROVE  endpoint[n].tx = "disabled" /\ endpoint[n].rx = "disabled"
  <2>1. n # Out /\ n # In /\ n # Comm
    BY <1>1, <1>2, <1>4, <1>11
  <2> QED BY <1>3, <2>1 DEF Configured, OtherEndpoints, Silent
<1> QED BY <1>10, <1>11

----------------------------------------------------------------------------
(* The buffers in use. *)

\* The largest packets announced for the endpoints that send.
LEMMA SentSizes == SentSize(0) = 16 /\ SentSize(In) = 64 /\ SentSize(Comm) = 16
<1> DEFINE advertised == AdvertisedEndpoints(BuildConfigDescriptor)
           eOut == [addr |-> DATA_OUT_1, type |-> QSB_ENDPOINT_ATTR_BULK, size |-> CDCACM_PACKET_SIZE]
           eIn == [addr |-> DATA_IN_1, type |-> QSB_ENDPOINT_ATTR_BULK, size |-> CDCACM_PACKET_SIZE]
           eComm == [addr |-> COMM_IN_1, type |-> QSB_ENDPOINT_ATTR_INTERRUPT, size |-> 16]
<1>1. advertised = {eOut, eIn, eComm}
  BY DescriptorsAnnounce, Zenon
<1>2. /\ EpNum(eOut.addr) = Out /\ EpNum(eIn.addr) = In /\ EpNum(eComm.addr) = Comm
      /\ eIn.size = 64 /\ eComm.size = 16
  BY DEF CDCACM_PACKET_SIZE, Out, In, Comm
<1>3. Out # In /\ Out # Comm /\ In # Comm /\ In # 0 /\ Comm # 0
  BY EpFacts
<1> HIDE DEF eOut, eIn, eComm, advertised
<1>4. (CHOOSE e \in advertised : EpNum(e.addr) = In) = eIn
  BY <1>1, <1>2, <1>3
<1>5. (CHOOSE e \in advertised : EpNum(e.addr) = Comm) = eComm
  BY <1>1, <1>2, <1>3
<1>6. SentSize(In) = (CHOOSE e \in advertised : EpNum(e.addr) = In).size
  BY <1>3 DEF SentSize, advertised
<1>7. SentSize(Comm) = (CHOOSE e \in advertised : EpNum(e.addr) = Comm).size
  BY <1>3 DEF SentSize, advertised
<1>8. SentSize(0) = 16
  BY DEF SentSize, bMaxPacketSize0
<1> QED BY <1>2, <1>4, <1>5, <1>6, <1>7, <1>8

\* Each buffer in use has its place and size.
Place(b, entry, first, size) == b.at = entry /\ memory.btable[b.at].addr = first /\ b.size = size

\* Where the transmit buffers in use are.
LEMMA SentBuffers ==
    ASSUME Layout, NEW c \in Entries, endpoint[c[1]].tx # "disabled",
           c[2] = qsb_offset_tx \/ endpoint[c[1]].dbl_buf,
           NEW b, b = [at |-> c, size |-> SentSize(c[1])]
    PROVE  \/ Place(b, <<0, 0>>, 64, 16)
           \/ Place(b, <<In, 0>>, 224, 64) \/ Place(b, <<In, 1>>, 288, 64)
           \/ Place(b, <<Comm, 0>>, 352, 16)
<1> DEFINE n == c[1]
           o == c[2]
<1>1. c = <<n, o>> /\ n \in EndpointNumbers /\ o \in {0, 1}
  BY DEF Entries
<1>2. b.at = <<n, o>> /\ b.size = SentSize(n)
  BY <1>1
<1> HIDE DEF n, o
<1>3. endpoint[n].tx # "disabled" /\ (o = 0 \/ endpoint[n].dbl_buf)
  BY DEF n, o, qsb_offset_tx
<1>4. n = 0 \/ Configured(endpoint, memory)
  BY <1>1, <1>3 DEF Layout, AllDefault, Reset, Silent
<1>5. Endpoint0(endpoint, memory)
  BY <1>1, <1>3 DEF Layout, AllDefault, Reset, Silent, Configured
<1>6. CASE n = 0
  <2>1. endpoint[0].dbl_buf = FALSE /\ memory.btable[<<0, 0>>].addr = 64
    BY <1>5 DEF Endpoint0, State, Entry
  <2>2. o = 0
    BY <1>3, <1>6, <2>1
  <2> QED BY <1>2, <1>6, <2>1, <2>2, SentSizes DEF Place
<1>7. CASE n # 0 /\ Configured(endpoint, memory)
  <2>1. n \in {Out, In, Comm}
    BY <1>1, <1>3, <1>7 DEF Configured, OtherEndpoints, Silent
  <2>2. n # Out
    BY <1>3, <1>7 DEF Configured, OtherEndpoints, State
  <2>3. /\ memory.btable[<<In, 0>>].addr = 224 /\ memory.btable[<<In, 1>>].addr = 288
        /\ memory.btable[<<Comm, 0>>].addr = 352
    BY <1>7 DEF Configured, OtherEndpoints, OtherBuffers, Entry
  <2>4. CASE n = In
    BY <1>1, <1>2, <2>3, <2>4, SentSizes DEF Place
  <2>5. CASE n = Comm
    <3>1. endpoint[Comm].dbl_buf = FALSE
      BY <1>7 DEF Configured, OtherEndpoints, State
    <3>2. o = 0
      BY <1>3, <2>5, <3>1
    <3> QED BY <1>2, <2>3, <2>5, <3>2, SentSizes DEF Place
  <2> QED BY <2>1, <2>2, <2>4, <2>5
<1> QED BY <1>4, <1>6, <1>7

\* Where the receive buffers in use are.
LEMMA ReceivedBuffers ==
    ASSUME Layout, NEW c \in Entries, endpoint[c[1]].rx # "disabled",
           c[2] = qsb_offset_rx \/ endpoint[c[1]].dbl_buf,
           NEW b, b = [at |-> c, size |-> BlocksSize(memory.btable[c])]
    PROVE  \/ Place(b, <<0, 1>>, 80, 16)
           \/ Place(b, <<Out, 1>>, 96, 64) \/ Place(b, <<Out, 0>>, 160, 64)
<1> DEFINE n == c[1]
           o == c[2]
<1>1. c = <<n, o>> /\ n \in EndpointNumbers /\ o \in {0, 1}
  BY DEF Entries
<1>2. b.at = <<n, o>> /\ b.size = BlocksSize(memory.btable[<<n, o>>])
  BY <1>1
<1> HIDE DEF n, o
<1>3. endpoint[n].rx # "disabled" /\ (o = 1 \/ endpoint[n].dbl_buf)
  BY DEF n, o, qsb_offset_rx
<1>4. n = 0 \/ Configured(endpoint, memory)
  BY <1>1, <1>3 DEF Layout, AllDefault, Reset, Silent
<1>5. Endpoint0(endpoint, memory)
  BY <1>1, <1>3 DEF Layout, AllDefault, Reset, Silent, Configured
<1>6. CASE n = 0
  <2>1. endpoint[0].dbl_buf = FALSE /\ memory.btable[<<0, 1>>] = Entry(80, 0, 8)
    BY <1>5 DEF Endpoint0, State
  <2>2. o = 1
    BY <1>3, <1>6, <2>1
  <2>3. BlocksSize(Entry(80, 0, 8)) = 16 /\ Entry(80, 0, 8).addr = 80
    BY DEF BlocksSize, Entry
  <2> QED BY <1>2, <1>6, <2>1, <2>2, <2>3 DEF Place
<1>7. CASE n # 0 /\ Configured(endpoint, memory)
  <2>1. n \in {Out, In, Comm}
    BY <1>1, <1>3, <1>7 DEF Configured, OtherEndpoints, Silent
  <2>2. n # In /\ n # Comm
    BY <1>3, <1>7 DEF Configured, OtherEndpoints, State
  <2>3. memory.btable[<<Out, 1>>] = Entry(96, 1, 1) /\ memory.btable[<<Out, 0>>] = Entry(160, 1, 1)
    BY <1>7 DEF Configured, OtherEndpoints, OtherBuffers
  <2>4. /\ BlocksSize(Entry(96, 1, 1)) = 64 /\ Entry(96, 1, 1).addr = 96
        /\ BlocksSize(Entry(160, 1, 1)) = 64 /\ Entry(160, 1, 1).addr = 160
    BY DEF BlocksSize, Entry
  <2> QED BY <1>1, <1>2, <2>1, <2>2, <2>3, <2>4 DEF Place
<1> QED BY <1>4, <1>6, <1>7

\* Where the buffers in use begin; it tells them apart, and their size.
Firsts == {64, 80, 96, 160, 224, 288, 352}
SizeAt(first) == IF first \in {96, 160, 224, 288} THEN 64 ELSE 16
EntryAt(first) ==
    CASE first = 64 -> <<0, 0>> [] first = 80 -> <<0, 1>> [] first = 96 -> <<Out, 1>>
      [] first = 160 -> <<Out, 0>> [] first = 224 -> <<In, 0>> [] first = 288 -> <<In, 1>>
      [] first = 352 -> <<Comm, 0>>

\* Buffers at these places lie in the packet memory after BTABLE, and apart.
LEMMA FirstsApart ==
    /\ \A f \in Firsts : f \in Nat /\ SizeAt(f) \in Nat /\ f >= 64 /\ f + SizeAt(f) <= PACKET_MEMORY_SIZE
    /\ \A f, g \in Firsts : f # g => f + SizeAt(f) <= g \/ g + SizeAt(g) <= f
BY SMT DEF Firsts, SizeAt, PACKET_MEMORY_SIZE

\* The entry of BTABLE for each place.
LEMMA EntriesAt ==
    /\ EntryAt(64) = <<0, 0>> /\ EntryAt(80) = <<0, 1>> /\ EntryAt(96) = <<Out, 1>>
    /\ EntryAt(160) = <<Out, 0>> /\ EntryAt(224) = <<In, 0>> /\ EntryAt(288) = <<In, 1>>
    /\ EntryAt(352) = <<Comm, 0>>
BY SMT DEF EntryAt

\* Every buffer in use has one of these places.
LEMMA BufferPlaces ==
    ASSUME Layout, NEW b \in BuffersInUse
    PROVE  \E f \in Firsts : /\ b = [at |-> EntryAt(f), size |-> SizeAt(f)]
                             /\ memory.btable[b.at].addr = f
<1> DEFINE Found == \E f \in Firsts : /\ b = [at |-> EntryAt(f), size |-> SizeAt(f)]
                                      /\ memory.btable[b.at].addr = f
<1>1. DOMAIN memory.btable = Entries
  BY Zenon DEF Layout, Shapes, IsMemory
<1>2. b = [at |-> b.at, size |-> b.size]
  BY DEF BuffersInUse
<1>3. ASSUME NEW f \in Firsts, Place(b, EntryAt(f), f, SizeAt(f)) PROVE Found
  BY <1>2, <1>3 DEF Place
<1>4. ASSUME NEW c \in Entries, endpoint[c[1]].tx # "disabled",
             c[2] = qsb_offset_tx \/ endpoint[c[1]].dbl_buf,
             b = [at |-> c, size |-> SentSize(c[1])]
      PROVE  Found
  <2>1. \/ Place(b, <<0, 0>>, 64, 16)
        \/ Place(b, <<In, 0>>, 224, 64) \/ Place(b, <<In, 1>>, 288, 64)
        \/ Place(b, <<Comm, 0>>, 352, 16)
    BY <1>4, SentBuffers
  <2>2. /\ 64 \in Firsts /\ SizeAt(64) = 16 /\ 224 \in Firsts /\ SizeAt(224) = 64
        /\ 288 \in Firsts /\ SizeAt(288) = 64 /\ 352 \in Firsts /\ SizeAt(352) = 16
    BY DEF Firsts, SizeAt
  <2> QED BY <1>3, <2>1, <2>2, EntriesAt
<1>5. ASSUME NEW c \in Entries, endpoint[c[1]].rx # "disabled",
             c[2] = qsb_offset_rx \/ endpoint[c[1]].dbl_buf,
             b = [at |-> c, size |-> BlocksSize(memory.btable[c])]
      PROVE  Found
  <2>1. \/ Place(b, <<0, 1>>, 80, 16)
        \/ Place(b, <<Out, 1>>, 96, 64) \/ Place(b, <<Out, 0>>, 160, 64)
    BY <1>5, ReceivedBuffers
  <2>2. /\ 80 \in Firsts /\ SizeAt(80) = 16 /\ 96 \in Firsts /\ SizeAt(96) = 64
        /\ 160 \in Firsts /\ SizeAt(160) = 64
    BY DEF Firsts, SizeAt
  <2> QED BY <1>3, <2>1, <2>2, EntriesAt
<1> HIDE DEF Found
<1>6. Found
  BY <1>1, <1>4, <1>5 DEF BuffersInUse
<1> QED BY <1>6 DEF Found

\* BTABLE takes the first 64 bytes.
LEMMA TableFirst == \A x \in BufferDescriptorTable : x \in Nat /\ x < 64
<1> SUFFICES ASSUME NEW x \in BufferDescriptorTable PROVE x \in Nat /\ x < 64
  OBVIOUS
<1> DEFINE numbers == 0 .. QSB_NUM_ENDPOINTS - 1
           offsets == {0, 1}
           Taken(ep, offset) == DescriptorAddress(ep, offset) .. DescriptorAddress(ep, offset) + 3
<1>1. x \in UNION {Taken(ep, offset) : ep \in numbers, offset \in offsets}
  BY DEF BufferDescriptorTable
<1> HIDE DEF numbers, offsets, Taken
<1>2. PICK ep \in numbers, offset \in offsets : x \in Taken(ep, offset)
  BY <1>1
<1>3. ep \in 0 .. 7
  BY DEF QSB_NUM_ENDPOINTS, numbers
<1>4. DescriptorAddress(ep, offset) \in 0 .. 60
  BY <1>3 DEF offsets, DescriptorAddress
<1> QED BY <1>2, <1>4 DEF Taken

\* The second property follows from the layout.
LEMMA DisjointOfLayout == ASSUME Layout PROVE BuffersDisjoint
<1>1. ASSUME NEW b \in BuffersInUse
      PROVE  Memory(b) \subseteq (0 .. PACKET_MEMORY_SIZE - 1) \ BufferDescriptorTable
  <2>1. PICK f \in Firsts : /\ b = [at |-> EntryAt(f), size |-> SizeAt(f)]
                            /\ memory.btable[b.at].addr = f
    BY <1>1, BufferPlaces
  <2>2. Memory(b) = f .. f + SizeAt(f) - 1
    BY <2>1 DEF Memory
  <2>3. f \in Nat /\ SizeAt(f) \in Nat /\ f >= 64 /\ f + SizeAt(f) <= PACKET_MEMORY_SIZE
        /\ PACKET_MEMORY_SIZE \in Nat
    BY FirstsApart DEF PACKET_MEMORY_SIZE
  <2> QED BY <2>2, <2>3, TableFirst
<1>2. ASSUME NEW b \in BuffersInUse, NEW c \in BuffersInUse, b # c
      PROVE  Memory(b) \cap Memory(c) = {}
  <2>1. PICK f \in Firsts : /\ b = [at |-> EntryAt(f), size |-> SizeAt(f)]
                            /\ memory.btable[b.at].addr = f
    BY <1>2, BufferPlaces
  <2>2. PICK g \in Firsts : /\ c = [at |-> EntryAt(g), size |-> SizeAt(g)]
                            /\ memory.btable[c.at].addr = g
    BY <1>2, BufferPlaces
  <2>3. Memory(b) = f .. f + SizeAt(f) - 1 /\ Memory(c) = g .. g + SizeAt(g) - 1
    BY <2>1, <2>2 DEF Memory
  <2>4. f # g
    BY <1>2, <2>1, <2>2
  <2>5. /\ f \in Nat /\ SizeAt(f) \in Nat /\ g \in Nat /\ SizeAt(g) \in Nat
        /\ f + SizeAt(f) <= g \/ g + SizeAt(g) <= f
    BY <2>4, FirstsApart
  <2> QED BY <2>3, <2>5
<1> QED BY <1>1, <1>2 DEF BuffersDisjoint

----------------------------------------------------------------------------
(* Types. *)

\* What set_coding() leaves behind has its ranges.
LEMMA CodingTypes ==
    ASSUME CodingInv, Fields, is_enabled
    PROVE  /\ coding.tx_max_chunk_size \in 16 .. 256
           /\ coding.generator.brr \in 16 .. MaxDivider
           /\ coding.frame_bits \in 8 .. 9
<1> DEFINE format == coding.format
<1>1. PICK d \in Dividers(target, requested) :
         coding = Coding(Generator(target, requested, d), requested, format)
  BY SetCodingElements DEF CodingInv
<1>2. FormatAccepted(format)
  BY DEF Fields, Asked
<1> DEFINE g == Generator(target, requested, d)
<1>3. Outcome(target, requested, d, g)
  BY <1>1, GeneratorCases DEF CodingInv
<1> HIDE DEF format, g
<1>4. /\ coding.generator = g /\ coding.tx_max_chunk_size = Clamp(Quotient(g.rate, 10000), 16, 256)
      /\ coding.frame_bits = format.databits + (IF format.parity = "none" THEN 0 ELSE 1)
  BY <1>1 DEF Coding, g
<1>5. coding.frame_bits \in 8 .. 9
  BY <1>2, <1>4 DEF FormatAccepted
<1>6. g.brr \in 16 .. MaxDivider /\ g.rate \in Int
  <2>1. requested \in Int /\ target \in Targets /\ MaxDivider \in Nat /\ MaxDivider > 1000
    BY MaxDividerFacts DEF CodingInv
  <2>2. CASE d > MaxDivider /\ g = Slowest(target)
    BY <2>1, <2>2, EndRates DEF Slowest, Targets
  <2>3. CASE d \in 16 .. MaxDivider /\ g = Divided(requested, d, FALSE)
    BY <2>1, <2>3 DEF Divided
  <2>4. CASE d \in 8 .. 15 /\ g = Divided(requested, 16 + (d % 8), TRUE)
    <3>1. g.rate = requested /\ g.brr = 16 + (d % 8)
      BY <2>4 DEF Divided
    <3>2. d \in Nat
      BY <2>4
    <3>3. 16 + (d % 8) \in 16 .. 23
      BY <3>2, SMT
    <3>4. g.brr \in 16 .. MaxDivider
      BY <2>1, <3>1, <3>3, SMT
    <3> QED BY <2>1, <3>1, <3>4, Zenon
  <2>5. CASE g = Fastest(target)
    <3>1. g.brr = 16
      BY <2>5 DEF Fastest
    <3> QED BY <2>1, <2>5, <3>1, EndRates DEF Targets
  <2> QED BY <1>3, <2>2, <2>3, <2>4, <2>5 DEF Outcome
<1>7. Quotient(g.rate, 10000) \in Int
  BY <1>6 DEF Quotient
<1>8. Clamp(Quotient(g.rate, 10000), 16, 256) \in 16 .. 256
  BY <1>7 DEF Clamp
<1> QED BY <1>4, <1>5, <1>6, <1>8

\* The type invariant is the conjunction of the four.
LEMMA TypesOfInvariants ==
    ASSUME CodingInv, Fields, Layout, ReplyInv
    PROVE  TypeOK
<1>1. /\ ~is_enabled \/ coding.tx_max_chunk_size \in 16 .. 256
      /\ ~is_enabled \/ coding.generator.brr \in 16 .. MaxDivider
      /\ ~is_enabled \/ coding.frame_bits \in 8 .. 9
  BY CodingTypes
<1>2. /\ endpoint \in [EndpointNumbers -> States]
      /\ ep_callbacks \subseteq {DATA_OUT_1, DATA_IN_1, COMM_IN_1}
  BY DEF Layout, Shapes
<1>3. memory.pm_top \in PM_TOP_INIT .. PACKET_MEMORY_SIZE
  BY DEF Layout, AllDefault, Reset, Configured, PM_TOP_INIT, QSB_NUM_ENDPOINTS, PACKET_MEMORY_SIZE
<1> QED BY <1>1, <1>2, <1>3 DEF TypeOK, Fields, ConfigFields, BooleanFields, Asked, ReplyInv, States

----------------------------------------------------------------------------
(* The theorems. *)

\* Every variable has its type: the divider fits BRR and is one the USART can use, the
\* chunks of the transmitter are neither empty nor longer than intended
\* (uart_impl::set_coding(), set_baudrate()), the packet memory ends where it ends.
THEOREM TypeCorrect == Spec => []TypeOK
BY CodingInvariant, FieldsInvariant, LayoutInvariant, ReplyInvariant, TypesOfInvariants, PTL

\* Whatever resets and requests came before, the endpoints of a configured device are
\* those the configuration descriptor announces (qsb_dev_ep_setup(),
\* usb_serial_impl::on_usb_configured()).
THEOREM EndpointsAsAdvertisedHolds == Spec => []EndpointsAsAdvertised
BY LayoutInvariant, AdvertisedOfLayout, PTL

\* However often the bus is reset and the device configured, the buffers in use lie in
\* the packet memory and do not overlap (qsb_internal_ep_reset(), the bus reset).
THEOREM BuffersDisjointHolds == Spec => []BuffersDisjoint
BY LayoutInvariant, DisjointOfLayout, PTL

\* A reply to a request for the configuration descriptor that is not shorter than it is
\* the descriptor, whatever length is asked for, and in every state.
RepliesWhole ==
    /\ reply.request = ConfigRequest
    /\ Len(reply.data) >= Len(BuildConfigDescriptor)
    => reply.data = BuildConfigDescriptor

\* What the host makes of the configuration descriptor does not depend on when and how
\* it asks for it (get_descriptor()).
THEOREM RepliesWholeHolds == Spec => []RepliesWhole
<1>1. ReplyInv => RepliesWhole
  <2> SUFFICES ASSUME ReplyInv, reply.request = ConfigRequest,
                      Len(reply.data) >= Len(BuildConfigDescriptor)
               PROVE  reply.data = BuildConfigDescriptor
    BY DEF RepliesWhole
  <2>1. PICK len \in Lengths : reply.data = FirstBytes(BuildConfigDescriptor, len)
    BY DEF ReplyInv
  <2>2. len \in Nat
    BY DeviceAssumption
  <2> QED BY <2>1, <2>2, ConfigBytes, FirstBytesShort
<1> QED BY <1>1, ReplyInvariant, PTL

\* A host can read the descriptors of every reply that has room for them by their lengths
\* and counts, and what they refer to exists (build_config_descriptor(), usb_conf.cpp).
THEOREM ConfigDescriptorParsesHolds == Spec => []ConfigDescriptorParses
<1>1. RepliesWhole => ConfigDescriptorParses
  <2>1. (reply.request = ConfigRequest /\ Len(reply.data) >= Len(BuildConfigDescriptor)
            => Parses(reply.data)) => ConfigDescriptorParses
    BY Zenon DEF ConfigRequest, ConfigDescriptorParses, Parses
  <2>2. RepliesWhole /\ reply.request = ConfigRequest
        /\ Len(reply.data) >= Len(BuildConfigDescriptor) => Parses(reply.data)
    <3>1. Parses(BuildConfigDescriptor)
      BY DescriptorParses
    <3> QED BY <3>1, Zenon DEF RepliesWhole
  <2> QED BY <2>1, <2>2, Zenon
<1> QED BY <1>1, RepliesWholeHolds, PTL
=============================================================================
