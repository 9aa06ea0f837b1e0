---------------------------- MODULE PacketMemory ----------------------------
(***************************************************************************)
(* The packet memory of the USB peripheral and the buffer descriptor table *)
(* (BTABLE) at its start: how qsb_drv_fsdev_btable_2.c (STM32F0) and       *)
(* qsb_drv_fsdev_btable_4.c (STM32F1) lay out buffers and copy packets,    *)
(* which they do in half words.                                            *)
(* Addresses are the peripheral's; the F1's processor sees them doubled.   *)
(***************************************************************************)
EXTENDS Naturals, Sequences

PACKET_MEMORY_SIZE == 512
QSB_NUM_ENDPOINTS == 8

\* Each entry of BTABLE is an address and a count, of 2 bytes each; an endpoint
\* has two entries.
PM_TOP_INIT == QSB_NUM_ENDPOINTS * 8

\* The two entries of an endpoint, by what a buffer is for.
qsb_offset_tx == 0
qsb_offset_db0 == 0
qsb_offset_rx == 1
qsb_offset_db1 == 1

\* Where get_buf_desc() finds an entry, for the peripheral, and all entries.
DescriptorAddress(ep, offset) == 8 * ep + 4 * offset
BufferDescriptorTable ==
    UNION {DescriptorAddress(ep, offset) .. DescriptorAddress(ep, offset) + 3
            : ep \in 0 .. QSB_NUM_ENDPOINTS - 1, offset \in {0, 1}}

NoBuffer == [addr |-> 0, bl_size |-> 0, num_block |-> 0, count |-> 0]

\* A packet memory before any buffer has been set up.
InitialMemory ==
    [pm_top |-> PM_TOP_INIT, btable |-> [e \in (0 .. QSB_NUM_ENDPOINTS - 1) \X {0, 1} |-> NoBuffer]]

----------------------------------------------------------------------------
\* The size of a receive buffer, in blocks of 32 bytes (num_block + 1 of them)
\* or of 2 bytes.
RxBlocks(size) ==
    IF size > 62 THEN [bl_size |-> 1, num_block |-> ((size - 1) \div 32) % 32]
                 ELSE [bl_size |-> 0, num_block |-> (size + 1) \div 2]

\* eff_size, which is also what the peripheral takes it for.
BlocksSize(blocks) ==
    IF blocks.bl_size = 1 THEN (blocks.num_block + 1) * 32 ELSE blocks.num_block * 2

\* qsb_fsdev_setup_buf_rx()
SetupBufRx(memory, ep, offset, size) ==
    LET blocks == RxBlocks(size)
    IN  [pm_top |-> memory.pm_top + BlocksSize(blocks),
         btable |-> [memory.btable EXCEPT ![<<ep, offset>>] =
            [addr |-> memory.pm_top, bl_size |-> blocks.bl_size,
             num_block |-> blocks.num_block, count |-> 0]]]

\* qsb_fsdev_setup_buf_tx(): writing the count clears the fields of its register.
SetupBufTx(memory, ep, offset, size) ==
    [pm_top |-> memory.pm_top + size,
     btable |-> [memory.btable EXCEPT ![<<ep, offset>>] =
        [addr |-> memory.pm_top, bl_size |-> 0, num_block |-> 0, count |-> 0]]]

----------------------------------------------------------------------------
(* A packet in a buffer: the half words <<low, high>> of the buffer, as long *)
(* as it is, and the count in BTABLE.                                        *)

imin(a, b) == IF a <= b THEN a ELSE b

\* A buffer with the half words of the bytes at its start; an odd byte at the
\* end is written together with the one given.
WriteBytes(buffer, bytes, last) ==
    LET half(i) == <<bytes[2 * i - 1], IF 2 * i <= Len(bytes) THEN bytes[2 * i] ELSE last>>
    IN  [count |-> Len(bytes),
         words |-> [i \in DOMAIN buffer.words |->
            IF 2 * i <= Len(bytes) + 1 THEN half(i) ELSE buffer.words[i]]]

\* qsb_fsdev_copy_to_pma()
CopyToPma(buffer, bytes) == WriteBytes(buffer, bytes, 0)

\* Mutant: the odd byte at the end is forgotten.
CopyFromPmaEven(buffer, len) ==
    [i \in 1 .. 2 * (imin(len, buffer.count) \div 2) |->
        buffer.words[(i + 1) \div 2][IF i % 2 = 1 THEN 1 ELSE 2]]

\* qsb_fsdev_copy_from_pma()
CopyFromPma(buffer, len) ==
    [i \in 1 .. imin(len, buffer.count) |->
        buffer.words[(i + 1) \div 2][IF i % 2 = 1 THEN 1 ELSE 2]]
=============================================================================
