------------------------------ MODULE BytePipe ------------------------------
(***************************************************************************)
(* What the adapter promises to the two ends it connects, in either        *)
(* direction: a bounded, lossless, ordered pipe.  The sender may only send *)
(* what the pipe has room for (flow control), and every byte sent comes    *)
(* out at the other end, in order and once.                                *)
(***************************************************************************)
EXTENDS Integers, Sequences

CONSTANTS Capacity,     \* bytes on their way
          MaxBlock,     \* bytes put in, or taken out, at once
          MaxSent       \* bound: bytes put in

VARIABLES sent,         \* number of bytes put in; the k-th one is k-1
          out           \* the bytes that came out

Init == sent = 0 /\ out = <<>>

Send == \E n \in 1 .. MaxBlock :
            /\ sent + n - Len(out) <= Capacity
            /\ sent + n <= MaxSent
            /\ sent' = sent + n
            /\ UNCHANGED out

Deliver == \E n \in 1 .. MaxBlock :
            /\ Len(out) + n <= sent
            /\ out' = [i \in 1 .. Len(out) + n |-> i - 1]
            /\ UNCHANGED sent

Next == Send \/ Deliver

Spec == Init /\ [][Next]_<<sent, out>> /\ WF_<<sent, out>>(Deliver)
=============================================================================
