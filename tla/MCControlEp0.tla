---------------------------- MODULE MCControlEp0 ----------------------------
(* Packets of two bytes; requests and replies of zero to five bytes, so that *)
(* a reply takes up to three packets and may end with a full one; a control  *)
(* buffer of four bytes, which the longest request exceeds.                  *)
EXTENDS ControlEp0

MCLengths == {0, 1, 2, 4, 5}
=============================================================================
