----------------------------- MODULE MCHandshake -----------------------------
(* An even and an odd byte, one that wraps around, and one above 255; two rounds. *)
EXTENDS Handshake
MCArgs == {<<7, 2>>, <<254, 2>>, <<300, 2>>}
=============================================================================
