----------------------------- MODULE MCHashTable -----------------------------
(* Two put and two get threads over three (possibly equal) keys. *)
EXTENDS HashTable
MCKeySpace == 0 .. 2
=============================================================================
