------------------------------ MODULE MCClient ------------------------------
(* A finite instance of Client, with the messages of MCWire. *)
EXTENDS Client, MCWire
=============================================================================
