----------------------------- MODULE MCExamples -----------------------------
(* A finite instance of Examples. *)
EXTENDS Examples

(* move_test is the program that watches a motion begin and end: there a stale
   datagram can be overtaken by a later one. *)
MCMaxFlight == [p \in Programs |-> IF p = "move_test" THEN 2 ELSE 1]
=============================================================================
