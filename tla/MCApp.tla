------------------------------- MODULE MCApp --------------------------------
(* An instance of App for TLC: two clients at one inbound, one at another. *)
EXTENDS App

CONSTANTS c1, c2, c3, i1, i2

MCInboundOf == [c \in {c1, c2, c3} |-> IF c = c3 THEN i2 ELSE i1]
=============================================================================
