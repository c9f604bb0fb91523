---------------------------- MODULE MCAsyncQueue ----------------------------
(* Instances of AsyncQueue for TLC. *)
EXTENDS AsyncQueue

CONSTANTS v1, v2, v3, v4, c1, c2, c3

FourValues == {v1, v2, v3, v4}
ThreeConsumers == {c1, c2, c3}
=============================================================================
