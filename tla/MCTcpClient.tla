---------------------------- MODULE MCTcpClient -----------------------------
(* Instances of TcpClient for TLC. *)
EXTENDS TcpClient

CONSTANTS a1, a2, a3

ThreeAttempts == {a1, a2, a3}
=============================================================================
