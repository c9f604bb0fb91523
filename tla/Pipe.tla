-------------------------------- MODULE Pipe --------------------------------
(***************************************************************************)
(* What relay() promises for one direction: the receiver sees a prefix of  *)
(* what the sender sent, in order, each chunk once.                        *)
(***************************************************************************)
EXTENDS Sequences, Naturals

CONSTANT Chunks

VARIABLES sent, received

vars == <<sent, received>>

Init == sent = <<>> /\ received = <<>>

Send(v) == sent' = Append(sent, v) /\ UNCHANGED received

Receive == /\ Len(received) < Len(sent)
           /\ received' = Append(received, sent[Len(received) + 1])
           /\ UNCHANGED sent

Next == (\E v \in Chunks : Send(v)) \/ Receive

Spec == Init /\ [][Next]_vars
=============================================================================
