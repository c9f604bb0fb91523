------------------------------ MODULE Channel ------------------------------
(***************************************************************************)
(* What AsyncQueue<T> promises to its users: values come out in the order  *)
(* in which they were put in, each of them to exactly one consumer, none   *)
(* lost and none invented.  The channel knows nothing of waiters, timers   *)
(* or coroutines.                                                          *)
(***************************************************************************)
EXTENDS Sequences, Naturals

CONSTANTS Values,     \* what is sent (listener sockets, inbound sessions, datagrams)
          Consumers   \* the coroutines that take values out

VARIABLES sent,       \* every value sent so far, in order
          delivered,  \* the values already assigned to a consumer, in order
          inbox       \* inbox[c]: the values assigned to consumer c, in order

vars == <<sent, delivered, inbox>>

Init == /\ sent = <<>>
        /\ delivered = <<>>
        /\ inbox = [c \in Consumers |-> <<>>]

Assign(c, v) == /\ delivered' = Append(delivered, v)
                /\ inbox' = [inbox EXCEPT ![c] = Append(@, v)]

(* A value enters the channel and stays there. *)
Send(v) == /\ sent' = Append(sent, v)
           /\ UNCHANGED <<delivered, inbox>>

(* The oldest value in the channel goes to consumer c. *)
Deliver(c) == /\ Len(delivered) < Len(sent)
              /\ Assign(c, sent[Len(delivered) + 1])
              /\ UNCHANGED sent

(* The channel is empty, and a new value goes straight to consumer c. *)
SendTo(v, c) == /\ delivered = sent
                /\ sent' = Append(sent, v)
                /\ Assign(c, v)

Next == \/ \E v \in Values : Send(v)
        \/ \E c \in Consumers : Deliver(c)
        \/ \E v \in Values, c \in Consumers : SendTo(v, c)

Spec == Init /\ [][Next]_vars
=============================================================================
