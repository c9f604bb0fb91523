------------------------------- MODULE Visits -------------------------------
(***************************************************************************)
(* What the proxy promises its clients: every visit takes its own course,  *)
(* as if the others were not there, as long as its inbound listens.  An    *)
(* inbound may stop listening; that ends no visit.                         *)
(***************************************************************************)
CONSTANTS Clients, Inbounds, InboundOf

VARIABLES listening, \* listening[i]: "starting", "yes", "unbound" or "deaf"
          stage,     \* stage[c]: how far the visit of c has come
          left       \* left[c]: the client has gone

vars == <<listening, stage, left>>

Init == /\ listening = [i \in Inbounds |-> "starting"]
        /\ stage = [c \in Clients |-> "away"]
        /\ left = [c \in Clients |-> FALSE]

Moves(c, from, to) == /\ stage[c] = from
                      /\ stage' = [stage EXCEPT ![c] = to]
                      /\ UNCHANGED <<listening, left>>

(* What the inbound does, what the client does, and what the proxy does.   *)
Listens(i) == /\ \/ listening[i] = "starting" /\ listening' = [listening EXCEPT ![i] = "yes"]
                 \/ listening[i] = "starting" /\ listening' = [listening EXCEPT ![i] = "unbound"]
                 \/ listening[i] = "yes" /\ listening' = [listening EXCEPT ![i] = "deaf"]
              /\ UNCHANGED <<stage, left>>

Dial(c) == listening[InboundOf[c]] \in {"yes", "deaf"} /\ Moves(c, "away", "dialled")
Ask(c) == Moves(c, "handshake", "asked")
Leave(c) == /\ stage[c] # "away" /\ ~left[c]
            /\ left' = [left EXCEPT ![c] = TRUE]
            /\ UNCHANGED <<listening, stage>>

Admit(c) == listening[InboundOf[c]] = "yes" /\ Moves(c, "dialled", "accepted")
Greet(c) == Moves(c, "accepted", "handshake")
Start(c) == Moves(c, "asked", "connecting")
Reach(c) == Moves(c, "connecting", "relayed")
End(c) == \E from \in {"handshake", "connecting", "relayed"} : Moves(c, from, "ended")

Next == \/ \E i \in Inbounds : Listens(i)
        \/ \E c \in Clients : \/ Dial(c) \/ Ask(c) \/ Leave(c)
                              \/ Admit(c) \/ Greet(c) \/ Start(c) \/ Reach(c) \/ End(c)

Safety == Init /\ [][Next]_vars

(* A client is admitted, greeted and connected without waiting for another *)
(* client, and one that leaves during its handshake is released.           *)
Spec == /\ Safety
        /\ \A c \in Clients : /\ WF_vars(Admit(c)) /\ WF_vars(Greet(c)) /\ WF_vars(Start(c))
                              /\ WF_vars(left[c] /\ Moves(c, "handshake", "ended"))
=============================================================================
