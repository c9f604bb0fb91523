-------------------------------- MODULE App ---------------------------------
(***************************************************************************)
(* The loops of the running program on their shared io_context: for each   *)
(* inbound TcpListener::mainWork_ (src/listeners/tcp.cpp), which accepts,  *)
(* MixedInbound::mainWork_, which spawns a handshake for each connection,  *)
(* and App::inboundWork_ (src/common/app.cpp), which spawns a session for  *)
(* each request.  They are joined by two AsyncQueues, here sequences: the  *)
(* queue implements Channel.  All clients share the descriptors of the     *)
(* process.  The handshake is detailed in MixedInbound, the session in     *)
(* Session and TcpClient, its end in Relay.                                *)
(***************************************************************************)
EXTENDS Naturals, Sequences, FiniteSetsExt

CONSTANTS Clients, Inbounds,
          InboundOf,  \* InboundOf[c]: the inbound c dials
          MaxSockets, \* how many sockets of clients and sessions the process may hold
          MaxOpened   \* bound on the sockets of one session

ASSUME InboundAssumption == InboundOf \in [Clients -> Inbounds]
ASSUME OpenedAssumption == MaxOpened \in Nat

VARIABLES listener,  \* listener[i]: the accept loop: starting, accepting, or how it ended
          backlog,   \* backlog[i]: what the kernel has connected and nobody accepted yet
          accepted,  \* accepted[i]: Listener::sessions_
          sessions_, \* sessions_[i]: Inbound::sessions_
          stage,     \* stage[c]: where the connection of c and its coroutine are
          opened,    \* opened[c]: how many sockets the session of c holds for its server
          left       \* left[c]: the client has closed its side

vars == <<listener, backlog, accepted, sessions_, stage, opened, left>>
queues == <<backlog, accepted, sessions_>>

Init == /\ listener = [i \in Inbounds |-> "starting"]
        /\ backlog = [i \in Inbounds |-> <<>>]
        /\ accepted = [i \in Inbounds |-> <<>>]
        /\ sessions_ = [i \in Inbounds |-> <<>>]
        /\ stage = [c \in Clients |-> "away"]
        /\ opened = [c \in Clients |-> 0]
        /\ left = [c \in Clients |-> FALSE]

Moves(c, from, to) == stage[c] = from /\ stage' = [stage EXCEPT ![c] = to]

(* The sockets in use: a client's from accept to the end of its coroutines *)
(* and those its session has opened.  The lookups of DNS clients take some *)
(* more, so that an accept may fail below the limit.                       *)
InUse == Cardinality({c \in Clients : stage[c] \notin {"away", "dialled", "ended"}})
           + MapThenSumSet(LAMBDA c : opened[c], Clients)

-----------------------------------------------------------------------------
(* The acceptor is opened and bound, or that throws. *)
Bind(i) == /\ listener[i] = "starting"
           /\ \E how \in {"yes", "unbound"} : listener' = [listener EXCEPT ![i] = how]
           /\ UNCHANGED <<queues, stage, opened, left>>

(* The kernel completes a client's connect, also after the loop has ended: *)
(* the acceptor stays open.                                                *)
Dial(c) == LET i == InboundOf[c] IN
  /\ listener[i] \in {"yes", "deaf"}
  /\ Moves(c, "away", "dialled")
  /\ backlog' = [backlog EXCEPT ![i] = Append(@, c)]
  /\ UNCHANGED <<listener, accepted, sessions_, opened, left>>

Leave(c) == /\ stage[c] # "away" /\ ~left[c]
            /\ left' = [left EXCEPT ![c] = TRUE]
            /\ UNCHANGED <<listener, queues, stage, opened>>

(* Mutant: the connection is accepted again. *)
AcceptTwice(i) ==
  /\ listener[i] = "yes" /\ backlog[i] # <<>> /\ InUse < MaxSockets
  /\ Moves(Head(backlog[i]), "dialled", "accepted")
  /\ accepted' = [accepted EXCEPT ![i] = @ \o <<Head(backlog[i]), Head(backlog[i])>>]
  /\ backlog' = [backlog EXCEPT ![i] = Tail(@)]
  /\ UNCHANGED <<listener, sessions_, opened, left>>

(* async_accept completes, and the connection is put. *)
Accept(i) == /\ listener[i] = "yes" /\ backlog[i] # <<>> /\ InUse < MaxSockets
             /\ Moves(Head(backlog[i]), "dialled", "accepted")
             /\ accepted' = [accepted EXCEPT ![i] = Append(@, Head(backlog[i]))]
             /\ backlog' = [backlog EXCEPT ![i] = Tail(@)]
             /\ UNCHANGED <<listener, sessions_, opened, left>>

(* Any error of accept throws, and the exception ends the loop: there is   *)
(* no descriptor for the connection, or whatever else the system reports.  *)
AcceptFails(i) == /\ listener[i] = "yes"
                  /\ listener' = [listener EXCEPT ![i] = "deaf"]
                  /\ UNCHANGED <<queues, stage, opened, left>>

mainWork_(i) == Bind(i) \/ Accept(i) \/ AcceptFails(i)

-----------------------------------------------------------------------------
(* MixedInbound::mainWork_ spawns handle_. *)
Greet(i) == /\ accepted[i] # <<>>
            /\ Moves(Head(accepted[i]), "accepted", "handshake")
            /\ accepted' = [accepted EXCEPT ![i] = Tail(@)]
            /\ UNCHANGED <<listener, backlog, sessions_, opened, left>>

(* handle_ has read the request, and puts a session; or it throws.         *)
Ask(c) == /\ Moves(c, "handshake", "asked")
          /\ sessions_' = [sessions_ EXCEPT ![InboundOf[c]] = Append(@, c)]
          /\ UNCHANGED <<listener, backlog, accepted, opened, left>>
GiveUp(c) == Moves(c, "handshake", "ended") /\ UNCHANGED <<listener, queues, opened, left>>

(* Mutant: inboundWork_ awaits the session. *)
inboundWorkAwaits_(i) ==
  /\ sessions_[i] # <<>>
  /\ \A c \in Clients : InboundOf[c] = i => stage[c] \notin {"connecting", "relayed"}
  /\ Moves(Head(sessions_[i]), "asked", "connecting")
  /\ sessions_' = [sessions_ EXCEPT ![i] = Tail(@)]
  /\ UNCHANGED <<listener, backlog, accepted, opened, left>>

(* App::inboundWork_ spawns handleSession_. *)
inboundWork_(i) == /\ sessions_[i] # <<>>
                   /\ Moves(Head(sessions_[i]), "asked", "connecting")
                   /\ sessions_' = [sessions_ EXCEPT ![i] = Tail(@)]
                   /\ UNCHANGED <<listener, backlog, accepted, opened, left>>

(* handleSession_ in connect: a lookup, and then each attempt to connect,  *)
(* takes a socket.  It is closed when the lookup or the attempt is over,   *)
(* which may be long after the session; the connection the session relays  *)
(* stays.                                                                  *)
OpenSocket(c) == /\ stage[c] = "connecting" /\ opened[c] < MaxOpened /\ InUse < MaxSockets
                 /\ opened' = [opened EXCEPT ![c] = @ + 1]
                 /\ UNCHANGED <<listener, queues, stage, left>>
CloseSocket(c) == /\ opened[c] > (IF stage[c] = "relayed" THEN 1 ELSE 0)
                  /\ opened' = [opened EXCEPT ![c] = @ - 1]
                  /\ UNCHANGED <<listener, queues, stage, left>>

(* The server is reached over one of the sockets; connect throws, or never *)
(* returns; the relay ends.                                                *)
Reach(c) == /\ opened[c] > 0
            /\ Moves(c, "connecting", "relayed")
            /\ UNCHANGED <<listener, queues, opened, left>>
EndSession(c) == /\ Moves(c, "connecting", "ended") \/ Moves(c, "relayed", "ended")
                 /\ UNCHANGED <<listener, queues, opened, left>>

Next == \/ \E i \in Inbounds : mainWork_(i) \/ Greet(i) \/ inboundWork_(i)
        \/ \E c \in Clients : \/ Dial(c) \/ Leave(c)
                              \/ Ask(c) \/ GiveUp(c) \/ Reach(c) \/ EndSession(c)
                              \/ OpenSocket(c) \/ CloseSocket(c)

Spec == Init /\ [][Next]_vars

(* The io_context runs what is ready, and an accept completes, with a      *)
(* connection or an error, when a client waits for it; without one it need *)
(* not fail.  No client is assumed to go on with its handshake, no connect *)
(* to return and no relay to end.                                          *)
FairSpec == /\ Spec
            /\ \A i \in Inbounds : /\ WF_vars(Bind(i))
                                   /\ WF_vars(backlog[i] # <<>> /\ (Accept(i) \/ AcceptFails(i)))
                                   /\ WF_vars(Greet(i)) /\ WF_vars(inboundWork_(i))
            /\ \A c \in Clients : WF_vars(left[c] /\ GiveUp(c))

-----------------------------------------------------------------------------
TypeOK ==
  /\ listener \in [Inbounds -> {"starting", "yes", "unbound", "deaf"}]
  /\ backlog \in [Inbounds -> Seq(Clients)]
  /\ accepted \in [Inbounds -> Seq(Clients)]
  /\ sessions_ \in [Inbounds -> Seq(Clients)]
  /\ stage \in [Clients -> {"away", "dialled", "accepted", "handshake", "asked", "connecting",
                            "relayed", "ended"}]
  /\ opened \in [Clients -> 0 .. MaxOpened]
  /\ left \in [Clients -> BOOLEAN]

(* queue holds exactly the clients of its inbound that are at `at`, once.  *)
Holds(queue, at) ==
  /\ \A i \in Inbounds : \A k \in 1 .. Len(queue[i]) :
       /\ InboundOf[queue[i][k]] = i /\ stage[queue[i][k]] = at
       /\ \A m \in 1 .. Len(queue[i]) : queue[i][m] = queue[i][k] => m = k
  /\ \A c \in Clients :
       stage[c] = at => \E k \in 1 .. Len(queue[InboundOf[c]]) : queue[InboundOf[c]][k] = c

(* A connection has one owner at a time, a queue of its own inbound or one *)
(* coroutine: none is dropped, doubled, or passed to another inbound on    *)
(* its way through the two queues, whoever fails or leaves in between.     *)
OneOwner ==
  Holds(backlog, "dialled") /\ Holds(accepted, "accepted") /\ Holds(sessions_, "asked")

(* The loops serve every client as if it were alone: what one client does  *)
(* or fails to do, in its handshake, connect or relay, keeps no other from *)
(* being admitted, greeted and connected; when a listener ends, for want   *)
(* of descriptors or otherwise, those already admitted go on.              *)
AsIfAlone == INSTANCE Visits WITH listening <- listener
EachAsIfAlone == AsIfAlone!Spec
=============================================================================
