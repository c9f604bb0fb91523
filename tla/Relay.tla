------------------------------- MODULE Relay --------------------------------
(***************************************************************************)
(* relay() of src/connections/relay.cpp between two TcpConnections         *)
(* (src/connections/tcp.cpp): two forward() coroutines, one per direction, *)
(* and the coroutine of relay(), which sleeps on a timer the first forward *)
(* to end cancels.  The three frames share the connections; the sockets    *)
(* are closed when the last frame ends, and by nothing else.  Neither      *)
(* connection is ever half-closed by the proxy.                            *)
(***************************************************************************)
EXTENDS Sequences, Naturals

CONSTANTS Chunks,     \* what one read returns: at most 4096 bytes
          MaxChunks,  \* bound: the chunks a peer sends
          Window      \* the chunks a socket accepts before its peer reads

ASSUME WindowAssumption == Window \in Nat \ {0} /\ MaxChunks \in Nat

Sides == {"conn1", "conn2"}
other(s) == IF s = "conn1" THEN "conn2" ELSE "conn1"

VARIABLES peer,     \* peer[s]: the far end of connection s
          sent,     \* history: sent[s] is what peer s has sent
          inbox,    \* inbox[s]: received by the socket of s, not yet read
          outbox,   \* outbox[s]: written to the socket of s, not yet read by the peer
          recvd,    \* history: recvd[s] is what peer s has read
          forward,  \* forward[s]: the coroutine that reads s and writes other(s)
          data,     \* data[s]: its buffer, a sequence of at most one chunk
          timer,    \* the steady_timer of relay()
          relayer,  \* the coroutine of relay() and of the session above it
          open      \* the two connections exist

vars == <<peer, sent, inbox, outbox, recvd, forward, data, timer, relayer, open>>
env == <<peer, sent, recvd>>

(* relay() spawns both directions, each starts its first read, and the     *)
(* caller starts its wait, all before any completion runs.                 *)
Init == /\ peer = [s \in Sides |-> "open"]
        /\ sent = [s \in Sides |-> <<>>]
        /\ inbox = [s \in Sides |-> <<>>]
        /\ outbox = [s \in Sides |-> <<>>]
        /\ recvd = [s \in Sides |-> <<>>]
        /\ forward = [s \in Sides |-> "reading"]
        /\ data = [s \in Sides |-> <<>>]
        /\ timer = "waiting"
        /\ relayer = "waiting"
        /\ open = TRUE

-----------------------------------------------------------------------------
(* The peers: client and server may send, shut their sending side, close,  *)
(* or reset, at any time; a reset may destroy what was not yet read.       *)
PeerSends(s, v) == /\ open /\ peer[s] = "open" /\ Len(sent[s]) < MaxChunks
                   /\ sent' = [sent EXCEPT ![s] = Append(@, v)]
                   /\ inbox' = [inbox EXCEPT ![s] = Append(@, v)]
                   /\ UNCHANGED <<peer, outbox, recvd, forward, data, timer, relayer, open>>

PeerShuts(s) == /\ peer[s] = "open"
                /\ peer' = [peer EXCEPT ![s] = "shut"]
                /\ UNCHANGED <<sent, inbox, outbox, recvd, forward, data, timer, relayer, open>>

PeerCloses(s) == /\ peer[s] \in {"open", "shut"}
                 /\ peer' = [peer EXCEPT ![s] = "closed"]
                 /\ UNCHANGED <<sent, inbox, outbox, recvd, forward, data, timer, relayer, open>>

PeerResets(s) == /\ peer[s] # "reset"
                 /\ peer' = [peer EXCEPT ![s] = "reset"]
                 /\ inbox' \in {inbox, [inbox EXCEPT ![s] = <<>>]}
                 /\ UNCHANGED <<sent, outbox, recvd, forward, data, timer, relayer, open>>

PeerReads(s) == /\ peer[s] \in {"open", "shut"}
                /\ outbox[s] # <<>>
                /\ recvd' = [recvd EXCEPT ![s] = Append(@, Head(outbox[s]))]
                /\ outbox' = [outbox EXCEPT ![s] = Tail(@)]
                /\ UNCHANGED <<peer, sent, inbox, forward, data, timer, relayer, open>>

-----------------------------------------------------------------------------
(* co_await conn1->read(4096) returns data. *)
Read(s) == /\ forward[s] = "reading"
           /\ inbox[s] # <<>>
           /\ data' = [data EXCEPT ![s] = <<Head(inbox[s])>>]
           /\ inbox' = [inbox EXCEPT ![s] = Tail(@)]
           /\ forward' = [forward EXCEPT ![s] = "writing"]
           /\ UNCHANGED <<env, outbox, timer, relayer, open>>

(* Mutants: the chunk is written again and again; the write does not wait  *)
(* for the socket.                                                         *)
WriteTwice(s) == /\ forward[s] = "writing"
                 /\ peer[other(s)] # "reset"
                 /\ Len(outbox[other(s)]) < Window
                 /\ outbox' = [outbox EXCEPT ![other(s)] = @ \o data[s]]
                 /\ forward' \in {forward, [forward EXCEPT ![s] = "reading"]}
                 /\ UNCHANGED <<env, inbox, data, timer, relayer, open>>

WriteUnbounded(s) == /\ forward[s] = "writing"
                     /\ peer[other(s)] # "reset"
                     /\ outbox' = [outbox EXCEPT ![other(s)] = @ \o data[s]]
                     /\ data' = [data EXCEPT ![s] = <<>>]
                     /\ forward' = [forward EXCEPT ![s] = "reading"]
                     /\ UNCHANGED <<env, inbox, timer, relayer, open>>

(* co_await conn2->write(data) returns: the socket took it all.  A write   *)
(* to a peer that has closed may still be accepted.                        *)
Write(s) == /\ forward[s] = "writing"
            /\ peer[other(s)] # "reset"
            /\ Len(outbox[other(s)]) < Window
            /\ outbox' = [outbox EXCEPT ![other(s)] = @ \o data[s]]
            /\ data' = [data EXCEPT ![s] = <<>>]
            /\ forward' = [forward EXCEPT ![s] = "reading"]
            /\ UNCHANGED <<env, inbox, timer, relayer, open>>

(* The read ends with end-of-file or an error; the write ends with one. *)
ReadFails(s) == forward[s] = "reading" /\ inbox[s] = <<>> /\ peer[s] # "open"
WriteFails(s) == forward[s] = "writing" /\ peer[other(s)] \in {"closed", "reset"}

(* A frame ends; the last one destroys the connections.  Closing a socket  *)
(* that holds unread data resets it, and what its peer has not read may    *)
(* be lost.                                                                *)
Release ==
  /\ open' = (relayer' # "ended" \/ \E s \in Sides : forward'[s] # "ended")
  /\ IF open' THEN UNCHANGED outbox
     ELSE \E L \in SUBSET {s \in Sides : inbox[s] # <<>>} :
            outbox' = [s \in Sides |-> IF s \in L THEN <<>> ELSE outbox[s]]

(* Mutant: the timer is not cancelled. *)
EndForwardSilently(s) == /\ ReadFails(s) \/ WriteFails(s)
                         /\ forward' = [forward EXCEPT ![s] = "ended"]
                         /\ data' = [data EXCEPT ![s] = <<>>]
                         /\ UNCHANGED relayer
                         /\ Release
                         /\ UNCHANGED <<env, inbox, timer>>

(* The exception is logged, the timer cancelled (a no-op the second time), *)
(* and the coroutine ends.                                                 *)
EndForward(s) == /\ ReadFails(s) \/ WriteFails(s)
                 /\ forward' = [forward EXCEPT ![s] = "ended"]
                 /\ data' = [data EXCEPT ![s] = <<>>]
                 /\ timer' = IF timer = "waiting" THEN "cancelled" ELSE timer
                 /\ UNCHANGED relayer
                 /\ Release
                 /\ UNCHANGED <<env, inbox>>

(* Mutant: relay() closes both connections, which ends both directions. *)
EndRelayCloses == /\ relayer = "waiting" /\ timer = "cancelled"
                  /\ timer' = "idle"
                  /\ relayer' = "ended"
                  /\ forward' = [s \in Sides |-> "ended"]
                  /\ Release
                  /\ UNCHANGED <<env, inbox, data>>

(* The cancelled wait throws operation_aborted out of relay() and ends the *)
(* session that called it.                                                 *)
EndRelay == /\ relayer = "waiting" /\ timer = "cancelled"
            /\ timer' = "idle"
            /\ relayer' = "ended"
            /\ UNCHANGED forward
            /\ Release
            /\ UNCHANGED <<env, inbox, data>>

Proxy(s) == Read(s) \/ Write(s) \/ EndForward(s)

Next == \/ \E s \in Sides : \/ \E v \in Chunks : PeerSends(s, v)
                            \/ PeerShuts(s) \/ PeerCloses(s) \/ PeerResets(s)
                            \/ PeerReads(s)
                            \/ Proxy(s)
        \/ EndRelay

Spec == Init /\ [][Next]_vars

(* The io_context runs what is ready; a peer that still reads, reads on. *)
(* No peer is assumed to send, to finish or to close.                    *)
Fairness == /\ \A s \in Sides : WF_vars(Proxy(s)) /\ WF_vars(PeerReads(s))
            /\ WF_vars(EndRelay)

FairSpec == Spec /\ Fairness

-----------------------------------------------------------------------------
TypeOK ==
  /\ peer \in [Sides -> {"open", "shut", "closed", "reset"}]
  /\ sent \in [Sides -> Seq(Chunks)]
  /\ inbox \in [Sides -> Seq(Chunks)]
  /\ outbox \in [Sides -> Seq(Chunks)] /\ \A s \in Sides : Len(outbox[s]) <= Window
  /\ recvd \in [Sides -> Seq(Chunks)]
  /\ forward \in [Sides -> {"reading", "writing", "ended"}]
  /\ data \in [Sides -> Seq(Chunks)]
  /\ timer \in {"waiting", "cancelled", "idle"}
  /\ relayer \in {"waiting", "ended"}
  /\ open \in BOOLEAN

(* What has left inbox[s], in order: read by the far peer, waiting for it, *)
(* or in the coroutine's hands.                                            *)
Carried(s) == recvd[other(s)] \o outbox[other(s)] \o data[s]

(* While a direction runs and its source has not reset, every chunk sent   *)
(* is in exactly one place, in order: forward() drops, repeats and         *)
(* reorders nothing between its two suspension points.                     *)
NothingLost ==
  \A s \in Sides :
    forward[s] # "ended" /\ peer[s] # "reset" => sent[s] = Carried(s) \o inbox[s]

(* A direction ends for a cause of its own: its source has finished and    *)
(* was read to the end, or its destination has gone.  The end of the other *)
(* direction, or of the session, does not stop it.                         *)
EndsForCause ==
  \A s \in Sides :
    forward[s] = "ended" =>
      (peer[s] # "open" /\ inbox[s] = <<>>) \/ peer[other(s)] \in {"closed", "reset"}

(* Whatever ends first, the coroutines that still run have their           *)
(* connections: forward() holds shared_ptrs, relay() does not close.       *)
ConnectionsOutliveForwards ==
  (relayer # "ended" \/ \E s \in Sides : forward[s] # "ended") => open

(* The wait is cancelled once a direction has ended and not before, so a   *)
(* session is not torn down under two running directions.                  *)
TimerFollowsForwards ==
  timer = "waiting" <=> \A s \in Sides : forward[s] # "ended"

(* A chunk sent reaches the other peer, also after the sender's            *)
(* end-of-file and after the session above has ended, unless the sender    *)
(* reset, the receiver left, or the proxy's close hit unread data.         *)
AllDelivered ==
  \A s \in Sides :
    \A n \in 1 .. MaxChunks :
      (Len(sent[s]) >= n) ~>
         \/ Len(recvd[other(s)]) >= n
         \/ peer[s] = "reset"
         \/ peer[other(s)] \in {"closed", "reset"}
         \/ ~open /\ inbox[other(s)] # <<>>

(* When both peers have finished sending, the connections are destroyed. *)
SessionEnds ==
  (\A s \in Sides : peer[s] # "open") ~> ~open

-----------------------------------------------------------------------------
(* Each direction implements a pipe. *)
Pipe1 == INSTANCE Pipe WITH sent <- sent["conn1"], received <- recvd["conn2"]
Pipe2 == INSTANCE Pipe WITH sent <- sent["conn2"], received <- recvd["conn1"]
PipeSpecs == Pipe1!Spec /\ Pipe2!Spec
=============================================================================
