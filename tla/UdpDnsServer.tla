---------------------------- MODULE UdpDnsServer ----------------------------
(***************************************************************************)
(* UdpDnsServer::relay of src/dns/servers/udp.cpp with the UdpClient of    *)
(* src/udp/udpclient.cpp it owns: a connected UDP socket, the detached     *)
(* coroutine receive_work_ that moves datagrams into the AsyncQueue        *)
(* sessions_, and the coroutine of relay(), which sends the query, gets    *)
(* one session, and destroys the client as it returns.  receive_work_ is   *)
(* a member function: its frame outlives the client it points to.          *)
(***************************************************************************)
EXTENDS Sequences, Naturals

CONSTANTS Replies,     \* datagrams the DNS server may send
          MaxReplies,  \* bound: the datagrams that arrive (answers, duplicates)
          NoReply      \* the empty std::optional of the waiter

ASSUME ReplyAssumption == NoReply \notin Replies /\ MaxReplies \in Nat

VARIABLES relay,     \* the coroutine of relay()
          receive,   \* the coroutine receive_work_
          taken,     \* the datagram a completed receive holds
          sockbuf,   \* the socket's receive buffer
          sessions,  \* AsyncQueue sessions_: its deque
          waiter,    \* and its waiter's optional, filled when it was woken
          client,    \* the UdpClient on relay()'s frame
          touched,   \* receive_work_ used the client after its destruction
          arrived,   \* history: every datagram that reached the socket, in order
          returned   \* what relay() returned

vars == <<relay, receive, taken, sockbuf, sessions, waiter, client, touched, arrived, returned>>

Init == /\ relay = "start"
        /\ receive = "none"
        /\ taken = NoReply
        /\ sockbuf = <<>>
        /\ sessions = <<>>
        /\ waiter = NoReply
        /\ client = "none"
        /\ touched = FALSE
        /\ arrived = <<>>
        /\ returned = NoReply

-----------------------------------------------------------------------------
(* client.start(endpoint_) opens and connects the socket and spawns        *)
(* receive_work_, which waits for its first datagram; then the send.       *)
Start == /\ relay = "start"
         /\ relay' = "sending"
         /\ client' = "alive"
         /\ receive' = "receiving"
         /\ UNCHANGED <<taken, sockbuf, sessions, waiter, touched, arrived, returned>>

(* The UDP socket could not be opened: start() throws. *)
StartFails == /\ relay = "start"
              /\ relay' = "threw"
              /\ UNCHANGED <<receive, taken, sockbuf, sessions, waiter, client, touched, arrived,
                             returned>>

(* Mutant: the socket is left open and its receive pending. *)
DestroyQuietly == client' = "destroyed" /\ UNCHANGED receive

(* Closing or destroying the socket aborts a pending receive; one that has *)
(* already completed, and is only waiting to run, keeps its datagram.      *)
Destroy == /\ client' = "destroyed"
           /\ receive' = IF receive = "receiving" THEN "aborted" ELSE receive

(* client.session() with nothing queued: get() suspends. *)
AwaitSession == /\ relay = "sending" /\ sessions = <<>>
                /\ relay' = "getting"
                /\ UNCHANGED <<receive, taken, sockbuf, sessions, waiter, client, touched,
                               arrived, returned>>

(* relay() has its session: client.close(), co_return, end of frame. *)
Return(r) == /\ relay' = "returned"
             /\ returned' = r
             /\ Destroy
             /\ UNCHANGED <<taken, sockbuf, touched, arrived>>

SessionQueued == /\ relay = "sending" /\ sessions # <<>>
                 /\ Return(Head(sessions))
                 /\ sessions' = Tail(sessions)
                 /\ UNCHANGED waiter

SessionWoken == /\ relay = "getting" /\ waiter # NoReply
                /\ Return(waiter)
                /\ waiter' = NoReply
                /\ UNCHANGED sessions

SendFails == /\ relay = "sending"
             /\ relay' = "threw"
             /\ Destroy
             /\ UNCHANGED <<taken, sockbuf, sessions, waiter, touched, arrived, returned>>

-----------------------------------------------------------------------------
(* The network: the server answers, never, once or more than once, at any  *)
(* time after the query may have left; what a closed socket gets is lost.  *)
Arrive(r) == /\ client = "alive" /\ Len(arrived) < MaxReplies
             /\ arrived' = Append(arrived, r)
             /\ sockbuf' = Append(sockbuf, r)
             /\ UNCHANGED <<relay, receive, taken, sessions, waiter, client, touched, returned>>

(* async_receive_from completes; the coroutine is queued to run. *)
Receive == /\ receive = "receiving" /\ sockbuf # <<>>
           /\ receive' = "completed"
           /\ taken' = Head(sockbuf)
           /\ sockbuf' = Tail(sockbuf)
           /\ UNCHANGED <<relay, sessions, waiter, client, touched, arrived, returned>>

(* An ICMP error on the connected socket, reported by the receive. *)
ReceiveError == /\ receive = "receiving"
                /\ receive' = "failed"
                /\ UNCHANGED <<relay, taken, sockbuf, sessions, waiter, client, touched, arrived,
                               returned>>

(* Mutants of sessions_.put: a woken waiter stays in the deque; the waiter *)
(* is ignored.                                                             *)
putOverWoken(r) == IF relay = "getting"
                   THEN waiter' = r /\ UNCHANGED sessions
                   ELSE sessions' = Append(sessions, r) /\ UNCHANGED waiter

putBesideWaiter(r) == sessions' = Append(sessions, r) /\ UNCHANGED waiter

(* sessions_.put(session): relay() is the only consumer, and its waiter is *)
(* in the deque of waiters until it is woken.                              *)
put(r) == IF relay = "getting" /\ waiter = NoReply
          THEN waiter' = r /\ UNCHANGED sessions
          ELSE sessions' = Append(sessions, r) /\ UNCHANGED waiter

(* receive_work_ hands its datagram over and starts the next receive. *)
Put == /\ receive = "completed" /\ client = "alive"
       /\ put(taken)
       /\ receive' = "receiving"
       /\ taken' = NoReply
       /\ UNCHANGED <<relay, sockbuf, client, touched, arrived, returned>>

(* The same two calls on a client that is gone: undefined behaviour.       *)
(* Nothing is said of what follows; this coroutine is taken to end.        *)
PutAfterDestruction == /\ receive = "completed" /\ client = "destroyed"
                       /\ touched' = TRUE
                       /\ receive' = "ended"
                       /\ taken' = NoReply
                       /\ UNCHANGED <<relay, sockbuf, sessions, waiter, client, arrived, returned>>

(* Mutant: after an error the loop goes on with the client. *)
EndReceiveLate == /\ receive \in {"aborted", "failed"}
                  /\ receive' = "ended"
                  /\ touched' = (touched \/ client = "destroyed")
                  /\ UNCHANGED <<relay, taken, sockbuf, sessions, waiter, client, arrived,
                                 returned>>

(* operation_aborted or the error is caught and logged: the coroutine ends *)
(* without touching the client.                                            *)
EndReceive == /\ receive \in {"aborted", "failed"}
              /\ receive' = "ended"
              /\ UNCHANGED <<relay, taken, sockbuf, sessions, waiter, client, touched, arrived,
                             returned>>

receive_work_ == Put \/ PutAfterDestruction \/ EndReceive

Step == \/ Start \/ StartFails \/ SendFails
        \/ AwaitSession \/ SessionQueued \/ SessionWoken
        \/ Receive \/ ReceiveError
        \/ receive_work_

Next == Step \/ \E r \in Replies : Arrive(r)

Spec == Init /\ [][Next]_vars

(* The send ends, received datagrams are reported and the io_context runs  *)
(* what is ready.  No datagram is assumed to arrive.                       *)
Fairness == /\ WF_vars(SendFails \/ AwaitSession \/ SessionQueued)
            /\ WF_vars(SessionWoken)
            /\ WF_vars(Receive)
            /\ WF_vars(receive_work_)

FairSpec == Spec /\ Fairness

-----------------------------------------------------------------------------
TypeOK ==
  /\ relay \in {"start", "sending", "getting", "returned", "threw"}
  /\ receive \in {"none", "receiving", "completed", "aborted", "failed", "ended"}
  /\ taken \in Replies \cup {NoReply} /\ (taken # NoReply <=> receive = "completed")
  /\ sockbuf \in Seq(Replies) /\ sessions \in Seq(Replies) /\ arrived \in Seq(Replies)
  /\ waiter \in Replies \cup {NoReply}
  /\ client \in {"none", "alive", "destroyed"}
  /\ touched \in BOOLEAN
  /\ returned \in Replies \cup {NoReply} /\ (returned # NoReply <=> relay = "returned")

(* relay() returns the first datagram that reached the socket, on the      *)
(* queued path and on the woken path alike.                                *)
FirstReplyReturned == relay = "returned" => arrived # <<>> /\ returned = arrived[1]

(* receive_work_ outlives its client safely as long as the server answers  *)
(* once: only a second datagram, received while the first was on its way   *)
(* to relay(), or a send that failed after a datagram was received, can    *)
(* be put into a destroyed queue.                                          *)
OneReplyIsSafe == touched => Len(arrived) > 1 \/ relay = "threw"

(* A datagram that arrives ends the relay, unless an error has ended       *)
(* receive_work_ before it was read.                                       *)
ReplyEndsRelay ==
  (arrived # <<>>) ~> (relay \in {"returned", "threw"} \/ receive \in {"failed", "ended"})

(* When relay() is over receive_work_ ends: no coroutine is left behind. *)
ReceiverEnds == (relay \in {"returned", "threw"}) ~> (receive \in {"none", "ended"})
=============================================================================
