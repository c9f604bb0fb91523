---------------------------- MODULE MixedInbound ----------------------------
(***************************************************************************)
(* MixedInbound of src/inbounds/mixed.cpp: connections come from the       *)
(* listener's queue, handle_ tells SOCKS5 from HTTP by the first byte,     *)
(* reads the request in whatever pieces TCP delivers it, answers, and puts *)
(* [connection, address, first data] on the queue App reads.  There is no  *)
(* timeout, and an exception ends the coroutine, which destroys the        *)
(* connection.  users_ is always empty (Builder::buildInbound), so the     *)
(* password branch of handleSocks5_ is unreachable and left out.           *)
(*                                                                         *)
(* A byte is a number; a word of an HTTP line, with the blank before it,   *)
(* is one byte.                                                            *)
(***************************************************************************)
EXTENDS Naturals, Sequences, SequencesExt, Functions

CONSTANTS Conns,
          RequestsOf,       \* RequestsOf[c]: what the client of c may want
          Uri(_),           \* parse_uri_reference: [ok, host, port]; no port is 0
          AddrBytes,        \* AddrBytes[atyp]: 4 for 1 (IPv4), 16 for 4 (IPv6)
          NoTarget          \* the empty target

CR == 13
LF == 10
GET == 71
CONNECT == 67
Path == 47
HeaderLine == 72
CRLF == <<CR, LF>>

VARIABLES request,   \* request[c]: what the client of c wants
          sent,      \* sent[c]: how many bytes of it have been sent
          client,    \* client[c]: open or closed by the client
          accepted,  \* Listener::sessions_
          pc,        \* pc[c]: the suspension point of handle_ and what it calls
          inbox,     \* inbox[c]: received by the socket, not yet read
          buffer,    \* buffer[c]: the `buffer` of handleHttp_, or its `firstLine`
          want,      \* want[c]: how many bytes the pending read_exactly takes
          address,   \* address[c]: [host, port] as far as it is known
          replies,   \* replies[c]: what was written to the client
          sessions_  \* Inbound::sessions_

inboundVars == <<request, sent, client, accepted, pc, inbox, buffer, want, address, replies,
                 sessions_>>
peers == <<request, sent, client>>

-----------------------------------------------------------------------------
(* What a client may want: bytes, an IP address of the length of its kind, *)
(* and for HTTP a URL that says what is wanted where it has a host.        *)
Wants(r) ==
  /\ r.payload \in Seq(Nat) /\ r.wanted \in [host : Seq(Nat), port : Nat]
  /\ \/ /\ r.proto = "socks"
        /\ r.methods \in Seq(Nat) /\ r.version \in Nat /\ r.cmd \in Nat /\ r.atyp \in Nat
        /\ r.atyp \in {1, 4} => Len(r.wanted.host) = AddrBytes[r.atyp]
     \/ /\ r.proto = "http"
        /\ r.method \in Nat \ {5, CR} /\ r.target \in Nat \ {CR} /\ r.headers \in Nat
        /\ LET uri == Uri(r.target)
           IN  /\ uri.host \in Seq(Nat) /\ uri.port \in Nat
               /\ IF uri.host = <<>> THEN uri.port = 0
                  ELSE /\ r.wanted.host = uri.host
                       /\ r.wanted.port = IF uri.port # 0 THEN uri.port
                                          ELSE IF r.method = CONNECT THEN 443 ELSE 80

Requests == UNION Range(RequestsOf)
ASSUME RequestsAssumption == \A r \in Requests : Wants(r)
ASSUME ConnsAssumption == IsFiniteSet(Conns)

(* The clients.  A request is sent in parts; a client sends a part when    *)
(* the part before it was answered, an eager client at once.               *)
HostBytes(r) == IF r.atyp = 3 THEN <<Len(r.wanted.host)>> \o r.wanted.host ELSE r.wanted.host
PortBytes(r) == <<r.wanted.port \div 256, r.wanted.port % 256>>
SocksParts(r) == << <<5, Len(r.methods)>> \o r.methods,
                    <<r.version, r.cmd, 0, r.atyp>> \o HostBytes(r) \o PortBytes(r),
                    r.payload >>
Line(r) == IF r.target = NoTarget THEN <<r.method>> ELSE <<r.method, r.target>>
HttpHead(r) == Line(r) \o CRLF
                 \o FlattenSeq([i \in 1 .. r.headers |-> <<HeaderLine>> \o CRLF]) \o CRLF
HttpParts(r) == IF r.method = CONNECT THEN <<HttpHead(r), r.payload>>
                ELSE <<HttpHead(r) \o r.payload>>
RequestParts(r) == IF r.proto = "socks" THEN SocksParts(r) ELSE HttpParts(r)

Wire == [r \in Requests |-> FlattenSeq(RequestParts(r))]
UpTo == [r \in Requests |-> [n \in 0 .. Len(RequestParts(r)) |->
          Len(FlattenSeq(SubSeq(RequestParts(r), 1, n)))]]
Allowed(c) == LET r == request[c] IN
  IF r.eager THEN Len(Wire[r]) ELSE UpTo[r][Len(replies[c]) + 1]

ClientSends(c) ==
  /\ client[c] = "open" /\ pc[c] # "closed"
  /\ \E n \in sent[c] + 1 .. Allowed(c) :
       /\ sent' = [sent EXCEPT ![c] = n]
       /\ inbox' = [inbox EXCEPT ![c] = @ \o SubSeq(Wire[request[c]], sent[c] + 1, n)]
  /\ UNCHANGED <<request, client, accepted, pc, buffer, want, address, replies, sessions_>>

ClientCloses(c) ==
  /\ client[c] = "open"
  /\ client' = [client EXCEPT ![c] = "closed"]
  /\ UNCHANGED <<request, sent, accepted, pc, inbox, buffer, want, address, replies, sessions_>>

-----------------------------------------------------------------------------
InboundInit ==
  /\ request \in {f \in [Conns -> Requests] : \A c \in Conns : f[c] \in RequestsOf[c]}
  /\ sent = [c \in Conns |-> 0]
  /\ client = [c \in Conns |-> "open"]
  /\ accepted = SetToSeq(Conns)
  /\ pc = [c \in Conns |-> "accepted"]
  /\ inbox = [c \in Conns |-> <<>>]
  /\ buffer = [c \in Conns |-> <<>>]
  /\ want = [c \in Conns |-> 0]
  /\ address = [c \in Conns |-> [host |-> <<>>, port |-> 0]]
  /\ replies = [c \in Conns |-> <<>>]
  /\ sessions_ = <<>>

(* Mutant: the handler is awaited, not spawned. *)
mainWork_Awaits == /\ accepted # <<>>
                   /\ \A c \in Conns : pc[c] \in {"accepted", "put", "closed"}
                   /\ pc' = [pc EXCEPT ![Head(accepted)] = "first"]
                   /\ want' = [want EXCEPT ![Head(accepted)] = 1]
                   /\ accepted' = Tail(accepted)
                   /\ UNCHANGED <<peers, inbox, buffer, address, replies, sessions_>>

(* mainWork_ takes a connection and spawns handle_, which starts to read   *)
(* one byte.                                                               *)
mainWork_ == /\ accepted # <<>>
             /\ pc' = [pc EXCEPT ![Head(accepted)] = "first"]
             /\ want' = [want EXCEPT ![Head(accepted)] = 1]
             /\ accepted' = Tail(accepted)
             /\ UNCHANGED <<peers, inbox, buffer, address, replies, sessions_>>

(* A pending read_exactly gets its bytes; the coroutine goes on to `to`,   *)
(* where it may wait for `n` more.                                         *)
Got(c) == SubSeq(inbox[c], 1, want[c])
ReadExactly(c, at) == /\ pc[c] = at
                      /\ Len(inbox[c]) >= want[c]
                      /\ inbox' = [inbox EXCEPT ![c] = SubSeq(@, want[c] + 1, Len(@))]
                      /\ UNCHANGED <<peers, accepted, replies, sessions_>>
GoOn(c, to, n) == pc' = [pc EXCEPT ![c] = to] /\ want' = [want EXCEPT ![c] = n]

(* A pending read(4096) gets what there is. *)
ReadSome(c, at) == /\ pc[c] = at
                   /\ inbox[c] # <<>>
                   /\ inbox' = [inbox EXCEPT ![c] = <<>>]
                   /\ UNCHANGED <<peers, accepted, replies>>

(* handle_: 5 is the version of SOCKS. *)
handle_(c) == /\ ReadExactly(c, "first")
              /\ IF Got(c) = <<5>> THEN GoOn(c, "nmethods", 1) /\ UNCHANGED buffer
                 ELSE GoOn(c, "line", 0) /\ buffer' = [buffer EXCEPT ![c] = Got(c)]
              /\ UNCHANGED address

-----------------------------------------------------------------------------
(* handleSocks5_ *)
NMethods(c) == /\ ReadExactly(c, "nmethods")
               /\ GoOn(c, "methods", Got(c)[1])
               /\ UNCHANGED <<buffer, address>>

Methods(c) == /\ ReadExactly(c, "methods")
              /\ GoOn(c, IF Contains(Got(c), 0) THEN "choice" ELSE "refusal", 0)
              /\ UNCHANGED <<buffer, address>>

(* The four bytes version, command, reserved, address type; what is not    *)
(* supported throws.                                                       *)
RequestIsValid(head) == head[1] = 5 /\ head[2] = 1 /\ head[4] \in {1, 3, 4}
Header(c) ==
  LET atyp == Got(c)[4]
  IN  /\ ReadExactly(c, "header")
      /\ IF ~RequestIsValid(Got(c)) THEN GoOn(c, "closed", 0)
         ELSE IF atyp = 3 THEN GoOn(c, "length", 1)
         ELSE GoOn(c, "host", AddrBytes[atyp])
      /\ UNCHANGED <<buffer, address>>

Length(c) == /\ ReadExactly(c, "length")
             /\ GoOn(c, "host", Got(c)[1])
             /\ UNCHANGED <<buffer, address>>

SocksHost(c) == /\ ReadExactly(c, "host")
                /\ GoOn(c, "port", 2)
                /\ address' = [address EXCEPT ![c].host = Got(c)]
                /\ UNCHANGED buffer

(* Mutant: read_u16 with its bytes swapped. *)
PortSwapped(c) == /\ ReadExactly(c, "port")
                  /\ GoOn(c, "success", 0)
                  /\ address' = [address EXCEPT ![c].port = Got(c)[2] * 256 + Got(c)[1]]
                  /\ UNCHANGED buffer

Port(c) == /\ ReadExactly(c, "port")
           /\ GoOn(c, "success", 0)
           /\ address' = [address EXCEPT ![c].port = Got(c)[1] * 256 + Got(c)[2]]
           /\ UNCHANGED buffer

(* A write completes: the client will see the reply.  A refused client is  *)
(* disconnected; an accepted one sends its request, or its first data.     *)
AfterReply(at) == CASE at = "choice" -> "header" [] at = "refusal" -> "closed"
               [] at \in {"success", "established"} -> "firstData"
Reply(c) == /\ pc[c] \in {"choice", "refusal", "success", "established"}
            /\ replies' = [replies EXCEPT ![c] = Append(@, pc[c])]
            /\ GoOn(c, AfterReply(pc[c]), IF pc[c] = "choice" THEN 4 ELSE 0)
            /\ UNCHANGED <<peers, accepted, inbox, buffer, address, sessions_>>

(* sessions_.put: the session is handed to App, and handle_ ends. *)
putSession(c, addr, firstData) ==
  /\ sessions_' = Append(sessions_, [conn |-> c, address |-> addr, firstData |-> firstData])
  /\ GoOn(c, "put", 0)

(* The first data is whatever the client has sent by now. *)
FirstData(c) == /\ ReadSome(c, "firstData")
                /\ putSession(c, address[c], inbox[c])
                /\ UNCHANGED <<buffer, address>>

-----------------------------------------------------------------------------
(* handleHttp_ *)
find(text, pattern) ==
  {i \in 1 .. Len(text) + 1 - Len(pattern) : SubSeq(text, i, i + Len(pattern) - 1) = pattern}
Found(text, pattern) == find(text, pattern) # {}
First(text, pattern) == CHOOSE i \in find(text, pattern) : \A j \in find(text, pattern) : i <= j
FirstLine(text) == SubSeq(text, 1, First(text, CRLF) - 1)
AfterLine(text) == SubSeq(text, First(text, CRLF) + Len(CRLF), Len(text))

(* The address: host and port of the target, the port by default 443 for   *)
(* CONNECT, and 80 else.                                                   *)
Target(line) == Uri(IF Len(line) > 1 THEN line[2] ELSE NoTarget)
HttpAddress(line) ==
  [host |-> Target(line).host,
   port |-> IF Target(line).port # 0 THEN Target(line).port
            ELSE IF line[1] = CONNECT THEN 443 ELSE 80]

(* CONNECT reads up to an empty line and drops what it has read.  `text`   *)
(* starts after the first line.                                            *)
SkipHeaders(c, text) ==
  /\ IF Found(text, CRLF \o CRLF)
     THEN GoOn(c, "established", 0) /\ buffer' = [buffer EXCEPT ![c] = <<>>]
     ELSE GoOn(c, "headers", 0) /\ buffer' = [buffer EXCEPT ![c] = text]
  /\ UNCHANGED sessions_

(* The line for the server: of the target, the path, whatever url.path()   *)
(* makes of it (it drops the query and decodes percent signs).             *)
Rewritten(line) == IF Len(line) > 1 THEN [line EXCEPT ![2] = Path] ELSE line

(* Mutant: what was read with the line is not passed on. *)
RewriteDrops(c, line, text) ==
  IF text = <<>> THEN /\ GoOn(c, "rest", 0)
                      /\ buffer' = [buffer EXCEPT ![c] = line]
                      /\ UNCHANGED sessions_
  ELSE putSession(c, HttpAddress(line), Rewritten(line) \o CRLF) /\ UNCHANGED buffer

(* Any other method: the server gets the line with the path alone and      *)
(* what follows it, at least one read of it.                               *)
Rewrite(c, line, text) ==
  IF text = <<>> THEN /\ GoOn(c, "rest", 0)
                      /\ buffer' = [buffer EXCEPT ![c] = line]
                      /\ UNCHANGED sessions_
  ELSE putSession(c, HttpAddress(line), Rewritten(line) \o CRLF \o text) /\ UNCHANGED buffer

ReadLine(c) ==
  LET text == buffer[c] \o inbox[c]
      line == FirstLine(text)
  IN  /\ ReadSome(c, "line")
      /\ \/ /\ ~Found(text, CRLF)
            /\ buffer' = [buffer EXCEPT ![c] = text]
            /\ UNCHANGED <<pc, want, address, sessions_>>
         \/ /\ Found(text, CRLF) /\ ~Target(line).ok
            /\ GoOn(c, "closed", 0)
            /\ UNCHANGED <<buffer, address, sessions_>>
         \/ /\ Found(text, CRLF) /\ Target(line).ok
            /\ address' = [address EXCEPT ![c] = HttpAddress(line)]
            /\ IF line[1] = CONNECT THEN SkipHeaders(c, AfterLine(text))
               ELSE Rewrite(c, line, AfterLine(text))

ReadHeaders(c) == /\ ReadSome(c, "headers")
                  /\ SkipHeaders(c, buffer[c] \o inbox[c])
                  /\ UNCHANGED address

ReadRest(c) == /\ ReadSome(c, "rest")
               /\ putSession(c, address[c], Rewritten(buffer[c]) \o CRLF \o inbox[c])
               /\ UNCHANGED <<buffer, address>>

-----------------------------------------------------------------------------
(* Mutant: only a pending read(4096) notices the end. *)
ThrowsOnlyReading(c) ==
  /\ client[c] = "closed"
  /\ pc[c] \in {"line", "headers", "rest", "firstData"} /\ inbox[c] = <<>>
  /\ GoOn(c, "closed", 0)
  /\ UNCHANGED <<peers, accepted, inbox, buffer, address, replies, sessions_>>

(* The client is gone: a read past the end throws, and a write may throw.  *)
Throws(c) ==
  /\ client[c] = "closed"
  /\ \/ pc[c] \in {"first", "nmethods", "methods", "header", "length", "host", "port"}
        /\ Len(inbox[c]) < want[c]
     \/ pc[c] \in {"line", "headers", "rest", "firstData"} /\ inbox[c] = <<>>
     \/ pc[c] \in {"choice", "refusal", "success", "established"}
  /\ GoOn(c, "closed", 0)
  /\ UNCHANGED <<peers, accepted, inbox, buffer, address, replies, sessions_>>

Handler(c) == \/ handle_(c)
              \/ NMethods(c) \/ Methods(c) \/ Header(c) \/ Length(c) \/ SocksHost(c) \/ Port(c)
              \/ Reply(c) \/ FirstData(c)
              \/ ReadLine(c) \/ ReadHeaders(c) \/ ReadRest(c)
              \/ Throws(c)

InboundNext == \/ mainWork_
               \/ \E c \in Conns : ClientSends(c) \/ ClientCloses(c) \/ Handler(c)

InboundSpec == InboundInit /\ [][InboundNext]_inboundVars

(* The io_context runs what is ready.  No client is assumed to go on. *)
InboundFairSpec == /\ InboundSpec
                   /\ WF_inboundVars(mainWork_)
                   /\ \A c \in Conns : WF_inboundVars(Handler(c))

-----------------------------------------------------------------------------
(* What the server of the session has to get. *)
Stream(r) == IF r.proto = "socks" \/ r.method = CONNECT THEN r.payload
             ELSE IF r.target = NoTarget THEN Wire[r] ELSE [Wire[r] EXCEPT ![2] = Path]
Unsent(c) == SubSeq(Wire[request[c]], sent[c] + 1, Len(Wire[request[c]]))
Remains(s) == s.firstData \o inbox[s.conn] \o Unsent(s.conn)
EagerConnect(r) == r.proto = "http" /\ r.method = CONNECT /\ r.eager

(* However TCP cuts the request, and however early a client sends, the     *)
(* server gets what follows the request, byte for byte, and for plain HTTP *)
(* the request with its line rewritten.  What the path keeps of the target *)
(* is not looked at.  Only a client that does not wait for the answer to   *)
(* CONNECT may lose bytes at the front.                                    *)
PayloadIntact ==
  \A s \in Range(sessions_) :
    LET r == request[s.conn]
    IN  IF EagerConnect(r) THEN IsSuffix(Remains(s), Stream(r)) ELSE Remains(s) = Stream(r)

(* What the proxy supports. *)
Supported(r) ==
  IF r.proto = "socks"
  THEN Contains(r.methods, 0) /\ r.version = 5 /\ r.cmd = 1 /\ r.atyp \in {1, 3, 4}
  ELSE Uri(r.target).ok

(* Only what the proxy supports becomes a session, and the session is for  *)
(* the host and port the client wants.  Where parse_uri_reference sees no  *)
(* host ("name:port" has a scheme and a path), it has none and a default   *)
(* port, and sniffing has to name the host.                                *)
AddressAsAsked ==
  \A s \in Range(sessions_) :
    LET r == request[s.conn]
    IN  /\ Supported(r)
        /\ s.address = IF r.proto = "socks" \/ Uri(r.target).host # <<>> THEN r.wanted
                       ELSE [host |-> <<>>, port |-> IF r.method = CONNECT THEN 443 ELSE 80]

Complete(c) == LET r == request[c] IN
  /\ Supported(r) /\ r.payload # <<>> /\ ~EagerConnect(r)
  /\ r.proto = "http" /\ r.method = CONNECT => r.headers > 0
  /\ sent[c] = Len(Wire[r])

(* A client that has sent a supported request and some data becomes a      *)
(* session, however TCP cuts it, and whatever other connections do, or     *)
(* fail to do.  Not so CONNECT without header lines: the end of its first  *)
(* line was erased, and SkipHeaders waits for two ends of line.            *)
Served == \A c \in Conns : Complete(c) ~> (pc[c] = "put" \/ client[c] = "closed")

(* A client that leaves during the handshake leaves nothing behind. *)
LeaversAreReleased == \A c \in Conns : (client[c] = "closed") ~> (pc[c] \in {"put", "closed"})

(* mixed.cpp:161, "Connection Established": a client that is told so has   *)
(* the address it asked for.                                               *)
EstablishedAsAsked ==
  \A c \in Conns : Contains(replies[c], "established") => address[c] = request[c].wanted
=============================================================================
