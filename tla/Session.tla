------------------------------ MODULE Session -------------------------------
(***************************************************************************)
(* One session from App::handleSession_ (src/common/app.cpp) to the relay: *)
(* sniffing, the outbound's connect (DirectOutbound or VlessOutbound) over *)
(* its transport (TcpTransport, TlsTransport, WssTransport), and what the  *)
(* relay then reads from the connection.  A TCP or TLS connection is a     *)
(* stream; a WssConnection reads messages and keeps a buffer of its own    *)
(* for what read_exactly took too much.  The choice of the outbound is in  *)
(* Startup, connect_address in TcpClient, the relay in Relay.              *)
(***************************************************************************)
EXTENDS Sniff, SequencesExt

CONSTANTS Cases,      \* [session, outbound, answer]: a session is [address, firstData, hello,
                      \* name], an address [kind, host, port]; name is in the TLS hello that
                      \* the client sent, <<>> if none is whole (see Says); an outbound is
                      \* [type, transport]; answer is what the server may send, byte by byte
          uuid_,      \* the 16 bytes of the user
          U8          \* 2^8: lengths are narrowed to a byte

ASSUME UserAssumption == uuid_ \in Seq(Nat)
ASSUME U8Assumption == U8 \in Nat \ {0}

LastPort == 65535
Ports == 0 .. LastPort

(* A TLS client's hello, in one record.  Names and extensions have a type; *)
(* the extension of type 0 is a list of names, others hold any data.       *)
HostBytes(n) == <<n.type>> \o Field(n.body)
HostList(ns) == FlattenSeq([i \in DOMAIN ns |-> HostBytes(ns[i])])
Payload(e) == IF e.type = 0 THEN Field(HostList(e.body)) ELSE e.data
ExtensionBytes(e) == write_u16(e.type) \o Field(Payload(e))
ExtensionList(es) == FlattenSeq([i \in DOMAIN es |-> ExtensionBytes(es[i])])
HelloBytes(h) ==
  LET body == h.random \o ShortField(h.sessionId) \o Field(h.ciphers) \o ShortField(h.compression)
                \o Field(ExtensionList(h.extensions))
  IN  <<22, 3, h.minor>> \o Field(<<1, 0>> \o Field(body))

(* The host it names: the first one of the first list.                     *)
FirstOfType0(items) ==
  LET found == {i \in DOMAIN items : items[i].type = 0}
  IN  IF found = {} THEN <<>> ELSE items[Min(found)].body
HostIn(h) == FirstOfType0(FirstOfType0(h.extensions))

LongestField == 65535   \* what two bytes of length count
Hosts == [type : Nat, body : Seq(Nat)]
Extension == [type : Nat, data : Seq(Nat), body : Seq(Hosts)]
IsHelloOf(h) ==
  /\ h.minor \in Nat /\ h.random \in Seq(Nat) /\ Len(h.random) = 34   \* with a version
  /\ h.sessionId \in Seq(Nat) /\ h.compression \in Seq(Nat) /\ h.ciphers \in Seq(Nat)
  /\ h.extensions \in Seq(Extension)
  /\ Len(h.sessionId) < 256 /\ Len(h.compression) < 256
  /\ Len(HelloBytes(h)) <= LongestField

(* What begins like a hello is one, with whatever comes after it, or as    *)
(* much of it as came.                                                     *)
Says(s) ==
  IF Len(s.firstData) < 6 \/ <<s.firstData[1], s.firstData[2], s.firstData[6]>> # <<22, 3, 1>>
  THEN s.name = <<>>
  ELSE LET wire == HelloBytes(s.hello)
       IN  /\ IsHelloOf(s.hello)
           /\ \A k \in 1 .. Len(s.firstData) : k <= Len(wire) => s.firstData[k] = wire[k]
           /\ s.name = IF Len(s.firstData) >= Len(wire) THEN HostIn(s.hello) ELSE <<>>

(* What the inbound and the configuration can put into a case: addresses   *)
(* as parsed, byte sequences.                                              *)
ASSUME CasesAssumption ==
  \A c \in Cases :
    /\ c.answer \in Seq(Nat)
    /\ c.outbound \in [type : {"direct", "vless"}, transport : {"tcp", "tls", "ws"}]
    /\ c.session.firstData \in Seq(Nat) /\ c.session.name \in Seq(Nat) /\ Says(c.session)
    /\ c.session.address \in [kind : {"v4", "v6", "domain"}, host : Seq(Nat), port : Ports]
    /\ c.session.address.kind = "v4" => Len(c.session.address.host) = 4
    /\ c.session.address.kind = "v6" => Len(c.session.address.host) = 16

VARIABLES session,   \* the session as it was put by the inbound
          outbound,  \* the outbound the router chose
          answer,    \* what the server has to say
          target,    \* the address after sniffing
          stage,     \* the suspension point of handleSession_ and what it calls
          uplink,    \* the messages written to the server before the relay
          replied,   \* how many bytes of its answer the server has sent
          received,  \* the messages received by the socket, not yet read
          buffer_,   \* WssConnection::buffer_
          delivered  \* what the relay has read from the server

sessionVars == <<session, outbound, answer, target, stage, uplink, replied, received, buffer_,
                 delivered>>
fixed == <<session, outbound, answer>>

SessionInit == /\ \E c \in Cases :
                    session = c.session /\ outbound = c.outbound /\ answer = c.answer
               /\ target = session.address
               /\ stage = "queued"
               /\ uplink = <<>> /\ replied = 0 /\ received = <<>> /\ buffer_ = <<>>
               /\ delivered = <<>>

-----------------------------------------------------------------------------
(* handleSession_: a sniffed name replaces the host, the port stays. *)
handleSession_ ==
  LET name == sniffDomain(session.firstData)
  IN  /\ stage = "queued"
      /\ target' = IF name = <<>> THEN target
                    ELSE [target EXCEPT !.kind = "domain", !.host = name]
      /\ stage' = "connect"
      /\ UNCHANGED <<fixed, uplink, replied, received, buffer_, delivered>>

(* The transport: the TCP connection, for TLS its handshake, for a         *)
(* websocket the upgrade after that.                                       *)
Steps == CASE outbound.transport = "tcp" -> <<"connect">>
           [] outbound.transport = "tls" -> <<"connect", "tlsHandshake">>
           [] outbound.transport = "ws"  -> <<"connect", "tlsHandshake", "wsHandshake">>
Connect == \E i \in 1 .. Len(Steps) :
             /\ stage = Steps[i]
             /\ stage' = IF i = Len(Steps) THEN "request" ELSE Steps[i + 1]
             /\ UNCHANGED <<fixed, target, uplink, replied, received, buffer_, delivered>>

(* Any wait for the network may end with an exception, which               *)
(* handleSession_ logs; both connections are destroyed.                    *)
Fails == /\ stage \in {"connect", "tlsHandshake", "wsHandshake", "request", "response"}
         /\ stage' = "failed"
         /\ UNCHANGED <<fixed, target, uplink, replied, received, buffer_, delivered>>

hostBytes(addr) ==
  IF addr.kind = "domain" THEN <<2, Len(addr.host) % U8>> \o addr.host
  ELSE IF addr.kind = "v4" THEN <<1>> \o addr.host ELSE <<3>> \o addr.host

(* Mutant: the port with its low byte first. *)
requestDataSwapped ==
  <<0>> \o uuid_ \o <<0, 1>> \o <<target.port % 256, target.port \div 256>> \o hostBytes(target)
    \o session.firstData

(* What VlessOutbound sends ahead of, and with, the first data. *)
requestData == <<0>> \o uuid_ \o <<0, 1>> \o write_u16(target.port) \o hostBytes(target)
                 \o session.firstData

(* The write: a direct server gets the first data, a vless server the      *)
(* request, and is then waited for.                                        *)
WriteRequest ==
  /\ stage = "request"
  /\ uplink' = <<IF outbound.type = "direct" THEN session.firstData ELSE requestData>>
  /\ stage' = IF outbound.type = "direct" THEN "relay" ELSE "response"
  /\ UNCHANGED <<fixed, target, replied, received, buffer_, delivered>>

-----------------------------------------------------------------------------
(* The server: it sends its answer in pieces, a websocket's also empty, or *)
(* as text.                                                                *)
ServerSends ==
  /\ uplink # <<>> /\ stage # "failed" /\ replied < Len(answer)
  /\ \E n \in replied .. Len(answer), binary \in BOOLEAN :
       /\ outbound.transport # "ws" => n > replied /\ binary
       /\ n = replied => binary /\ received = <<>>
       /\ received' = Append(received, [binary |-> binary, data |-> SubSeq(answer, replied + 1, n)])
       /\ replied' = n
  /\ UNCHANGED <<fixed, target, stage, uplink, buffer_, delivered>>

Data(messages) == FlattenSeq([i \in 1 .. Len(messages) |-> messages[i].data])

Accepts(header) == header = <<0, 0>>

(* The two bytes of the response: 0 is the version, and no addons. *)
Handshake(header) == stage' = IF Accepts(header) THEN "relay" ELSE "failed"

(* Tcp- and TlsConnection::read_exactly(2). *)
StreamResponse ==
  LET stream == Data(received)
  IN  /\ stage = "response" /\ outbound.transport # "ws" /\ Len(stream) >= 2
      /\ Handshake(SubSeq(stream, 1, 2))
      /\ received' = IF Len(stream) = 2 THEN <<>>
                  ELSE <<[binary |-> TRUE, data |-> SubSeq(stream, 3, Len(stream))]>>
      /\ UNCHANGED <<fixed, target, uplink, replied, buffer_, delivered>>

(* WssConnection::read_exactly(2): messages pile up in the buffer until it *)
(* holds enough; what is too much stays.  Text throws.                     *)
WsResponse ==
  LET got == buffer_ \o Head(received).data
  IN  /\ stage = "response" /\ outbound.transport = "ws" /\ received # <<>>
      /\ received' = Tail(received)
      /\ IF ~Head(received).binary THEN stage' = "failed" /\ UNCHANGED buffer_
         ELSE IF Len(got) < 2 THEN buffer_' = got /\ UNCHANGED stage
         ELSE Handshake(SubSeq(got, 1, 2)) /\ buffer_' = SubSeq(got, 3, Len(got))
      /\ UNCHANGED <<fixed, target, uplink, replied, delivered>>

(* The relay's read(4096).  On a stream it returns what there is. *)
StreamRead == /\ stage = "relay" /\ outbound.transport # "ws" /\ received # <<>>
              /\ delivered' = delivered \o Data(received)
              /\ received' = <<>>
              /\ UNCHANGED <<fixed, target, stage, uplink, replied, buffer_>>

(* Mutant: the buffer is returned only together with a message. *)
WsReadWaits == /\ stage = "relay" /\ outbound.transport = "ws" /\ received # <<>>
               /\ received' = Tail(received)
               /\ IF ~Head(received).binary THEN stage' = "failed" /\ UNCHANGED <<buffer_, delivered>>
                  ELSE /\ delivered' = delivered \o buffer_ \o Head(received).data
                       /\ buffer_' = <<>>
                       /\ UNCHANGED stage
               /\ UNCHANGED <<fixed, target, uplink, replied>>

(* Mutant: new messages first. *)
WsReadLate == /\ stage = "relay" /\ outbound.transport = "ws"
              /\ \/ /\ received = <<>> /\ buffer_ # <<>>
                    /\ delivered' = delivered \o buffer_ /\ buffer_' = <<>>
                    /\ UNCHANGED <<received, stage>>
                 \/ /\ received # <<>> /\ received' = Tail(received)
                    /\ delivered' = delivered \o Head(received).data
                    /\ UNCHANGED <<buffer_, stage>>
              /\ UNCHANGED <<fixed, target, uplink, replied>>

(* WssConnection::read: the buffer if it holds anything, whatever was      *)
(* asked for; else one message.                                            *)
WsRead == /\ stage = "relay" /\ outbound.transport = "ws"
          /\ \/ /\ buffer_ # <<>>
                /\ delivered' = delivered \o buffer_ /\ buffer_' = <<>>
                /\ UNCHANGED <<received, stage>>
             \/ /\ buffer_ = <<>> /\ received # <<>>
                /\ received' = Tail(received)
                /\ IF Head(received).binary THEN delivered' = delivered \o Head(received).data /\ UNCHANGED stage
                   ELSE stage' = "failed" /\ UNCHANGED delivered
                /\ UNCHANGED buffer_
          /\ UNCHANGED <<fixed, target, uplink, replied>>

Proxy == \/ handleSession_ \/ Connect \/ WriteRequest
         \/ StreamResponse \/ WsResponse \/ StreamRead \/ WsRead

SessionNext == Proxy \/ Fails \/ ServerSends

SessionSpec == SessionInit /\ [][SessionNext]_sessionVars

(* The io_context runs what is ready, and sockets take a request.  The     *)
(* server need not answer.                                                 *)
SessionFairSpec == SessionSpec /\ WF_sessionVars(Proxy)

-----------------------------------------------------------------------------
(* How a vless server takes a request apart: user, port, the kind of       *)
(* address, the host, and the rest is data.                                *)
Decode(data) ==
  LET at == Len(uuid_) + 4
      kind == data[at + 2]
      n == CASE kind = 1 -> 4 [] kind = 2 -> data[at + 3] [] kind = 3 -> 16
      start == IF kind = 2 THEN at + 4 ELSE at + 3
  IN  [address |-> [kind |-> CASE kind = 1 -> "v4" [] kind = 2 -> "domain" [] kind = 3 -> "v6",
                    host |-> SubSeq(data, start, start + n - 1),
                    port |-> data[at] * 256 + data[at + 1]],
       firstData |-> SubSeq(data, start + n, Len(data))]

(* Where the client wants to go: the host it names in TLS, else the one it *)
(* asked the proxy for.                                                    *)
Wanted == IF session.name = <<>> THEN session.address
          ELSE [session.address EXCEPT !.kind = "domain", !.host = session.name]

(* The server connected to is the one the client names in its hello, when  *)
(* all of the hello came with the first data, whatever its fields and      *)
(* extensions are, and else the one the client asked the inbound for: what *)
(* is cut or no hello never changes the address.                           *)
HostIsSniffed == stage # "queued" => target = Wanted

(* The vless server reads from the request the address and first data of   *)
(* the session, unless the name does not fit the byte for its length.      *)
RequestIsUnderstood ==
  uplink # <<>> /\ outbound.type = "vless" /\ Len(Wanted.host) < U8 =>
    Decode(uplink[1]) = [address |-> Wanted, firstData |-> session.firstData]

(* A session is relayed only to a server that accepted it, and whatever    *)
(* messages or segments the answer comes in, the client gets all of it     *)
(* after the two bytes of the handshake, in order.                         *)
DownlinkIntact ==
  LET answered == IF outbound.type = "vless" THEN 2 ELSE 0
  IN  stage = "relay" =>
        /\ replied >= answered /\ (answered = 2 => Accepts(SubSeq(answer, 1, 2)))
        /\ delivered \o buffer_ \o Data(received) = SubSeq(answer, answered + 1, replied)

(* What the server has sent reaches the client without a further message   *)
(* having to come, also what came along with the handshake.                *)
AnswerReaches ==
  \A n \in 1 .. 4 :
    (stage # "failed" /\ replied >= n) ~>
      \/ stage = "failed"
      \/ Len(delivered) >= IF outbound.type = "vless" /\ replied >= 2 THEN n - 2
                           ELSE IF outbound.type = "vless" THEN 0 ELSE n
=============================================================================
