------------------------------- MODULE Lookup -------------------------------
(***************************************************************************)
(* One lookup end to end: DnsCenter::resolve on a miss, or handleClient_   *)
(* with the query of a DNS client (src/dns/dns.cpp).  The query is built   *)
(* or taken over, relay() reads the name in it and asks the server of the  *)
(* name, a UdpDnsServer or an HttpsDnsServer (src/dns/servers/https.cpp),  *)
(* and the answer is parsed.  Calls that overlap are in DnsCenter.         *)
(***************************************************************************)
EXTENDS UdpDnsServer, Message, Functions

CONSTANTS
  Cases,       \* [ask, server, answers]: what is asked, the kind of its server ("none" if
               \* match_ names none), and what that may answer.  ask is [caller, domain, data,
               \* valid, labels]: resolve() gets domain, a client sends data; labels are those
               \* of the name (see Asks).  An answer is [head, questions, records, counts,
               \* data]: the parts of the message, and what comes of it (see Answers)
  Ids,         \* what randomId may return
  MaxDatagram, \* the receive buffer of UdpClient
  NoAnswer     \* the server has not answered

(* A name on the wire, and with dots between its labels. *)
Labels(labels) == FlattenSeq([i \in DOMAIN labels |-> ShortField(labels[i])])
WireName(labels) == Labels(labels) \o <<0>>
Dotted(labels) ==
  FlattenSeq([i \in DOMAIN labels |-> IF i = 1 THEN labels[i] ELSE <<Dot>> \o labels[i]])

(* What a case asks.  The domain of resolve() is any characters, divided   *)
(* into labels by dots, and valid if it is a name: one dot at its end ends *)
(* the last label, and encodeQname drops another.  The data of a client    *)
(* has a whole name in its first question, or is cut inside of it.         *)
Asks(ask) ==
  LET wire == WireName(ask.labels)
  IN  /\ ask.labels \in Seq(Seq(Nat))
      /\ \/ /\ ask.caller = "resolve"
            /\ \A i \in DOMAIN ask.labels : Dot \notin Range(ask.labels[i])
            /\ \E dots \in {<<>>, <<Dot>>, <<Dot, Dot>>} :
                 /\ ask.domain = Dotted(ask.labels) \o dots
                 /\ dots # <<Dot, Dot>> => ask.labels = <<>> \/ Last(ask.labels) # <<>>
            /\ ask.valid = /\ Len(ask.domain) <= 255 /\ ask.labels # <<>>
                           /\ \A i \in DOMAIN ask.labels : Len(ask.labels[i]) \in 1 .. 63
         \/ /\ ask.caller = "client" /\ ask.data \in Seq(Nat)
            /\ \A i \in DOMAIN ask.labels : ask.labels[i] # <<>>
            /\ ask.valid = (Len(ask.data) >= 12 + Len(wire))
            /\ \A k \in 13 .. Len(ask.data) : k - 12 <= Len(wire) => ask.data[k] = wire[k - 12]

ASSUME AsksAssumption == \A c \in Cases : Asks(c.ask)
ASSUME IdsAssumption == Ids \subseteq Nat

(* An answer on the wire: its names may end in a pointer to another name.  *)
NameBytes(name) == Labels(name.labels) \o name.end
QuestionBytes(q) == NameBytes(q.name) \o q.kind
RecordBytes(r) ==
  NameBytes(r.owner) \o write_u16(r.type) \o write_u16(r.class) \o r.ttl \o Field(r.rdata)
AnswerBytes(a) ==
  a.head \o write_u16(Len(a.questions)) \o write_u16(Len(a.records)) \o a.counts
    \o FlattenSeq([i \in DOMAIN a.questions |-> QuestionBytes(a.questions[i])])
    \o FlattenSeq([i \in DOMAIN a.records |-> RecordBytes(a.records[i])])

(* The addresses in it: of class IN, four bytes of type A, 16 of type AAAA. *)
AddressesIn(r) ==
  IF r.class = 1 /\ <<r.type, Len(r.rdata)>> \in {<<A, 4>>, <<AAAA, 16>>} THEN <<r.rdata>> ELSE <<>>
Addresses(a) == FlattenSeq([i \in DOMAIN a.records |-> AddressesIn(a.records[i])])

Names == [labels : Seq(Seq(Nat)), end : {<<0>>} \cup ((192 .. 255) \X Nat)]
IsName(name) ==
  name \in Names /\ \A i \in DOMAIN name.labels : Len(name.labels[i]) \in 1 .. 63

(* What a server answers begins with a message, or is cut inside of it.    *)
Answers(a) ==
  LET wire == AnswerBytes(a)
  IN  /\ a.head \in Seq(Nat) /\ a.counts \in Seq(Nat) /\ Len(a.head) = 4 /\ Len(a.counts) = 4
      /\ a.questions \in Seq([name : Names, kind : Seq(Nat)])
      /\ \A i \in DOMAIN a.questions : IsName(a.questions[i].name) /\ Len(a.questions[i].kind) = 4
      /\ a.records \in Seq([owner : Names, type : Nat, class : Nat, ttl : Seq(Nat), rdata : Seq(Nat)])
      /\ \A i \in DOMAIN a.records : IsName(a.records[i].owner) /\ Len(a.records[i].ttl) = 4
      /\ a.data \in Seq(Nat)
      /\ \A k \in 1 .. Len(a.data) : k <= Len(wire) => a.data[k] = wire[k]

ASSUME AnswersAssumption == \A c \in Cases : \A a \in c.answers : Answers(a)
ASSUME MaxDatagramAssumption == MaxDatagram \in Nat

(* The receive buffer of a UDP client cuts a longer datagram. *)
Received(data) == IF Len(data) > MaxDatagram THEN SubSeq(data, 1, MaxDatagram) ELSE data

ASSUME RepliesAssumption ==
  \A c \in Cases : c.server = "udp" => \A a \in c.answers : Received(a.data) \in Replies

VARIABLES case,    \* a member of Cases
          step,    \* relay() of DnsCenter and its caller: "start", "relay", "returned", "threw"
          asked,   \* the name match_ was given
          query,   \* what the server was sent
          https,   \* the suspension point of HttpsDnsServer::relay
          answer,  \* history: the first answer the server sent
          result   \* what resolve() returns or the client is sent

lookup == <<case, step, asked, query, https, answer, result>>

LookupInit == /\ Init
              /\ case \in Cases
              /\ step = "start" /\ https = "start"
              /\ asked = <<>> /\ query = <<>> /\ result = <<>>
              /\ answer = NoAnswer

-----------------------------------------------------------------------------
(* resolve() builds a query for IPv4 addresses; relay() parses the query,  *)
(* also its own, for the name.                                             *)
Ask(id) ==
  LET data == IF case.ask.caller = "resolve" THEN build_dns_query(id, case.ask.domain, FALSE)
              ELSE case.ask.data
      name == IF data = Throws THEN Throws ELSE parse_dns_query(data)
  IN  /\ step = "start"
      /\ IF name = Throws \/ case.server = "none" THEN step' = "threw" /\ UNCHANGED <<asked, query>>
         ELSE step' = "relay" /\ asked' = name /\ query' = data
      /\ UNCHANGED <<vars, case, https, answer, result>>

(* The server's relay() returns: the answer is parsed, which may throw; a  *)
(* client gets it as it came.                                              *)
Parse(data) ==
  LET addresses == parse_dns_response(data)
  IN  IF addresses = Throws THEN step' = "threw" /\ UNCHANGED result
      ELSE /\ step' = "returned"
           /\ result' = IF case.ask.caller = "resolve" THEN addresses ELSE data

(* A step of UdpDnsServer; when its relay() is over the caller goes on.    *)
UdpStep == /\ case.server = "udp" /\ query # <<>>
           /\ Step
           /\ CASE relay' # relay /\ relay' = "returned" -> Parse(returned')
                [] relay' # relay /\ relay' = "threw" -> step' = "threw" /\ UNCHANGED result
                [] OTHER -> UNCHANGED <<step, result>>
           /\ UNCHANGED <<case, asked, query, https, answer>>

(* The UDP server answers. *)
ServerAnswers == /\ case.server = "udp"
                 /\ \E a \in case.answers :
                      /\ Arrive(Received(a.data))
                      /\ answer' = IF arrived = <<>> THEN a ELSE answer
                 /\ UNCHANGED <<case, step, asked, query, https, result>>

(* HttpsDnsServer::relay: one connection for one request.                  *)
HttpsSteps == <<"start", "connect", "handshake", "write", "read">>
HttpsStep == /\ case.server = "https" /\ step = "relay"
             /\ \E i \in 1 .. Len(HttpsSteps) - 1 :
                  https = HttpsSteps[i] /\ https' = HttpsSteps[i + 1]
             /\ UNCHANGED <<vars, case, step, asked, query, answer, result>>

(* The body of the response, whatever its status.                          *)
HttpsRead == /\ case.server = "https" /\ https = "read"
             /\ \E a \in case.answers : answer' = a /\ Parse(a.data)
             /\ https' = "ended"
             /\ UNCHANGED <<vars, case, asked, query>>

HttpsFails == /\ case.server = "https" /\ step = "relay" /\ https # "start"
              /\ https' = "failed" /\ step' = "threw"
              /\ UNCHANGED <<vars, case, asked, query, answer, result>>

LookupNext == \/ \E id \in Ids : Ask(id)
              \/ UdpStep \/ ServerAnswers
              \/ HttpsStep \/ HttpsRead \/ HttpsFails

LookupSpec == LookupInit /\ [][LookupNext]_<<vars, lookup>> /\ Fairness

-----------------------------------------------------------------------------
(* The server is chosen by, and asked for, exactly the name that is to be  *)
(* looked up: building and reading a query agree about labels, dots and    *)
(* limits.  What is no name, or cut, ends before anything is sent.         *)
QueryAsksName ==
  step # "start" =>
    /\ (query # <<>>) = (case.ask.valid /\ case.server # "none")
    /\ query # <<>> =>
         LET name == WireName(case.ask.labels)
         IN  asked = Dotted(case.ask.labels) /\ SubSeq(query, 13, 12 + Len(name)) = name

(* A lookup returns all the addresses of the server's answer and nothing   *)
(* else, whatever other records, pointers and sections are around them, or *)
(* throws: it never returns a part of an answer that was cut.              *)
AnswerIsRead ==
  relay = "returned" \/ https = "ended" =>
    LET data == IF case.server = "udp" THEN Received(answer.data) ELSE answer.data
    IN  IF Len(data) < Len(AnswerBytes(answer)) THEN step = "threw"
        ELSE /\ step = "returned"
             /\ result = IF case.ask.caller = "resolve" THEN Addresses(answer) ELSE data
=============================================================================
