# Verification of cppsong in TLA+

cppsong is a proxy: it accepts SOCKS5 and HTTP clients, finds out which host they
want, chooses an outbound by rules, connects to the host directly or through a
VLESS server, and relays bytes. It has its own DNS resolver with a cache and a
DNS server for others. The program is C++ with Boost.Asio coroutines on **one**
`io_context` and one thread; it has no documentation and no tests, so the
declarations, error messages and comments of the source are all it says about
itself. Paths below are relative to `src/src/`.

Contents: [inventory](#1-inventory), [modules](#2-modules), [runs](#3-what-is-checked),
[findings](#4-where-the-code-does-not-do-what-it-says), [proofs](#5-what-is-proved),
[limits](#6-what-is-not-modelled), [plan](#7-plan).

## How the code is read

Everything runs on one thread, so the code between two suspension points
(`co_await` of an operation that waits) is one atomic step, and the interleavings
are those of the suspended coroutines. Four facts of Asio are used throughout:

* `co_spawn` from a running coroutine runs the new one up to its first suspension;
* the completion of an operation never resumes a coroutine inside the call that
  starts or cancels it: it is posted, and the coroutine runs at some later time;
* `steady_timer::cancel` posts the coroutine that waits on the timer, and is not
  remembered when nobody waits;
* destroying or closing a socket aborts its pending operations, except those that
  have already completed and are only waiting to run.

Awaiting a coroutine that does not suspend (`AsyncQueue::put`) is a plain call. An
exception that leaves a coroutine spawned with `detached` ends that coroutine and
nothing else.

## 1. Inventory

| Component | State | Operations | Talks to |
|---|---|---|---|
| Async queue (`utils/asyncqueue.hpp`) | deque of values, deque of waiters (timer, flag, optional value) | `put`, `get`, `wait`, `complete` | joins listener → inbound → application and socket → DNS |
| TCP connect (`tcp/tcpclient.cpp`) | shared optional socket, timer, one coroutine per address | `connect_address`, `connect_ip`, `connect_address_work` | DNS center; used by the transports |
| Relay (`connections/relay.cpp`) | two shared connections, a timer, three coroutines | `relay`, `forward` | connections |
| Connections (`connections/*.cpp`) | stream; `WssConnection::buffer_` | `read`, `read_exactly`, `write`, `close` | inbound, outbounds, relay |
| Mixed inbound (`inbounds/mixed.cpp`) | per connection: position in the handshake, buffer, address; queue of sessions | `mainWork_`, `handle_`, `handleSocks5_`, `handleHttp_` | listener's queue, application |
| Listener (`listeners/tcp.cpp`) | acceptor, queue of connections | `start`, `mainWork_`, `close` | inbound |
| Application (`common/app.cpp`) | router, map of outbounds | `run`, `inboundWork_`, `handleSession_` | everything |
| Configuration, builder (`config`, `common/builder.cpp`) | parsed document, map of rule sets | `build*`, `loadRuleSets`, `paresAppConfig` | application |
| Rules, router (`router`) | rules, networks, default | `match`, `matchDomain`, `contains`, `parseCidr` | application, DNS center |
| Outbounds, transports (`outbounds`, `transports`) | server, user id, TLS context | `connect` | TCP connect, connections |
| DNS center, cache (`dns/dns.cpp`, `dns/cache.cpp`) | rules, servers, cache, DNS socket | `resolve`, `relay`, `handleClient_`, `mainWork_`, `lookup`, `store` | DNS servers |
| DNS over UDP (`dns/servers/udp.cpp`, `udp/udpclient.cpp`) | socket, queue of datagrams | `relay`; `start`, `send`, `session`, `close`, `receive_work_` | network |
| DNS over HTTPS (`dns/servers/https.cpp`) | none between calls | `relay` | network |
| DNS messages (`dns/message.cpp`), sniffing (`sniff/sniff.cpp`) | none | parsing, building | DNS center, application |
| Websocket server side (`connections/ws.cpp`, `listeners/ws.cpp`) | | never constructed | |

**What is hard here.** No operation has a timeout, so each wait must be ended by somebody else: the
waits on timers that never expire (queue, connect, relay) depend on a `cancel` that must be reached
on every path. Coroutines outlive the calls that spawned them (losing connection attempts,
`receive_work_`, one direction of a relay) and must find their objects alive. TCP cuts requests
anywhere, and a websocket does not. Messages (TLS hellos, DNS) nest lengths in lengths and may be
cut at any byte. One process-wide limit of descriptors is shared by all clients. Concurrent
resolutions share a cache across a suspension. The configuration is flattened in several orders,
with duplicate tags treated in different ways.

**What makes each component correct.** *Queue*: each value to exactly one consumer,
in order, no lost wake-up. *Connect*: the first success is returned and stays, no
socket leaks, a failure is reported. *Relay*: each direction is a pipe; it ends for a
cause of its own; connections live as long as their coroutines and no longer.
*Inbound*: address and payload as the client sent them, unsupported requests
refused, no client held up by another. *Session*: the server understands the
request, the host is the one the client names, refusals are honoured, the answer
arrives whole. *Application*: every connection has one owner, and no client waits for
another. *DNS*: the server is asked for the name to be looked up, an answer is read
whole or not at all, and goes to the question it answers; used entries stay, idle ones
go. *Startup*: what was configured is what is matched; a session never takes an outbound
that does not exist, as long as the document defines those it names.

All hazards, with their lines and the properties that watch them, are in
`PROJECT.json` under `hazards`.

## 2. Modules

An operator or variable has the name of the function or member it models where
TLA+ allows it; `PROJECT.json` maps each of them to its lines. Operators whose
comment begins with "Mutant" are deliberate errors, used to show that a property
can fail; no specification refers to them.

| Module | Models | Uses |
|---|---|---|
| `Channel` | what a queue promises: FIFO, each value to one consumer | |
| `AsyncQueue` | `AsyncQueue<T>` | refines `Channel` |
| `TcpClient` | one call of `connect_address` with its attempts | |
| `Pipe` | what one direction of a relay promises | |
| `Relay` | `relay()` and both `forward()`s between two peers | refines two `Pipe`s |
| `UdpDnsServer` | one `UdpDnsServer::relay` and its `UdpClient` | |
| `Bytes` | big-endian numbers, fields with a length in front | |
| `Message` | DNS messages: build, parse, skip names | extends `Bytes` |
| `Lookup` | one lookup end to end, over UDP or HTTPS | extends `UdpDnsServer`, `Message` |
| `Sniff` | `sniffDomain` | extends `Bytes` |
| `DnsCenter` | `resolve`, DNS clients, cache and sweep | |
| `Rules` | `matchDomain`, `match`, `contains`, `parseCidr` | |
| `Startup` | `paresAppConfig`, `Builder`, `App::run`, routing | extends `Rules` |
| `MixedInbound` | the handshakes with SOCKS5 and HTTP clients | |
| `Session` | `handleSession_`: sniffing, outbounds, transports, what the relay reads | extends `Sniff` |
| `Visits` | what the proxy promises each of its clients | |
| `App` | the loops of all listeners, inbounds and the application, with the sockets they share | refines `Visits` |
| `SequenceLemmas`, `*Proofs` | theorems | |
| `MC*` | instances for TLC | |

How state and steps correspond to the code, where it is not one to one:

* **AsyncQueue.** A waiter is named by the consumer that created it, since a consumer
  has at most one. `timer[c]` goes `none → waiting → cancelled → none`; a waiter that
  was completed but has not resumed is `cancelled`, and its value is in `value[c]`.
  `puts`, `handed` and `got` are histories. The refinement maps what was handed to a
  waiter that has not resumed to the consumer's inbox.
* **TcpClient.** `sock[i]` follows the socket of attempt `i` wherever it is moved:
  the frame, the optional, the caller. The answer of the operating system
  (`Established`, `Refused`) is a step apart from the resumption of the coroutine,
  which is when races are decided.
* **Relay.** A chunk is what one read returns. `outbox[s]` holds what the socket has
  accepted and the peer has not read; its bound, `Window`, is why `write` waits. The
  two connections exist as long as one of the three frames does (`open`); they are
  held by `shared_ptr` parameters and closed by nothing else. Closing a socket with
  unread data resets the connection, so what its peer has not read may be lost: a
  choice in `Release`.
* **UdpDnsServer.** `touched` records that `receive_work_` used its `UdpClient` after
  the frame it lives in has ended. What follows is undefined; the model lets that
  coroutine end.
* **Lookup.** A step of `UdpDnsServer` is a step of the lookup; when it ends `relay()`,
  the caller runs on in the same step: the answer is parsed, which throws or returns.
  The bytes are real. What is asked and answered comes as cases, which say both what is
  meant (labels, records) and what is sent; `Asks` and `Answers` relate the two by the
  layout of a DNS message (`WireName`, `AnswerBytes`), with no use of the code's
  functions, so that the code's reading is compared with the labels and addresses a
  case was made of. An HTTPS lookup is four waits, each of which may fail.
* **Bytes, Message, Sniff.** Loops with a cursor are recursive functions of the
  position. Every read is an application of the sequence, so TLC would stop at a read
  outside the data; none happens in the instances checked.
* **DnsCenter.** Time is a counter; `expTime_` ticks are the hour, and the sweep may
  run up to `Late` ticks after its timer fires. `replies` and `used` are histories.
  A domain outside `Known` is one whose tag names no server.
* **Rules, Startup.** Words are sequences of characters because the suffix rule looks
  at the character before the suffix. Addresses are short: `V4Bits` for 32,
  `V6Bytes` × `ByteBits` for 16 × 8. Maps from tags hold positions in the
  configuration, so "the first" and "the last" of a tag can be told apart; position 0
  (`Null`) is the null pointer that `operator[]` makes for a tag nobody defined. A session
  that takes it dereferences it in the same step, which ends the process: `phase` is
  `crashed` then. A DNS server that is not found is an exception, which ends the query only.
  Of the parsing the ports are modelled, wherever the document has one, with the check and
  the narrowing of `getu16`.
* **MixedInbound.** `pc[c]` is the suspension point; the step at a `pc` is the code
  from there to the next suspension. Bytes are numbers; a word of an HTTP line is one
  of them. Clients send their requests in pieces of any size, and stop or leave at
  any point. `parse_uri_reference` is the constant `Uri`; the model states what it
  does with the four kinds of target used. In the line for the server the target is
  replaced by the word `Path`, which stands for `url.path()`: what that leaves out of the
  target is not modelled (section 6).
* **Session.** What a client says in its hello is a part of the case as well, and
  `HelloBytes` how it says it. The three transports differ in their handshakes and in what a read
  returns: a stream gives what there is, a `WssConnection` one message, of which
  `read_exactly` keeps the rest in `buffer_`.
* **App.** `stage[c]` says where the connection of `c` and its coroutine are; what
  happens inside a handshake, a connect or a relay is in the other modules, and here
  takes any time, fails, or never ends. The two `AsyncQueue`s are sequences, which is
  what `ImplementsChannel` allows. A listener whose accept fails, which it may at any time, is
  `deaf`: its acceptor stays open, so the kernel goes on completing connections for it.
  `opened[c]` counts the sockets the session of `c` has besides the client's: lookups and
  attempts to connect open and close them, also after the session has ended, and one stays
  with a session that relays. DNS clients' lookups take more, which are not counted: they
  could only make an accept or a connect fail, which both may do anyway.

## 3. What is checked

Each passing run checks the properties below, some with a type invariant; the comment
at each property says what code it is about. `CHECK_DEADLOCK FALSE` stands where calls
end or environments may fall silent.

| Run (`.cfg`) | Shows | Bounds, and why they are enough |
|---|---|---|
| `MCAsyncQueue` | no value beside a sleeping waiter, none lost, doubled or overtaken (refinement of `Channel`), no lost wake-up | 4 values, 3 consumers: values alternate between deque and waiters, two consumers sleep while a third is woken |
| `MCTcpClient` | no leak, the winner stays, the caller wakes for a result and gets it | 3 attempts: a winner, a late success and a failure at once; literal addresses and empty results too |
| `MCRelay` | ends for cause, delivery, release, refinement of two `Pipe`s | 2 chunks each way, window 1: writes wait, data is under way in each place at once; close, half-close and reset at any time |
| `MCLookup` | the right name is asked of the right server, an answer is read whole or not at all; first reply returned, use after the end only after a second datagram or failed send, ends | up to 3 datagrams: one returned, one completed, one in the socket; names with labels of 63 and 64 and lengths of 255 and 256, trailing and double dots, queries cut or without a name; answers with other types and classes, aliases, pointers, no or several questions, cut at every length and by the receive buffer (`MaxDatagram` 60 for 4096) |
| `MCDnsCenter` | cache holds true answers, own answers, expiry both ways | 2 resolves, 2 clients, 3 names, 4 ticks with a period of 1: overlapping calls for one name and for two, four sweeps |
| `MCStartup` | routing and server choice as configured; a null outbound is taken only if the document names a tag it does not define; networks are read inside of an address | pairs of rules over all kinds of rule, several rule sets with duplicates; tags of outbounds and servers defined twice or not at all, the final outbound defined or not; 12 addresses; one broken item at a time, among them prefixes one bit too long and ports too large or negative |
| `MCMixedInbound` | payload intact, only supported requests and with their address, complete requests served, leavers released | 15 kinds of request cut at every byte, beside a client that may stall anywhere |
| `MCSession` | host as the hello names it, request understood, answer intact and delivered, refusals | IP, short and long names; hellos whole, with other extensions and names before the one looked for, and cut at every length; 4 outbounds, 3 answers cut in all ways, with empty and text messages; a modulus of the length byte small enough that a long name occurs |
| `MCApp` | one owner per connection, every client served as if alone (refinement of `Visits`, with fairness) | 3 clients, 2 inbounds, 4 sockets, up to 2 of them for one session (`MaxOpened`): two clients wait in one queue while a third is at the other inbound, and the sockets run out between an accept, a handshake, two attempts and a relay |

Names longer than the byte for their length are in the instance of `MCSession`, and
`RequestIsUnderstood` is stated for those that fit: a longer name reaches the server
cut (`outbounds/vless.cpp:25`).

**Fairness.** Weak fairness is assumed of the coroutines: the `io_context` runs what
is ready. In `AsyncQueue` the consumers call `get` again, as the loops that use it
do; in `Relay` a peer that still reads is assumed to read on; in `UdpDnsServer` and
`Session` a send is assumed to end. No resolver, server, client or peer is assumed to
answer, to send, or to close; liveness is stated so that it does not need it. In `App`
only the three loops are fair, and the end of a handshake whose client has left. There an
accept completes, with a connection or with an error, when a client waits for it; that it
ever fails while none waits is allowed, and not assumed.

## 4. Where the code does not do what it says

Three runs end in a counterexample, each of one property that states what the source
says of itself:

* `MCTcpClientAllFail`, `FailureIsReported`: "all tries to connect address fail"
  (`tcp/tcpclient.cpp:54`) is never thrown. Only a success cancels the timer, so when
  all attempts fail, or a name has no address, the caller waits for ever.
* `MCStartupNetworks`, `NetworksRoutedAsConfigured`: `IpNetwork::contains(addr)`
  compares the network with itself (`router/ipnet.cpp:8,19`): any address of the
  family is contained.
* `MCMixedInboundTarget`, `EstablishedAsAsked`: `CONNECT name:port` is answered
  "200 Connection Established" (`inbounds/mixed.cpp:161`), but its target is parsed
  as a URI with the scheme `name`: the session has an empty host and port 443. With
  TLS, sniffing repairs the host, and nothing the port.

Four more have no run of their own. "parse json u16 fail" (`utils/json.cpp:24`) is thrown
for numbers that are too large, and not for negative ones, which line 26 narrows to other
ports: `getu16` does so, and the instances have such ports. A rule, or the final one, may name an outbound
that the document does not define; nothing checks that. The first session that is routed
there inserts a null pointer (`common/app.cpp:59`) and dereferences it (line 62), which
ends the process and with it all other sessions: `Route` goes to `crashed`, and
`DefinedTagsNeverCrash` says what a document has to define to be safe. The loop that
should "read all body" (`inbounds/mixed.cpp:152`) does not end for a CONNECT request
without header lines, because the end of the first line was already erased
(line 126): `SkipHeaders` behaves so, and `Served` leaves such requests out. And an
accept that fails once, for instance for want of descriptors, ends that inbound for
good, while its clients still find an open port (`AcceptFails`, `Dial`).

The models behave like the code in all of these; the properties of the passing runs are
stated so that they hold beside them (`AddressAsAsked` and `Served` name their
exceptions).

## 5. What is proved

TLAPS proves these for every value of the constants, under the `ASSUME`s of the
modules only:

| Module | Theorems |
|---|---|
| `InboundProofs` | of the queue: `TypeCorrect`, `NoStranding`, `FifoOrder`, `WakeupCarriesValue`, `ImplementsChannel`; of the clients' side: `InboundReads`, `PayloadKept`, `AddressKept` |
| `SessionProofs` | of a connect: `TypeCorrect`, `NoLeak`, `ReturnsConnected`, `WakeupNeedsResult`, `WinnerIsFinal`; of a session: `HostSniffed`, `RequestUnderstood`, `DownlinkKept` |
| `RelayProofs` | `TypeCorrect`, `NoLoss`, `NoEarlyEnd`, `NoDangling`, `TimerIsRight`, `ImplementsPipes` |
| `DnsCenterProofs` | `TypeCorrect`, `CacheIsTrue`, `AnswersAreOwn`, `IdleIsBounded`, `UsedStays` |
| `LookupProofs` | of a query over UDP: `TypeCorrect`, `ReturnsFirst`, `SafeWithOneReply`, `NoDatagramLost`; of a lookup: `NameAsked`, `AnswersRead`, `LookupIsUdp`, `LookupReturnsFirst` |
| `AppProofs` | `TypeCorrect`, `OwnersAreUnique`, `ImplementsVisits` |
| `StartupProofs` | `NamesRouted`, `ServersChosen`, `NeverCrashes`, `ReadsInside` |

With these, every safety property of the passing runs is proved; what is left to TLC
is liveness.

**Assumptions.** The value for "none" is not a value, bounds are naturals, calls of
two kinds are different, and the clients of `MixedInbound` are finitely many
(`ConnsAssumption`: they are accepted in some order); beyond that they say what an
input is.
`CasesAssumption` (`Session`): data are sequences of bytes, an IPv4 address has 4 bytes,
an IPv6 address 16, a port is below 65536, and first data that begin like a TLS hello
(`Says`) hold one, whole with anything behind it, or cut anywhere. A hello is a record
with any session id, ciphers and compression methods, and any extensions, of which those
of type 0 hold any list of names, also none. `ConfigsAssumption` and `AddressesAssumption`
(`Startup`): the document and the addresses asked about are typed; a port is any integer,
and a prefix any natural number or none. `OpenedAssumption` (`App`): the bound on the
sockets of a session is a natural number. `AsksAssumption` (`Lookup`): what a
case says it asks is what its text or bytes hold. For `resolve` that is any text,
divided by dots into labels of any length; for a DNS client it is any bytes of which the
question begins with the labels, or is cut inside of them. `AnswersAssumption`: what a
server answers is a DNS message, whole with anything behind it, or cut anywhere; it has
any questions and records of any types and lengths, and names with any labels of up to
63 bytes that end by themselves or in a pointer to anywhere. `RequestsAssumption`
(`MixedInbound`): a request is made of bytes, an IP address has the length of its kind, a
method or target is one word that is not the line's end, no method is the byte 5 that
opens a SOCKS5 dialogue, and the URI, where it has a host, is the one of what the client
wants. TLC evaluates all of them on the instances.

The arguments:

* **Queue.** `IInv` adds to the properties that the waiters in the deque are exactly
  the consumers that sleep, each once (`WaitersAsleep`): without it `put` might
  complete a waiter that has already been given a value. For the refinement, a
  `put` with a waiter is the channel's `SendTo` (the deque is empty then, so
  everything sent was delivered), a `put` without is `Send`, `GetNow` is `Deliver`,
  and a resumption is a stutter.
* **Inbound.** `InboundInv` says for each suspension point what of its request a handler
  has not consumed, be it in the socket or still with the client (`Rest`): the request
  from the next field on. For SOCKS (`SocksAsRead`) the length awaited is then that of
  the field. For HTTP (`HttpAsRead`) the text kept stands before the rest, and a line end
  or an empty line found in what has arrived is that of the head, however little that is
  (`FirstLineEnds`, `EmptyLineEnds`). `Answered` counts the replies: a client that waits
  for the answer to `CONNECT` has sent nothing behind the head, so `buffer` holds nothing
  that its dropping could lose. `Handed` keeps for each session what is owed to the
  server: the first data and the rest are the stream.
* **Connect.** `IInv` ties the caller's stage to the attempts (`Phases`) and each
  socket's state to its attempt's (`Sockets`): the optional is engaged exactly by an
  attempt that has won, and the timer is cancelled only together with it.
* **Session.** `DownlinkInv`: before the relay, what was delivered, the websocket's
  buffer and the messages in the socket make up what the server has sent so far; the
  buffer is used by websockets only; and only vless waits for a response.
  What the messages hold together is a flattened sequence, and the lemmas on those
  (`FlattenAppend`, `FlattenHead`) say what sending and reading a message do to it.
  `RequestUnderstood` is about bytes: `Layout` says where each field of the request
  lies, `DecodesRequest` that a server that reads it field by field gets back what was
  put in, and `RequestInv` that the target is final when the request is written, which
  is `Wanted` by `HostSniffed`.
* **Sniffing.** `HostSniffed` compares a cursor that follows lengths with a message whose
  lengths are nested, and the first data may end at any byte of it. Each lemma takes one
  level: `NamesRead` the list of names, which the code bounds by the extension and not by
  the list's own length, `ExtensionsRead` the extensions, `HelloRead` the fixed fields
  before them. Each says that at the place of an item the loop goes on to the place of
  the next, or stops with what the reference finds first; if a field is cut, `After`
  leads out of the data, and stays outside.
* **Relay.** Two invariants. `IInv` is about data: a coroutine holds a chunk exactly
  while it writes (`DataHeld`), and what was sent is what was carried, what is in the
  inbox and a lost rest (`InOrder`), which survives resets and the end of the
  direction, where `NothingLost` says nothing; the refinement needs it. `LInv` is
  about lifetimes.
* **DNS.** `IInv` adds that queued queries are those that wait, each once
  (`QueueOfWaiting`), and `Stamps`: entries are stamped in the past, not before their
  last use, and the sweep's timer is never more than a period ahead.
* **DNS over UDP.** `IInv` counts: while `relay()` runs, the datagrams that arrived are
  those in the waiter, the deque, the coroutine and the socket (`Counted`), and the
  first of them is ahead of the others (`FirstAhead`). When it returns with one of
  them, whatever `receive_work_` still holds is a second one (`SecondHeld`), which is
  what makes one reply safe.
* **Lookup.** `NameAsked` follows the text of a name to the wire and back: `LabelsAre`
  (the characters between two dots are a label, whatever stands before and behind them),
  `Encodes` (`build_dns_query` writes exactly the valid names, each label after its
  length), `ParsesLabels` (the loop of `parse_dns_query` at the place of a label goes on
  at the place of the next), and `NameIsAsked`, which joins them. The loops are recursive
  functions; what they compute for a name of any length is shown by induction over the
  labels (`SetInduction`, below). A text may end in two dots and still be a name: the code
  drops one (`dns/message.cpp:25`), and the other ends the last label. `LookupIsUdp` shows that what a lookup adds to
  `UdpDnsServer` never disturbs it, so that the theorems about one query hold in it.
* **Answers.** `AnswersRead` is the same comparison for `parse_dns_response`: `NameSkipped`,
  `QuestionsRead` and `RecordsRead` follow the cursor through names, questions and
  records, and `ParsesAnswer` joins them. What has arrived of a message is said by `Lies`
  (a part lies in the data as far as the data go), and where the cursor is by `Clip` (at
  the place in the whole message, or outside of the data if they end before): so one
  argument serves whole and cut answers, and shows that a cut one always throws. The
  inductive `AnswerInv` adds to `AskInv` that the first datagram to arrive is what the
  receive buffer kept of `answer` (`AnswerArrived`), and that a lookup has one server
  (`OneServer`); with `ReturnsFirst` the datagram that is parsed is that one.
* **Application.** `OneOwner` is inductive with the types. Three lemmas say what it
  means for one queue that a client enters it, leaves it, or moves elsewhere
  (`Enqueue`, `Dequeue`, `Aside`); each action is one or two of them. The refinement
  maps each action to a step of the client at the head of the queue, which `OneOwner`
  shows to be a client of that inbound. Its liveness is checked by TLC.
* **Startup.** Each build step leaves something for the later ones (`RuleSetsLoaded`,
  `DnsComplete`, `RoutesBuilt`), and the last definition of a tag is one of the
  definitions checked (`MaxIsMember`). For `NamesRouted` and `ServersChosen` the program
  and the reference differ in the way they walk: the program makes one flat list of
  (rule, outbound) and takes the first that matches, the document nests rules in rule
  sets in routing rules. `SetsFlattened`, `RouteRuleHits` and `DnsRuleHits` show that a
  stretch of the flat list matches exactly if its routing rule does, and `RouteAgrees`
  and `ServerAgrees` that the first hit is then in the stretch of the first routing rule
  (the lemma `FlattenPlaces` says which stretch a place is in). `Built` says that the
  maps and lists of the running program are those functions of the document. For
  `NeverCrashes`, the tag `Router::match` returns is the final one or that of a rule
  (`RoutedTag`), and where the document defines it, the map has a place for it that is not
  null (`PlaceIsNotNull`), whatever was looked up before. For `ReadsInside`, the rules of a
  built route rule are those its item has in the document, compiled (`RouteRuleRules`);
  each of them was checked when it was loaded (`DefinitionsLoad`), also in a rule set with
  several definitions; and what `parseCidr` lets pass is inside (`ParsedInside`), where the
  bytes of a prefix are at most those of the address (`BytesTouched`).

`SequenceLemmas` holds what several proofs cite: slices and suffixes, flattened
sequences, what the parts of a concatenation are, where a field with a length in front
lies and ends in a message (`FieldTaken`, `FlattenTaken`), and ways to reason by induction
although the induction theorems of the library, which take a formula as a parameter,
cannot be used: `SetInduction` takes a property as a set of numbers, and `Recursion`,
`Stepwise` and `Walk` give a recursive function its equation, where it recurs on
smaller arguments, where it builds a result step by step, and where it goes on to any later
position, as the loops with a cursor do.

Proved, but in no run's list, because the proof covers every instance and a run
already watches a consequence or a neighbour of it: `Fifo` (`ChannelSpec`),
`ReturnedIsConnected` (`NoSocketLeaks`, `SuccessIsReturned`), `NothingLost`
(`PipeSpecs`), `ConnectionsOutliveForwards` and `TimerFollowsForwards` of the relay
(`SessionEnds`), `WokenWithValue` of the queue (`NoValueBesideWaiter`,
`EveryPutIsGot`), `Counted` of the UDP client (`FirstReplyReturned`), the types of
`UdpDnsServer` and `App`, and `EmptyAsksAgain` inside the invariant of `DnsCenterProofs`.

Model-checked only: the liveness properties, and the fairness in `EachAsIfAlone`
(fairness and `ENABLED` are out of the prover's reach), and the three properties of
section 4, which do not hold.

## 6. What is not modelled

* The password branch of SOCKS5 (`inbounds/mixed.cpp:61-78`): the builder passes no
  users, so it cannot be reached.
* The websocket server side, TLS and WSS listeners: never constructed, or empty files.
* `DnsCenter::resolve` without an instance, `DnsCenter::stop`, `close` of listeners and
  inbounds: never called once the `io_context` runs.
* Members of the wrong JSON type, invalid regular expressions and unreadable files:
  they throw while the program starts, like the broken items that are modelled.
* First data that begin like a hello and are none, hellos without extensions' length, or
  split over two TLS records: `Sniff` does with them what `sniffDomain` does, but nothing
  says which host they name, so they are not among the inputs. The same holds for
  answers with a label of 64 to 191 bytes, which `skipName` refuses.
* Whether an answer belongs to the query: neither the id of a DNS answer nor the
  status of an HTTPS response is looked at by the code.
* The upload after the first data while a vless server is waited for: no text of the
  source says what servers of that kind do.
* `read_u32`, `read_u64`, their writers, and writing at a position: used nowhere.
* What `url.path()` makes of a target (`inbounds/mixed.cpp:171`): it leaves out the query
  and decodes percent signs, so a server gets another target than the client asked for.
  `Path` is one word, and `PayloadIntact` does not look inside of it.
* The contents of TLS and websocket framing, and of relayed bytes.
* Memory limits, and signals.

## 7. Plan

Done, in the order of importance: the queue that joins everything; the two other
places that wait on a timer (connect, relay); DNS, with its messages; configuration and
routing; the client's side; the server's side, with sniffing; the loops of the running
program and the sockets they share.

Next:

1. `MixedInbound` and `Session` in one instance, so that a client's bytes are followed
   from its first request into the relay.
2. The JSON types of the configuration's members.
