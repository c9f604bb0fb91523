--------------------------- MODULE InboundProofs ---------------------------
(***************************************************************************)
(* Proofs about how a connection becomes a session: AsyncQueue, the queue  *)
(* that MixedInbound takes connections from and puts sessions on, for      *)
(* every set of values and consumers; and MixedInbound itself, for every   *)
(* number of clients and every request, however it is cut into pieces.     *)
(***************************************************************************)
EXTENDS AsyncQueue, MixedInbound, SequenceLemmas, FiniteSetTheorems

(* The waiters queued for a value are distinct and asleep. *)
WaitersAsleep ==
  /\ \A i \in 1 .. Len(get_waiters_) : timer[get_waiters_[i]] = "waiting"
  /\ \A i, j \in 1 .. Len(get_waiters_) :
       get_waiters_[i] = get_waiters_[j] => i = j

IInv == /\ TypeOK
        /\ NoValueBesideWaiter
        /\ Fifo
        /\ WokenWithValue
        /\ WaitersAsleep

-----------------------------------------------------------------------------
LEMMA InitIInv == Init => IInv
BY NoValueAssumption DEF Init, IInv, TypeOK, NoValueBesideWaiter, Fifo, WokenWithValue, WaitersAsleep

LEMMA StepIInv == IInv /\ [Next]_vars => IInv'
<1> SUFFICES ASSUME IInv, [Next]_vars PROVE IInv'
  OBVIOUS
<1> USE DEF IInv
<1>1. ASSUME NEW v \in Values, put(v), PutToWaiter(v) PROVE IInv'
  <2> DEFINE w == Head(get_waiters_)
  <2>1. get_waiters_ # <<>> /\ queue_ = <<>> /\ handed = puts
    BY <1>1, ConcatEmptySeq DEF PutToWaiter, NoValueBesideWaiter, Fifo, TypeOK
  <2>2. w \in Consumers /\ w = get_waiters_[1] /\ 1 \in 1 .. Len(get_waiters_)
    BY <2>1, HeadTailProperties, EmptySeq DEF TypeOK
  <2>3. timer[w] = "waiting" /\ ~done[w]
    BY <2>2 DEF WaitersAsleep, WokenWithValue
  <2>4. /\ timer' = [timer EXCEPT ![w] = "cancelled"]
        /\ done' = [done EXCEPT ![w] = TRUE]
        /\ value' = [value EXCEPT ![w] = v]
        /\ get_waiters_' = Tail(get_waiters_)
        /\ puts' = Append(puts, v) /\ handed' = Append(handed, v)
        /\ UNCHANGED <<queue_, got>>
    BY <1>1, <2>2, <2>3 DEF put, PutToWaiter, complete, TypeOK
  <2>5. TypeOK'
    BY <2>1, <2>2, <2>4, AppendProperties, HeadTailProperties DEF TypeOK
  <2>6. NoValueBesideWaiter' /\ Fifo'
    BY <2>1, <2>4, <2>5, ConcatEmptySeq DEF NoValueBesideWaiter, Fifo, TypeOK
  <2>7. /\ Len(get_waiters_') = Len(get_waiters_) - 1 
        /\ \A i \in 1 .. Len(get_waiters_') : get_waiters_'[i] = get_waiters_[i + 1]
        /\ Len(get_waiters_) \in Nat /\ Len(get_waiters_) > 0
        /\ DOMAIN get_waiters_ = 1 .. Len(get_waiters_)
        /\ DOMAIN get_waiters_' = 1 .. Len(get_waiters_) - 1
    BY <2>1, <2>2, <2>4, <2>5, HeadTailProperties, LenProperties DEF TypeOK
  <2>8. \A i \in 1 .. Len(get_waiters_') : get_waiters_'[i] # w
    BY <2>2, <2>7 DEF WaitersAsleep
  <2>9. WaitersAsleep'
    BY <2>2, <2>4, <2>7, <2>8 DEF WaitersAsleep, TypeOK
  <2>10. \A c \in Consumers : c # w /\ c \in Range(get_waiters_) => c \in Range(get_waiters_')
    <3> SUFFICES ASSUME NEW c \in Consumers, c # w, c \in Range(get_waiters_)
                 PROVE  c \in Range(get_waiters_')
      OBVIOUS
    <3>1. PICK i \in 1 .. Len(get_waiters_) : get_waiters_[i] = c
      BY <2>7 DEF Range
    <3>2. i - 1 \in 1 .. Len(get_waiters_') /\ get_waiters_'[i - 1] = c
      BY <3>1, <2>2, <2>7
    <3>. QED
      BY <3>2, <2>7 DEF Range
  <2>11. w \notin Range(get_waiters_')
    BY <2>7, <2>8 DEF Range
  <2>12. \A c \in Consumers : c \notin Range(get_waiters_) => c \notin Range(get_waiters_')
    BY <2>7 DEF Range
  <2>13. WokenWithValue'
    BY <2>2, <2>4, <2>10, <2>11, <2>12 DEF WokenWithValue, TypeOK
  <2>. QED
    BY <2>5, <2>6, <2>9, <2>13
<1>2. ASSUME NEW v \in Values, put(v), PutToQueue(v) PROVE IInv'
  <2>1. /\ get_waiters_ = <<>> /\ queue_' = Append(queue_, v) /\ puts' = Append(puts, v)
        /\ UNCHANGED <<get_waiters_, timer, done, value, handed, got>>
    BY <1>2 DEF put, PutToQueue
  <2>2. TypeOK'
    BY <2>1, AppendProperties DEF TypeOK
  <2>3. handed \in Seq(Values) /\ queue_ \in Seq(Values)
    BY DEF TypeOK
  <2>4. handed \o Append(queue_, v) = Append(handed \o queue_, v)
    BY <2>3, AppendRight
  <2>5. Fifo'
    BY <2>1, <2>4 DEF Fifo
  <2>. QED
    BY <2>1, <2>2, <2>5 DEF NoValueBesideWaiter, WokenWithValue, WaitersAsleep
<1>3. ASSUME NEW c \in Consumers, GetNow(c) PROVE IInv'
  <2>1. Head(queue_) \in Values /\ Tail(queue_) \in Seq(Values)
    BY <1>3, HeadTailProperties DEF GetNow, TypeOK
  <2>2. TypeOK'
    BY <1>3, <2>1, AppendProperties DEF GetNow, TypeOK
  <2>3. Fifo'
    BY <1>3, MoveHead DEF GetNow, TypeOK, Fifo
  <2>. QED
    BY <1>3, <2>2, <2>3 DEF GetNow, NoValueBesideWaiter, WokenWithValue, WaitersAsleep
<1>4. ASSUME NEW c \in Consumers, GetWait(c) PROVE IInv'
  <2>1. TypeOK'
    BY <1>4, AppendProperties DEF GetWait, TypeOK
  <2>2. /\ Len(get_waiters_') = Len(get_waiters_) + 1 /\ Len(get_waiters_) \in Nat
        /\ \A i \in 1 .. Len(get_waiters_) : get_waiters_'[i] = get_waiters_[i]
        /\ get_waiters_'[Len(get_waiters_) + 1] = c
        /\ DOMAIN get_waiters_ = 1 .. Len(get_waiters_)
        /\ DOMAIN get_waiters_' = 1 .. Len(get_waiters_) + 1
    BY <1>4, <2>1, AppendProperties, LenProperties DEF GetWait, TypeOK
  <2>3. \A i \in 1 .. Len(get_waiters_) : get_waiters_[i] # c /\ get_waiters_[i] \in Consumers
    BY <1>4, ElementOfSeq DEF WaitersAsleep, GetWait, TypeOK
  <2>4. WaitersAsleep'
    <3>1. timer'[c] = "waiting" /\ \A d \in Consumers : d # c => timer'[d] = timer[d]
      BY <1>4 DEF GetWait, TypeOK
    <3>2. \A i \in 1 .. Len(get_waiters_') : timer'[get_waiters_'[i]] = "waiting"
      BY <2>2, <2>3, <3>1 DEF WaitersAsleep
    <3>3. \A i, j \in 1 .. Len(get_waiters_') : get_waiters_'[i] = get_waiters_'[j] => i = j
      BY <2>2, <2>3 DEF WaitersAsleep
    <3>. QED
      BY <3>2, <3>3 DEF WaitersAsleep
  <2>5. \A d \in Consumers : d \in Range(get_waiters_') <=> d = c \/ d \in Range(get_waiters_)
    BY <2>2 DEF Range
  <2>6. WokenWithValue'
    BY <1>4, <2>5 DEF WokenWithValue, GetWait, TypeOK
  <2>7. NoValueBesideWaiter' /\ Fifo'
    BY <1>4 DEF GetWait, NoValueBesideWaiter, Fifo
  <2>. QED
    BY <2>1, <2>4, <2>6, <2>7
<1>5. ASSUME NEW c \in Consumers, Resume(c) PROVE IInv'
  <2>1. value[c] \in Values
    BY <1>5 DEF Resume, WokenWithValue
  <2>2. TypeOK'
    BY <1>5, <2>1, AppendProperties DEF Resume, TypeOK
  <2>3. WaitersAsleep'
    BY <1>5, ElementOfSeq DEF Resume, TypeOK, WaitersAsleep
  <2>4. WokenWithValue'
    BY <1>5 DEF Resume, TypeOK, WokenWithValue
  <2>. QED
    BY <1>5, <2>2, <2>3, <2>4 DEF Resume, NoValueBesideWaiter, Fifo
<1>6. CASE UNCHANGED vars
  BY <1>6 DEF vars, TypeOK, NoValueBesideWaiter, Fifo, WokenWithValue, WaitersAsleep
<1>. QED
  BY <1>1, <1>2, <1>3, <1>4, <1>5, <1>6 DEF Next, put, get

LEMMA InductiveInvariant == Spec => []IInv
BY InitIInv, StepIInv, PTL DEF Spec

(* The queue's variables keep their types. *)
THEOREM TypeCorrect == Spec => []TypeOK
BY InductiveInvariant, PTL DEF IInv

(* No value is ever queued beside a sleeping consumer (put and get of      *)
(* asyncqueue.hpp).                                                        *)
THEOREM NoStranding == Spec => []NoValueBesideWaiter
BY InductiveInvariant, PTL DEF IInv

(* The queue loses, invents and reorders nothing. *)
THEOREM FifoOrder == Spec => []Fifo
BY InductiveInvariant, PTL DEF IInv

(* A woken get() always finds its value; a sleeping one can be woken. *)
THEOREM WakeupCarriesValue == Spec => []WokenWithValue
BY InductiveInvariant, PTL DEF IInv

-----------------------------------------------------------------------------
(* The refinement: each step of the queue is a step of the channel. *)
Inbox == [c \in Consumers |-> got[c] \o Pending(c)]

LEMMA InitChannel == Init => Chan!Init
<1> SUFFICES ASSUME Init PROVE Chan!Init
  OBVIOUS
<1>1. \A c \in Consumers : got[c] \o Pending(c) = <<>>
  BY DEF Init, Pending
<1>. QED
  BY <1>1 DEF Init, Chan!Init

LEMMA StepChannel == IInv /\ [Next]_vars => [Chan!Next]_(Chan!vars)
<1> SUFFICES ASSUME IInv, [Next]_vars PROVE [Chan!Next]_(Chan!vars)
  OBVIOUS
<1> USE DEF IInv
<1>0. \A c \in Consumers : got[c] \in Seq(Values)
  BY DEF TypeOK
<1>1. ASSUME NEW v \in Values, put(v), PutToWaiter(v) PROVE Chan!Next
  <2>1. get_waiters_ # <<>> /\ queue_ = <<>> /\ handed = puts
    BY <1>1, ConcatEmptySeq DEF PutToWaiter, NoValueBesideWaiter, Fifo, TypeOK
  <2>2. PICK w \in Consumers : w = Head(get_waiters_) /\ w = get_waiters_[1] /\ 1 \in 1 .. Len(get_waiters_)
    BY <2>1, HeadTailProperties, EmptySeq DEF TypeOK
  <2>3. timer[w] = "waiting" /\ ~done[w]
    BY <2>2 DEF WaitersAsleep, WokenWithValue
  <2>4. /\ timer' = [timer EXCEPT ![w] = "cancelled"]
        /\ value' = [value EXCEPT ![w] = v]
        /\ puts' = Append(puts, v) /\ handed' = Append(handed, v)
        /\ got' = got
    BY <1>1, <2>2, <2>3 DEF put, PutToWaiter, complete, TypeOK
  <2>5. Pending(w) = <<>>
    BY <2>3 DEF Pending
  <2>6. Pending(w)' = <<v>> /\ \A c \in Consumers : c # w => Pending(c)' = Pending(c)
    <3>1. /\ timer'[w] = "cancelled" /\ value'[w] = v
          /\ \A c \in Consumers : c # w => timer'[c] = timer[c] /\ value'[c] = value[c]
      BY <2>2, <2>4 DEF TypeOK
    <3>. QED
      BY <3>1 DEF Pending
  <2>7. got[w] \o <<>> = got[w] /\ got[w] \o <<v>> = Append(got[w], v)
    BY <1>0, <2>2, AppendIsConcat, ConcatEmptySeq
  <2>8. [c \in Consumers |-> got[c] \o Pending(c)]'
          = [[c \in Consumers |-> got[c] \o Pending(c)] EXCEPT ![w] = Append(@, v)]
    <3>1. got[w]' \o Pending(w)' = Append(got[w] \o Pending(w), v)
      BY <2>4, <2>5, <2>6, <2>7
    <3>2. \A c \in Consumers : c # w => got[c]' \o Pending(c)' = got[c] \o Pending(c)
      BY <2>4, <2>6
    <3>. QED
      BY <2>2, <3>1, <3>2
  <2>9. Chan!SendTo(v, w)
    BY <2>1, <2>4, <2>8 DEF Chan!SendTo, Chan!Assign
  <2>. QED
    BY <2>2, <2>9 DEF Chan!Next
<1>2. ASSUME NEW v \in Values, put(v), PutToQueue(v) PROVE Chan!Next
  <2>1. Chan!Send(v)
    BY <1>2 DEF put, PutToQueue, Chan!Send, Pending
  <2>. QED
    BY <2>1 DEF Chan!Next
<1>3. ASSUME NEW c \in Consumers, GetNow(c) PROVE Chan!Next
  <2> DEFINE h == Head(queue_)
  <2>1. h \in Values /\ puts[Len(handed) + 1] = h /\ Len(handed) < Len(puts)
    BY <1>3, MoveHead, HeadTailProperties DEF GetNow, Fifo, TypeOK
  <2>2. \A d \in Consumers : Pending(d)' = Pending(d)
    BY <1>3 DEF GetNow, Pending
  <2>3. got[c] \o Pending(c) = got[c] /\ Append(got[c], h) \o Pending(c) = Append(got[c], h)
    BY <1>0, <1>3, <2>1, ConcatEmptySeq, AppendProperties DEF GetNow, Pending
  <2>4. [d \in Consumers |-> got[d] \o Pending(d)]'
          = [[d \in Consumers |-> got[d] \o Pending(d)] EXCEPT ![c] = Append(@, h)]
    BY <1>3, <2>2, <2>3 DEF GetNow, TypeOK
  <2>5. Chan!Deliver(c)
    BY <1>3, <2>1, <2>4 DEF GetNow, Chan!Deliver, Chan!Assign
  <2>. QED
    BY <2>5 DEF Chan!Next
<1>4. ASSUME NEW c \in Consumers, GetWait(c) PROVE UNCHANGED Chan!vars
  <2>1. \A d \in Consumers : Pending(d)' = Pending(d)
    BY <1>4 DEF GetWait, Pending, TypeOK
  <2>. QED
    BY <1>4, <2>1 DEF GetWait, Chan!vars
<1>5. ASSUME NEW c \in Consumers, Resume(c) PROVE UNCHANGED Chan!vars
  <2>1. value[c] \in Values /\ Pending(c) = <<value[c]>> /\ Pending(c)' = <<>>
    BY <1>5 DEF Resume, Pending, WokenWithValue, TypeOK
  <2>2. got'[c] = Append(got[c], value[c]) /\ got'[c] \in Seq(Values)
    BY <1>5, <2>1, <1>0, AppendProperties DEF Resume, TypeOK
  <2>3. got'[c] \o Pending(c)' = got[c] \o Pending(c)
    BY <1>0, <2>1, <2>2, ConcatEmptySeq, AppendIsConcat
  <2>4. \A d \in Consumers : d # c => Pending(d)' = Pending(d) /\ got'[d] = got[d]
    BY <1>5 DEF Resume, Pending, TypeOK
  <2>5. [d \in Consumers |-> got[d] \o Pending(d)]' = [d \in Consumers |-> got[d] \o Pending(d)]
    BY <2>3, <2>4
  <2>. QED
    BY <1>5, <2>5 DEF Resume, Chan!vars
<1>6. CASE UNCHANGED vars
  BY <1>6 DEF vars, Chan!vars, Pending
<1>. QED
  BY <1>1, <1>2, <1>3, <1>4, <1>5, <1>6 DEF Next, put, get

(* Every behaviour of the queue is a behaviour of the channel. *)
THEOREM ImplementsChannel == Spec => ChannelSpec
BY InductiveInvariant, InitChannel, StepChannel, PTL DEF Spec, ChannelSpec, Chan!Spec

-----------------------------------------------------------------------------
(* MixedInbound.  What is left of a SOCKS request from each of its fields  *)
(* on, and of an HTTP head after its first line.                           *)
FromPort(r) == PortBytes(r) \o r.payload
FromHost(r) == r.wanted.host \o FromPort(r)
FromLength(r) == <<Len(r.wanted.host)>> \o FromHost(r)
FromHeader(r) ==
  <<r.version, r.cmd, 0, r.atyp>> \o (IF r.atyp = 3 THEN FromLength(r) ELSE FromHost(r))
FromMethods(r) == r.methods \o FromHeader(r)
FromNMethods(r) == <<Len(r.methods)>> \o FromMethods(r)
Block(r) == FlattenSeq([i \in 1 .. r.headers |-> <<HeaderLine>> \o CRLF]) \o CRLF
Behind(r) == Block(r) \o r.payload

(* What of its request a handler has not consumed: received or still with  *)
(* the client.                                                             *)
Rest(c) == inbox[c] \o Unsent(c)

(* Where a handler may be.                                                 *)
PCs == {"accepted", "first", "nmethods", "methods", "choice", "refusal", "header", "length",
        "host", "port", "success", "line", "headers", "rest", "established", "firstData", "put",
        "closed"}
Unread == {"accepted", "first"}

(* At each suspension point, where in the request the handler is: of SOCKS *)
(* the bytes waited for are the next field, ...                            *)
SocksAsRead(r, at, rest, n, addr) ==
  /\ at \notin {"line", "headers", "rest", "established"}
  /\ at = "nmethods" => n = 1 /\ rest = FromNMethods(r)
  /\ at = "methods" => n = Len(r.methods) /\ rest = FromMethods(r)
  /\ at \in {"choice", "header"} => rest = FromHeader(r) /\ Contains(r.methods, 0)
  /\ at = "header" => n = 4
  /\ at \in {"length", "host", "port", "success", "firstData"} => Supported(r)
  /\ at = "length" => n = 1 /\ rest = FromLength(r)
  /\ at = "host" => n = Len(r.wanted.host) /\ rest = FromHost(r)
  /\ at = "port" => n = 2 /\ rest = FromPort(r) /\ addr.host = r.wanted.host
  /\ at \in {"success", "firstData"} => rest = r.payload /\ addr = r.wanted

(* ... and of HTTP the text kept is what comes before the rest.            *)
HttpAsRead(r, at, rest, text, addr) ==
  /\ at \in Unread \cup {"line", "headers", "rest", "established", "firstData", "put", "closed"}
  /\ at = "line" => text \o rest = Wire[r]
  /\ at \in {"headers", "rest", "established", "firstData"} =>
       Supported(r) /\ addr = HttpAddress(Line(r))
  /\ at \in {"headers", "established", "firstData"} => r.method = CONNECT
  /\ at = "rest" => r.method # CONNECT /\ text = Line(r) /\ rest = Behind(r)
  /\ at = "headers" => text \o rest = Behind(r)
  /\ at \in {"established", "firstData"} =>
       IF r.eager THEN \E u \in Seq(Nat) : r.payload = u \o rest ELSE rest = r.payload

(* The replies so far; a client that waits for the answer to CONNECT sends *)
(* no more than the head before it.                                        *)
Answered(r, at, n, k) ==
  /\ at \in Unread \cup {"nmethods", "methods", "choice", "refusal",
                         "line", "headers", "rest", "established"} => n = 0
  /\ at \in {"header", "length", "host", "port", "success"} => n = 1
  /\ at # "closed" => n < Len(RequestParts(r))
  /\ r.proto = "http" /\ r.method = CONNECT /\ ~r.eager /\ n = 0 => k <= Len(HttpHead(r))

AsRead(c) ==
  /\ pc[c] \in Unread => Rest(c) = Wire[request[c]]
  /\ pc[c] = "first" => want[c] = 1
  /\ IF request[c].proto = "socks"
     THEN SocksAsRead(request[c], pc[c], Rest(c), want[c], address[c])
     ELSE HttpAsRead(request[c], pc[c], Rest(c), buffer[c], address[c])
  /\ Answered(request[c], pc[c], Len(replies[c]), sent[c])

InboundType ==
  /\ request \in [Conns -> Requests] /\ sent \in [Conns -> Nat]
  /\ inbox \in [Conns -> Seq(Nat)] /\ buffer \in [Conns -> Seq(Nat)]
  /\ want \in [Conns -> Nat] /\ pc \in [Conns -> PCs]
  /\ address \in [Conns -> [host : Seq(Nat), port : Nat]]
  /\ replies \in [Conns -> Seq(PCs)]
  /\ \A c \in Conns : sent[c] <= Len(Wire[request[c]])
  /\ sessions_ \in Seq([conn : Conns, address : [host : Seq(Nat), port : Nat],
                        firstData : Seq(Nat)])

(* Every connection is queued at most once, and those queued wait.         *)
Queued ==
  /\ accepted \in Seq(Conns)
  /\ \A i \in 1 .. Len(accepted) : pc[accepted[i]] = "accepted"
  /\ \A i, j \in 1 .. Len(accepted) : accepted[i] = accepted[j] => i = j

(* A session: its first data and what is left of the request are what the  *)
(* server has to get.                                                      *)
SessionIs(s, r, at, rest) ==
  /\ at = "put" /\ Supported(r)
  /\ s.address = IF r.proto = "socks" THEN r.wanted ELSE HttpAddress(Line(r))
  /\ IF EagerConnect(r) THEN \E u \in Seq(Nat) : r.payload = u \o (s.firstData \o rest)
     ELSE s.firstData \o rest = Stream(r)

SessionFor(s) == SessionIs(s, request[s.conn], pc[s.conn], Rest(s.conn))
Handed == \A i \in 1 .. Len(sessions_) : SessionFor(sessions_[i])

InboundInv == InboundType /\ Queued /\ (\A c \in Conns : AsRead(c)) /\ Handed

(* The bytes of a request, field by field.                                 *)
LEMMA SocksBytes ==
  ASSUME NEW r \in Requests, r.proto = "socks"
  PROVE  /\ Wants(r) /\ Len(RequestParts(r)) = 3
         /\ PortBytes(r) \in Seq(Nat) /\ Len(PortBytes(r)) = 2
         /\ PortBytes(r)[1] * 256 + PortBytes(r)[2] = r.wanted.port
         /\ FromPort(r) \in Seq(Nat) /\ FromHost(r) \in Seq(Nat) /\ FromLength(r) \in Seq(Nat)
         /\ FromHeader(r) \in Seq(Nat) /\ FromMethods(r) \in Seq(Nat)
         /\ FromNMethods(r) \in Seq(Nat)
         /\ Wire[r] = <<5>> \o FromNMethods(r)
<1> DEFINE m == r.methods
           h == r.wanted.host
           p == r.wanted.port
           pb == PortBytes(r)
           hb == HostBytes(r)
           four == <<r.version, r.cmd, 0, r.atyp>>
           two == <<5, Len(m)>>
           pay == r.payload
<1>1. Wants(r)
  BY RequestsAssumption
<1>2. /\ m \in Seq(Nat) /\ h \in Seq(Nat) /\ p \in Nat /\ pay \in Seq(Nat)
      /\ r.version \in Nat /\ r.cmd \in Nat /\ r.atyp \in Nat
  BY <1>1 DEF Wants
<1>3. /\ p \div 256 \in Nat /\ (p % 256) \in Nat /\ (p \div 256) * 256 + (p % 256) = p
  <2> HIDE DEF p
  <2>. QED
    BY <1>2
<1>4. /\ pb \in Seq(Nat) /\ Len(pb) = 2 /\ pb[1] * 256 + pb[2] = p
  BY <1>3 DEF PortBytes
<1>5. four \in Seq(Nat) /\ two \in Seq(Nat) /\ <<Len(m)>> \in Seq(Nat) /\ <<Len(h)>> \in Seq(Nat)
      /\ <<5>> \in Seq(Nat)
  <2>1. Len(m) \in Nat /\ Len(h) \in Nat
    BY <1>2, LenProperties
  <2>. QED
    BY <1>2, <2>1
<1>6. hb = IF r.atyp = 3 THEN <<Len(h)>> \o h ELSE h
  BY DEF HostBytes
<1> HIDE DEF pb, hb, four, two, m, h, p, pay
<1>7. hb \in Seq(Nat)
  BY <1>2, <1>5, <1>6, ConcatProperties
<1>8. FromPort(r) = pb \o pay /\ FromPort(r) \in Seq(Nat)
  BY <1>2, <1>4, ConcatProperties DEF FromPort, pb, pay
<1>9. FromHost(r) = h \o FromPort(r) /\ FromHost(r) \in Seq(Nat)
  BY <1>2, <1>8, ConcatProperties DEF FromHost, h
<1>10. FromLength(r) = <<Len(h)>> \o FromHost(r) /\ FromLength(r) \in Seq(Nat)
  BY <1>5, <1>9, ConcatProperties DEF FromLength, h
<1>11. hb \o FromPort(r) = IF r.atyp = 3 THEN FromLength(r) ELSE FromHost(r)
  <2> DEFINE n == <<Len(h)>>
             from == FromPort(r)
  <2>1. n \in Seq(Nat) /\ from \in Seq(Nat)
    BY <1>5, <1>8
  <2> HIDE DEF n, from
  <2>2. Associates(n, h, from)
    BY <1>2, <2>1, Associated
  <2>. QED
    BY <1>6, <1>9, <1>10, <2>2 DEF n, from, Associates
<1>12. FromHeader(r) = four \o (hb \o FromPort(r)) /\ FromHeader(r) \in Seq(Nat)
  <2>1. FromHeader(r) = four \o (IF r.atyp = 3 THEN FromLength(r) ELSE FromHost(r))
    BY DEF FromHeader, four
  <2>2. hb \o FromPort(r) \in Seq(Nat)
    BY <1>7, <1>8, ConcatProperties
  <2>. QED
    BY <1>5, <1>11, <2>1, <2>2, ConcatProperties
<1>13. FromMethods(r) = m \o FromHeader(r) /\ FromMethods(r) \in Seq(Nat)
  BY <1>2, <1>12, ConcatProperties DEF FromMethods, m
<1>14. FromNMethods(r) = <<Len(m)>> \o FromMethods(r) /\ FromNMethods(r) \in Seq(Nat)
  BY <1>5, <1>13, ConcatProperties DEF FromNMethods, m
<1> DEFINE first == two \o m
           second == (four \o hb) \o pb
<1>15. first \in Seq(Nat) /\ second \in Seq(Nat) /\ four \o hb \in Seq(Nat)
  BY <1>2, <1>4, <1>5, <1>7, ConcatProperties
<1>16. second \o pay = FromHeader(r)
  <2>1. four \in Seq(Nat) /\ hb \in Seq(Nat) /\ pb \in Seq(Nat) /\ pay \in Seq(Nat)
    BY <1>2, <1>4, <1>5, <1>7
  <2>2. Regroups(four, hb, pb, pay)
    BY <2>1, Regroup
  <2>. QED
    BY <1>8, <1>12, <2>2 DEF Regroups
<1>17. first \o FromHeader(r) = <<5>> \o FromNMethods(r)
  <2> DEFINE from == FromHeader(r)
  <2>0. from \in Seq(Nat) /\ two \in Seq(Nat) /\ m \in Seq(Nat)
    BY <1>2, <1>5, <1>12
  <2> HIDE DEF from
  <2>4. Associates(two, m, from)
    BY <2>0, Associated
  <2>1. first \o FromHeader(r) = two \o FromMethods(r)
    BY <1>13, <2>4 DEF from, Associates
  <2>2. two = <<5>> \o <<Len(m)>>
    BY <1>5 DEF two
  <2>3. two \o FromMethods(r) = <<5>> \o (<<Len(m)>> \o FromMethods(r))
    <3> DEFINE v == <<5>>
               k == <<Len(m)>>
    <3>1. v \in Seq(Nat) /\ k \in Seq(Nat) /\ FromMethods(r) \in Seq(Nat)
      BY <1>5, <1>13
    <3> HIDE DEF v, k
    <3>2. Associates(v, k, FromMethods(r))
      BY <3>1, Associated
    <3>. QED
      BY <2>2, <3>2 DEF v, k, Associates
  <2>. QED
    BY <1>14, <2>1, <2>3
<1>18. RequestParts(r) = <<first, second, pay>>
  BY DEF RequestParts, SocksParts, two, m, four, hb, pb, pay
<1> HIDE DEF first, second
<1>19. FlattenSeq(RequestParts(r)) = first \o (second \o pay)
  <2>0. first \in Seq(Nat) /\ second \in Seq(Nat) /\ pay \in Seq(Nat)
    BY <1>2, <1>15
  <2>4. Flattened(first, second, pay)
    BY <2>0, FlattenFew
  <2>2. FlattenSeq(<<first, second, pay>>) = (first \o second) \o pay
    BY <2>4 DEF Flattened
  <2>1. FlattenSeq(RequestParts(r)) = (first \o second) \o pay
    BY <1>18, <2>2
  <2>3. Associates(first, second, pay)
    BY <2>0, Associated
  <2>. QED
    BY <2>1, <2>3 DEF Associates
<1>20. Wire[r] = <<5>> \o FromNMethods(r)
  BY <1>16, <1>17, <1>19 DEF Wire
<1>21. Len(RequestParts(r)) = 3
  BY <1>18
<1>. QED
  BY <1>1, <1>4, <1>8, <1>9, <1>10, <1>12, <1>13, <1>14, <1>20, <1>21 DEF pb, p

(* The header lines, each of three bytes.                                  *)
HeaderLines(k) == FlattenSeq([i \in 1 .. k |-> <<HeaderLine>> \o CRLF])

(* Dividing by three.                                                      *)
LEMMA Thirds ==
  ASSUME NEW n \in Nat
  PROVE  n \div 3 \in Nat /\ 3 * (n \div 3) <= n /\ n <= 3 * (n \div 3) + 2
OBVIOUS

LEMMA HeadersAre ==
  ASSUME NEW k \in Nat
  PROVE  /\ HeaderLines(k) \in Seq(Nat) /\ Len(HeaderLines(k)) = 3 * k
         /\ \A j \in 0 .. k - 1 : HeaderLines(k)[3 * j + 1] = HeaderLine
<1> DEFINE one == <<HeaderLine>> \o CRLF
           list(n) == [i \in 1 .. n |-> one]
           P(n) == /\ HeaderLines(n) \in Seq(Nat) /\ Len(HeaderLines(n)) = 3 * n
                   /\ \A j \in 0 .. n - 1 : HeaderLines(n)[3 * j + 1] = HeaderLine
           G == {n \in Nat : P(n)}
<1>1. one \in Seq(Nat) /\ Len(one) = 3 /\ one[1] = HeaderLine
  BY DEF CRLF, CR, LF, HeaderLine
<1>2. \A n : HeaderLines(n) = FlattenSeq(list(n))
  BY DEF HeaderLines
<1> HIDE DEF one
<1>3. P(0)
  <2>1. list(0) = <<>>
    OBVIOUS
  <2> HIDE DEF list
  <2>2. HeaderLines(0) = <<>>
    BY <1>1, <1>2, <2>1, FlattenAppend, EmptySeq
  <2>3. <<>> \in Seq(Nat) /\ Len(<<>>) = 0 /\ 3 * 0 = 0 /\ 0 .. 0 - 1 = {}
    BY EmptySeq
  <2>. QED
    BY <2>2, <2>3
<1>4. ASSUME NEW n \in Nat, P(n) PROVE P(n + 1)
  <2>1. list(n) \in Seq(Seq(Nat)) /\ Len(list(n)) = n
    BY <1>1
  <2>2. list(n + 1) = Append(list(n), one)
    <3> DEFINE s == list(n + 1)
               t == Append(list(n), one)
    <3>1. s \in Seq(Seq(Nat)) /\ Len(s) = n + 1 /\ \A i \in 1 .. n + 1 : s[i] = one
      BY <1>1
    <3>2. /\ t \in Seq(Seq(Nat)) /\ Len(t) = n + 1 /\ t[n + 1] = one
          /\ \A i \in 1 .. n : t[i] = one
      BY <1>1, <2>1, AppendProperties
    <3> HIDE DEF s, t
    <3>3. \A i \in 1 .. n + 1 : i = n + 1 \/ i \in 1 .. n
      OBVIOUS
    <3>4. \A i \in 1 .. n + 1 : s[i] = t[i]
      BY <3>1, <3>2, <3>3
    <3>5. s = t
      BY <3>1, <3>2, <3>4, SeqEqual
    <3>. QED
      BY <3>5 DEF s, t
  <2> HIDE DEF list
  <2>3. HeaderLines(n + 1) = HeaderLines(n) \o one
    BY <1>1, <1>2, <2>1, <2>2, FlattenAppend
  <2> DEFINE old == HeaderLines(n)
             new == HeaderLines(n + 1)
  <2>4. /\ old \in Seq(Nat) /\ Len(old) = 3 * n
        /\ \A j \in 0 .. n - 1 : old[3 * j + 1] = HeaderLine
    BY <1>4
  <2>5. new = old \o one
    BY <2>3
  <2> HIDE DEF old, new
  <2>6. /\ new \in Seq(Nat) /\ Len(new) = Len(old) + Len(one)
        /\ \A i \in 1 .. Len(old) : new[i] = old[i]
        /\ \A i \in 1 .. Len(one) : new[Len(old) + i] = one[i]
    BY <1>1, <2>4, <2>5, Joined
  <2>7. Len(new) = 3 * (n + 1)
    BY <1>1, <2>4, <2>6
  <2>8. ASSUME NEW j \in 0 .. (n + 1) - 1 PROVE new[3 * j + 1] = HeaderLine
    <3>1. CASE j = n
      <4>1. new[3 * n + 1] = one[1]
        BY <1>1, <2>4, <2>6
      <4>. QED
        BY <1>1, <3>1, <4>1
    <3>2. CASE j # n
      <4>1. j \in 0 .. n - 1 /\ 3 * j + 1 \in 1 .. 3 * n
        BY <3>2
      <4>. QED
        BY <2>4, <2>6, <4>1
    <3>. QED
      BY <3>1, <3>2
  <2>. QED
    BY <2>6, <2>7, <2>8 DEF new
<1>5. P(k)
  <2> HIDE DEF P
  <2>1. 0 \in G /\ \A n \in Nat : n \in G => n + 1 \in G
    BY <1>3, <1>4
  <2>2. Nat \subseteq G
    BY <2>1, SetInduction
  <2>. QED
    BY <2>2
<1>. QED
  BY <1>5

(* The bytes of an HTTP request: the line has no CR in it, the head is the *)
(* line, the header lines and an empty line.                               *)
LEMMA HttpBytes ==
  ASSUME NEW r \in Requests, r.proto = "http"
  PROVE  /\ Wants(r) /\ r.method \in Nat \ {5, CR} /\ r.headers \in Nat
         /\ Line(r) \in Seq(Nat) /\ Len(Line(r)) \in {1, 2} /\ Line(r)[1] = r.method
         /\ \A i \in 1 .. Len(Line(r)) : Line(r)[i] # CR
         /\ Block(r) \in Seq(Nat) /\ Behind(r) \in Seq(Nat) /\ r.payload \in Seq(Nat)
         /\ CRLF \in Seq(Nat) /\ CRLF \o Behind(r) \in Seq(Nat)
         /\ HttpHead(r) \in Seq(Nat) /\ Len(HttpHead(r)) = Len(Line(r)) + 2 + Len(Block(r))
         /\ Wire[r] = HttpHead(r) \o r.payload
         /\ Wire[r] = Line(r) \o (CRLF \o Behind(r))
         /\ IF r.method = CONNECT THEN RequestParts(r) = <<HttpHead(r), r.payload>>
            ELSE RequestParts(r) = <<HttpHead(r) \o r.payload>>
<1> DEFINE l == Line(r)
           f == HeaderLines(r.headers)
           b == Block(r)
           pay == r.payload
           head == HttpHead(r)
<1>1. Wants(r)
  BY RequestsAssumption
<1>2. /\ r.method \in Nat \ {5, CR} /\ r.target \in Nat \ {CR} /\ r.headers \in Nat
      /\ pay \in Seq(Nat)
  BY <1>1 DEF Wants
<1>3. /\ l \in Seq(Nat) /\ Len(l) \in {1, 2} /\ l[1] = r.method
      /\ \A i \in 1 .. Len(l) : l[i] # CR
  <2>1. CASE r.target = NoTarget
    BY <1>2, <2>1 DEF Line
  <2>2. CASE r.target # NoTarget
    BY <1>2, <2>2 DEF Line
  <2>. QED
    BY <2>1, <2>2
<1>4. CRLF \in Seq(Nat) /\ Len(CRLF) = 2
  BY DEF CRLF, CR, LF
<1>5. f \in Seq(Nat)
  BY <1>2, HeadersAre
<1>6. b = f \o CRLF
  BY DEF Block, HeaderLines
<1>7. head = ((l \o CRLF) \o f) \o CRLF
  BY DEF HttpHead, HeaderLines
<1>8. Behind(r) = b \o pay
  BY DEF Behind
<1> HIDE DEF l, f, b, pay, head
<1>9. b \in Seq(Nat)
  BY <1>4, <1>5, <1>6, ConcatProperties
<1>10. l \o CRLF \in Seq(Nat) /\ Len(l \o CRLF) = Len(l) + Len(CRLF)
  BY <1>3, <1>4, ConcatProperties
<1>11. head = (l \o CRLF) \o b
  <2> DEFINE lc == l \o CRLF
  <2>1. lc \in Seq(Nat) /\ head = (lc \o f) \o CRLF
    BY <1>7, <1>10
  <2> HIDE DEF lc
  <2>2. Associates(lc, f, CRLF)
    BY <1>4, <1>5, <2>1, Associated
  <2>. QED
    BY <1>6, <2>1, <2>2 DEF lc, Associates
<1>12. head \in Seq(Nat) /\ Len(head) = Len(l \o CRLF) + Len(b)
  BY <1>9, <1>10, <1>11, ConcatProperties
<1>13. Behind(r) \in Seq(Nat)
  BY <1>2, <1>8, <1>9, ConcatProperties
<1>14. CRLF \o Behind(r) \in Seq(Nat)
  BY <1>4, <1>13, ConcatProperties
<1>15. head \o pay = l \o (CRLF \o Behind(r))
  <2> DEFINE lc == l \o CRLF
  <2>0. lc \in Seq(Nat)
    BY <1>10
  <2> HIDE DEF lc
  <2>2. Associates(lc, b, pay)
    BY <1>2, <1>9, <2>0, Associated
  <2>1. head \o pay = (l \o CRLF) \o Behind(r)
    BY <1>8, <1>11, <2>2 DEF lc, Associates
  <2>3. Associates(l, CRLF, Behind(r))
    BY <1>3, <1>4, <1>13, Associated
  <2>. QED
    BY <2>1, <2>3 DEF Associates
<1>16. IF r.method = CONNECT THEN RequestParts(r) = <<head, pay>>
       ELSE RequestParts(r) = <<head \o pay>>
  BY DEF RequestParts, HttpParts, head, pay
<1>17. Wire[r] = head \o pay
  <2>1. Wire[r] = FlattenSeq(RequestParts(r))
    BY DEF Wire
  <2>2. head \o pay \in Seq(Nat)
    BY <1>2, <1>12, ConcatProperties
  <2>. QED
    <3> DEFINE all == head \o pay
    <3>1. head \in Seq(Nat) /\ pay \in Seq(Nat) /\ all \in Seq(Nat)
      BY <1>2, <1>12, <2>2
    <3> HIDE DEF all
    <3>2. Flattened(head, pay, pay) /\ Flattened(all, all, all)
      BY <3>1, FlattenFew
    <3>3. FlattenSeq(<<head, pay>>) = head \o pay /\ FlattenSeq(<<all>>) = all
      BY <3>2 DEF Flattened
    <3>. QED
      BY <1>16, <2>1, <3>3 DEF all
<1>18. Len(head) = Len(l) + 2 + Len(b)
  BY <1>4, <1>10, <1>12
<1>. QED
  BY <1>1, <1>2, <1>3, <1>4, <1>9, <1>12, <1>13, <1>14, <1>15, <1>16, <1>17, <1>18
     DEF l, b, pay, head

(* Where the bytes that a client may send end, when it has had n replies.  *)
LEMMA UpToIs ==
  ASSUME NEW r \in Requests, NEW n \in Nat, n < Len(RequestParts(r))
  PROVE  /\ UpTo[r][n + 1] \in Nat /\ UpTo[r][n + 1] <= Len(Wire[r])
         /\ r.proto = "http" /\ r.method = CONNECT => UpTo[r][1] = Len(HttpHead(r))
<1> DEFINE parts == RequestParts(r)
<1>1. parts \in Seq(Seq(Nat))
  <2>1. CASE r.proto = "socks"
    <3> DEFINE a == <<5, Len(r.methods)>> \o r.methods
               b == <<r.version, r.cmd, 0, r.atyp>> \o HostBytes(r) \o PortBytes(r)
               c == r.payload
    <3>1. /\ r.methods \in Seq(Nat) /\ r.wanted.host \in Seq(Nat) /\ PortBytes(r) \in Seq(Nat)
          /\ r.version \in Nat /\ r.cmd \in Nat /\ r.atyp \in Nat /\ c \in Seq(Nat)
      BY <2>1, SocksBytes DEF Wants
    <3>2. Len(r.methods) \in Nat /\ Len(r.wanted.host) \in Nat
      BY <3>1, LenProperties
    <3>3. /\ <<5, Len(r.methods)>> \in Seq(Nat) /\ <<Len(r.wanted.host)>> \in Seq(Nat)
          /\ <<r.version, r.cmd, 0, r.atyp>> \in Seq(Nat)
      BY <3>1, <3>2
    <3>4. HostBytes(r) \in Seq(Nat)
      BY <3>1, <3>3, ConcatProperties DEF HostBytes
    <3>5. a \in Seq(Nat) /\ <<r.version, r.cmd, 0, r.atyp>> \o HostBytes(r) \in Seq(Nat)
      BY <3>1, <3>3, <3>4, ConcatProperties
    <3>6. b \in Seq(Nat)
      BY <3>1, <3>5, ConcatProperties
    <3>7. parts = <<a, b, c>>
      BY <2>1 DEF RequestParts, SocksParts
    <3> HIDE DEF a, b, c, parts
    <3>. QED
      BY <3>1, <3>5, <3>6, <3>7
  <2>2. CASE r.proto = "http"
    <3> DEFINE head == HttpHead(r)
               pay == r.payload
               all == head \o pay
    <3>1. head \in Seq(Nat) /\ pay \in Seq(Nat)
      BY <2>2, HttpBytes
    <3>2. all \in Seq(Nat)
      BY <3>1, ConcatProperties
    <3>3. parts = <<head, pay>> \/ parts = <<all>>
      BY <2>2, HttpBytes
    <3> HIDE DEF parts, head, pay, all
    <3>4. CASE parts = <<head, pay>>
      BY <3>1, <3>4
    <3>5. CASE parts = <<all>>
      BY <3>2, <3>5
    <3>. QED
      BY <3>3, <3>4, <3>5
  <2>. QED
    BY <2>1, <2>2, RequestsAssumption DEF Wants
<1>2. Wire[r] = FlattenSeq(parts)
  BY DEF Wire
<1>3. \A k \in 0 .. Len(parts) : UpTo[r][k] = Len(FlattenSeq(SubSeq(parts, 1, k)))
  BY DEF UpTo
<1>4. n + 1 \in 1 .. Len(parts) /\ n + 1 \in 0 .. Len(parts) /\ 1 \in 0 .. Len(parts)
  <2>1. Len(parts) \in Nat
    BY <1>1, LenProperties
  <2>. QED
    BY <2>1
<1>5. UpTo[r][n + 1] \in Nat /\ UpTo[r][n + 1] <= Len(Wire[r])
  <2> HIDE DEF parts
  <2>. QED
    BY <1>1, <1>2, <1>3, <1>4, FlattenPrefix
<1>6. ASSUME r.proto = "http", r.method = CONNECT PROVE UpTo[r][1] = Len(HttpHead(r))
  <2> DEFINE h == HttpHead(r)
             p == r.payload
  <2>1. parts = <<h, p>> /\ h \in Seq(Nat) /\ p \in Seq(Nat)
    BY <1>6, HttpBytes
  <2> HIDE DEF h, p, parts
  <2>2. SubSeq(parts, 1, 1) = <<h>>
    <3> DEFINE t == <<h>>
    <3>1. t \in Seq(Seq(Nat)) /\ Len(t) = 1 /\ t[1] = parts[1] /\ Len(parts) = 2
      BY <2>1
    <3> HIDE DEF t
    <3>2. \A k \in 1 .. Len(t) : parts[0 + k] = t[k]
      BY <3>1
    <3>3. 0 + Len(t) <= Len(parts) /\ 0 + 1 = 1 /\ 0 + Len(t) = 1
      BY <3>1
    <3>4. SubSeq(parts, 0 + 1, 0 + Len(t)) = t
      BY <1>1, <3>1, <3>2, <3>3, Slice
    <3>. QED
      BY <3>3, <3>4 DEF t
  <2>3. FlattenSeq(<<h>>) = h
    <3>1. Flattened(h, h, h)
      BY <2>1, FlattenFew
    <3>. QED
      BY <3>1 DEF Flattened
  <2>. QED
    BY <1>3, <1>4, <2>2, <2>3 DEF h
<1>. QED
  BY <1>5, <1>6

(* A line end found in what was received of a request is the end of its    *)
(* first line.                                                             *)
LineRead(r, text, u) ==
  /\ FirstLine(text) = Line(r) /\ AfterLine(text) \in Seq(Nat)
  /\ AfterLine(text) \o u = Behind(r)

LEMMA FirstLineEnds ==
  ASSUME NEW r \in Requests, r.proto = "http", NEW text \in Seq(Nat), NEW u \in Seq(Nat),
         text \o u = Wire[r], Found(text, CRLF)
  PROVE  LineRead(r, text, u)
<1> DEFINE l == Line(r)
           n == Len(l)
           m == Len(text)
           b == Behind(r)
           cb == CRLF \o b
           D == find(text, CRLF)
<1>1. /\ l \in Seq(Nat) /\ CRLF \in Seq(Nat) /\ b \in Seq(Nat) /\ cb \in Seq(Nat)
      /\ \A i \in 1 .. n : l[i] # CR
      /\ text \o u = l \o cb
  BY HttpBytes
<1>2. n \in Nat /\ m \in Nat /\ Len(CRLF) = 2 /\ CRLF = <<CR, LF>>
  BY <1>1, LenProperties DEF CRLF
<1>3. \A i \in D : i \in 1 .. m - 1 /\ SubSeq(text, i, i + 1) = <<CR, LF>>
  <2> HIDE DEF m
  <2>1. \A i \in 1 .. m + 1 - 2 : i \in 1 .. m - 1 /\ i + 2 - 1 = i + 1
    BY <1>2
  <2>. QED
    BY <1>2, <2>1 DEF find, m
<1> HIDE DEF l, n, m, b, cb
<1>4. \A i \in 1 .. m : (text \o u)[i] = text[i]
  BY Joined DEF m
<1>5. (\A i \in 1 .. n : (l \o cb)[i] = l[i]) /\ \A i \in 1 .. Len(cb) : (l \o cb)[n + i] = cb[i]
  BY <1>1, Joined DEF n
<1>6. ASSUME NEW i \in D PROVE n + 1 <= i
  <2>1. i \in 1 .. m - 1 /\ i \in 1 .. m /\ i + 1 \in 1 .. m
    BY <1>2, <1>3, SMTT(60)
  <2>2. text[i] = CR
    <3>1. \A k \in i .. i + 1 : text[k] \in Nat
      <4>1. \A k \in i .. i + 1 : k \in 1 .. m
        BY <1>2, <2>1
      <4>. QED
        BY <4>1, ElementOfSeq DEF m
    <3> DEFINE two == SubSeq(text, i, i + 1)
    <3>2. \A j \in 1 .. (i + 1) - i + 1 : two[j] = text[i + j - 1]
      BY <1>2, <2>1, <3>1, SubSeqProperties
    <3>3. i + 1 - 1 = i /\ 1 \in 1 .. (i + 1) - i + 1
      BY <2>1, <1>2
    <3>4. two = <<CR, LF>>
      BY <1>3
    <3> HIDE DEF two
    <3>. QED
      BY <3>2, <3>3, <3>4
  <2>3. CASE i <= n
    <3>1. i \in 1 .. n
      BY <1>2, <2>1, <2>3
    <3>2. text[i] = l[i]
      BY <1>1, <1>4, <1>5, <2>1, <3>1
    <3>. QED
      BY <1>1, <2>2, <3>1, <3>2
  <2>. QED
    BY <1>2, <2>1, <2>3
<1>7. PICK d \in D : TRUE
  BY DEF Found
<1>8. n + 1 <= m - 1 /\ n + 2 <= m /\ n <= m
  <2>1. d \in 1 .. m - 1 /\ n + 1 <= d
    BY <1>3, <1>6, <1>7
  <2>. QED
    BY <1>2, <2>1
<1>9. Divides(text, u, l, cb)
  BY <1>1, <1>8, Divided DEF n, m
<1> DEFINE w == SubSeq(text, n + 1, m)
<1>10. SubSeq(text, 1, n) = l /\ w \in Seq(Nat) /\ w \o u = cb /\ text = l \o w
  BY <1>9 DEF Divides, n, m
<1> HIDE DEF w
<1>11. Len(w) = m - n /\ 2 <= Len(w)
  <2>1. m = n + Len(w) /\ Len(w) \in Nat
    BY <1>1, <1>10, Joined DEF m, n
  <2>. QED
    BY <1>2, <1>8, <2>1
<1>12. Divides(w, u, CRLF, b)
  BY <1>1, <1>2, <1>10, <1>11, Divided DEF cb
<1> DEFINE v == SubSeq(w, 3, Len(w))
<1>13. SubSeq(w, 1, 2) = CRLF /\ v \in Seq(Nat) /\ v \o u = b /\ w = CRLF \o v
  BY <1>2, <1>12 DEF Divides
<1> HIDE DEF v
<1>14. text = l \o (CRLF \o v) /\ text = (l \o CRLF) \o v
  <2>1. text = l \o (CRLF \o v)
    BY <1>10, <1>13
  <2>2. l \in Seq(Nat) /\ CRLF \in Seq(Nat) /\ v \in Seq(Nat)
    BY <1>1, <1>13
  <2>3. Associates(l, CRLF, v)
    BY <2>2, Associated
  <2>. QED
    BY <2>1, <2>3 DEF Associates
<1>15. SubSeq(text, n + 1, n + 2) = CRLF /\ SubSeq(text, n + 3, m) = v
  <2>1. l \in Seq(Nat) /\ CRLF \in Seq(Nat) /\ v \in Seq(Nat)
    BY <1>1, <1>13
  <2>2. Parts(l, CRLF, v)
    BY <2>1, PartsOf
  <2> DEFINE c == Len(CRLF)
             x == (l \o CRLF) \o v
  <2>3. SubSeq(x, n + 1, n + c) = CRLF /\ SubSeq(x, n + c + 1, Len(x)) = v
    BY <2>2 DEF Parts, n
  <2>4. x = text /\ Len(x) = m
    BY <1>14 DEF m
  <2>5. c = 2
    BY <1>2
  <2> HIDE DEF x, c
  <2>6. n + 2 + 1 = n + 3
    BY <1>2
  <2>. QED
    BY <2>3, <2>4, <2>5, <2>6
<1>16. n + 1 \in D
  <2>1. n + 1 \in 1 .. m + 1 - 2 /\ (n + 1) + 2 - 1 = n + 2
    BY <1>2, <1>8
  <2>. QED
    BY <1>2, <1>15, <2>1 DEF find, m
<1>17. First(text, CRLF) = n + 1
  <2> DEFINE e == CHOOSE i \in D : \A j \in D : i <= j
  <2>1. D \in SUBSET Nat /\ D # {}
    BY <1>3, <1>7
  <2>2. e \in D /\ \A j \in D : e <= j
    BY <2>1, FirstIs
  <2> HIDE DEF e
  <2>3. e \in Nat /\ e <= n + 1 /\ n + 1 <= e
    BY <1>6, <1>16, <2>1, <2>2
  <2>4. e = n + 1
    BY <1>2, <2>3
  <2>. QED
    BY <2>4 DEF First, e
<1>18. FirstLine(text) = l
  <2>1. (n + 1) - 1 = n
    BY <1>2
  <2>. QED
    BY <1>10, <1>17, <2>1 DEF FirstLine
<1>19. AfterLine(text) = v
  <2>1. (n + 1) + 2 = n + 3
    BY <1>2
  <2>. QED
    BY <1>2, <1>15, <1>17, <2>1 DEF AfterLine, m
<1>. QED
  BY <1>13, <1>18, <1>19 DEF LineRead, l, b

(* An empty line found in what was received ends the head: no header line  *)
(* is empty.                                                               *)
LEMMA EmptyLineEnds ==
  ASSUME NEW r \in Requests, r.proto = "http", NEW text \in Seq(Nat), NEW u \in Seq(Nat),
         text \o u = Behind(r), Found(text, CRLF \o CRLF)
  PROVE  Len(Block(r)) <= Len(text)
<1> DEFINE k == r.headers
           h == HeaderLines(k)
           b == Block(r)
           m == Len(text)
           D == find(text, CRLF \o CRLF)
<1>1. k \in Nat /\ b \in Seq(Nat) /\ r.payload \in Seq(Nat) /\ CRLF \in Seq(Nat)
  BY HttpBytes
<1>2. CRLF \o CRLF = <<CR, LF, CR, LF>> /\ Len(CRLF \o CRLF) = 4 /\ Len(CRLF) = 2
  <2> DEFINE s == CRLF \o CRLF
             t == <<CR, LF, CR, LF>>
  <2>1. CRLF \in Seq(Nat) /\ Len(CRLF) = 2 /\ CRLF[1] = CR /\ CRLF[2] = LF
    BY DEF CRLF, CR, LF
  <2>2. t \in Seq(Nat) /\ Len(t) = 4 /\ t[1] = CR /\ t[2] = LF /\ t[3] = CR /\ t[4] = LF
    BY DEF CR, LF
  <2>3. /\ s \in Seq(Nat) /\ Len(s) = 4
        /\ \A i \in 1 .. 2 : s[i] = CRLF[i]
        /\ \A i \in 1 .. 2 : s[2 + i] = CRLF[i]
    <3> DEFINE e == CRLF
    <3>1. e \in Seq(Nat) /\ Len(e) = 2
      BY <2>1
    <3> HIDE DEF e
    <3>2. /\ e \o e \in Seq(Nat) /\ Len(e \o e) = Len(e) + Len(e)
          /\ \A i \in 1 .. Len(e) : (e \o e)[i] = e[i]
          /\ \A i \in 1 .. Len(e) : (e \o e)[Len(e) + i] = e[i]
      BY <3>1, Joined
    <3>. QED
      BY <3>1, <3>2 DEF e
  <2> HIDE DEF s, t
  <2>4. s[1] = CR /\ s[2] = LF /\ s[2 + 1] = CR /\ s[2 + 2] = LF
    BY <2>1, <2>3
  <2>5. \A i \in 1 .. Len(s) : s[i] = t[i]
    BY <2>2, <2>3, <2>4
  <2>6. s \in Seq(Nat) /\ t \in Seq(Nat) /\ Len(s) = Len(t)
    BY <2>2, <2>3
  <2>7. s = t
    BY <2>5, <2>6, SeqEqual
  <2>. QED
    BY <2>1, <2>3, <2>7 DEF s, t
<1>3. h \in Seq(Nat) /\ Len(h) = 3 * k /\ \A j \in 0 .. k - 1 : h[3 * j + 1] = HeaderLine
  BY <1>1, HeadersAre
<1>4. b = h \o CRLF
  BY DEF Block, HeaderLines
<1>5. m \in Nat
  BY LenProperties
<1>6. text \o u = b \o r.payload
  BY DEF Behind
<1> HIDE DEF k, h, b, m
<1>7. Len(b) = 3 * k + 2 /\ \A i \in 1 .. 3 * k : b[i] = h[i]
  <2>1. h \in Seq(Nat) /\ CRLF \in Seq(Nat)
    BY <1>1, <1>3
  <2>2. Len(b) = Len(h) + Len(CRLF) /\ \A i \in 1 .. Len(h) : b[i] = h[i]
    BY <1>4, <2>1, Joined
  <2>. QED
    BY <1>2, <1>3, <2>2
<1>8. \A i \in 1 .. Len(b) : (b \o r.payload)[i] = b[i]
  BY <1>1, Joined
<1>9. \A i \in 1 .. m : (text \o u)[i] = text[i]
  BY Joined DEF m
<1>10. PICK p \in D : TRUE
  BY DEF Found
<1>11. p \in 1 .. m - 3 /\ SubSeq(text, p, p + 3) = <<CR, LF, CR, LF>>
  <2>1. \A i \in 1 .. m + 1 - 4 : i \in 1 .. m - 3 /\ i + 4 - 1 = i + 3
    BY <1>5
  <2>. QED
    BY <1>2, <1>10, <2>1 DEF find, m
<1>12. ASSUME NEW i \in 0 .. 2 PROVE text[p + i] # HeaderLine
  <2>1. \A j \in p .. p + 3 : text[j] \in Nat
    <3>1. \A j \in p .. p + 3 : j \in 1 .. m
      BY <1>5, <1>11
    <3>. QED
      BY <3>1, ElementOfSeq DEF m
  <2>2. \A j \in 1 .. (p + 3) - p + 1 : SubSeq(text, p, p + 3)[j] = text[p + j - 1]
    BY <1>5, <1>11, <2>1, SubSeqProperties
  <2>3. i + 1 \in 1 .. (p + 3) - p + 1 /\ p + (i + 1) - 1 = p + i
    BY <1>11
  <2>4. text[p + i] = <<CR, LF, CR, LF>>[i + 1]
    BY <1>11, <2>2, <2>3
  <2>5. i = 0 \/ i = 1 \/ i = 2
    OBVIOUS
  <2> DEFINE q == <<CR, LF, CR, LF>>
  <2>6. q[0 + 1] = CR /\ q[1 + 1] = LF /\ q[2 + 1] = CR
    OBVIOUS
  <2> HIDE DEF q
  <2>7. text[p + i] = q[i + 1]
    BY <2>4 DEF q
  <2>. QED
    BY <2>5, <2>6, <2>7 DEF CR, LF, HeaderLine
<1>13. ASSUME m < 3 * k + 2 PROVE FALSE
  <2> DEFINE j == (p + 1) \div 3
             i == 3 * j + 1 - p
  <2>1. p \in Nat /\ p <= 3 * k - 2
    <3>1. k \in Nat
      BY <1>1 DEF k
    <3>2. p \in Nat /\ p <= m - 3
      BY <1>5, <1>11
    <3>. QED
      BY <1>5, <1>13, <3>1, <3>2
  <2>2. j \in Nat /\ 3 * j <= p + 1 /\ p + 1 <= 3 * j + 2
    <3> DEFINE n == p + 1
    <3>1. n \in Nat
      BY <2>1
    <3> HIDE DEF n
    <3>2. n \div 3 \in Nat /\ 3 * (n \div 3) <= n /\ n <= 3 * (n \div 3) + 2
      BY <3>1, Thirds
    <3>3. j = n \div 3
      BY DEF n
    <3> HIDE DEF j
    <3>4. j \in Nat /\ 3 * j <= n /\ n <= 3 * j + 2
      BY <3>2, <3>3
    <3>. QED
      BY <3>4 DEF n
  <2> HIDE DEF j
  <2>3. k \in Nat
    BY <1>1
  <2>4. i \in 0 .. 2 /\ j \in 0 .. k - 1 /\ p + i = 3 * j + 1
    BY <2>1, <2>2, <2>3
  <2> HIDE DEF i
  <2>5. 3 * j + 1 \in 1 .. 3 * k /\ 3 * j + 1 \in 1 .. Len(b)
    BY <1>7, <2>3, <2>4
  <2>6. 3 * j + 1 \in 1 .. m
    BY <1>5, <1>11, <2>1, <2>2, <2>4
  <2>7. text[3 * j + 1] = HeaderLine
    BY <1>3, <1>6, <1>7, <1>8, <1>9, <2>4, <2>5, <2>6
  <2>. QED
    BY <1>12, <2>4, <2>7
<1>14. ~(m < 3 * k + 2) /\ k \in Nat
  BY <1>1, <1>13
<1>. QED
  BY <1>5, <1>7, <1>14 DEF b, m

(* A step that leaves a connection alone.                                  *)
Same(c) ==
  /\ request'[c] = request[c] /\ sent'[c] = sent[c] /\ inbox'[c] = inbox[c]
  /\ buffer'[c] = buffer[c] /\ want'[c] = want[c] /\ pc'[c] = pc[c]
  /\ address'[c] = address[c] /\ replies'[c] = replies[c]

(* Such a step leaves its part of the invariant.                           *)
LEMMA SameRead ==
  ASSUME NEW c \in Conns, AsRead(c), Same(c)
  PROVE  AsRead(c)' /\ Rest(c)' = Rest(c)
<1>1. Rest(c)' = Rest(c)
  BY DEF Rest, Unsent, Same
<1>2. ASSUME pc[c] \in Unread PROVE Rest(c)' = Wire[request'[c]]
  BY <1>1, <1>2 DEF AsRead, Same
<1>. QED
  BY <1>1, <1>2 DEF AsRead, Same

(* What a step keeps of the sessions handed over.                          *)
KeepsPut == \A d \in Conns : pc[d] = "put" =>
              pc'[d] = "put" /\ request'[d] = request[d] /\ Rest(d)' = Rest(d)

(* What is true of a session stays so, its connection being at rest.       *)
LEMMA SessionKept ==
  ASSUME InboundInv, KeepsPut, NEW i \in 1 .. Len(sessions_), NEW s, s = sessions_[i]
  PROVE  SessionFor(s)'
<1> DEFINE d == s.conn
<1>1. sessions_ \in Seq([conn : Conns, address : [host : Seq(Nat), port : Nat],
                         firstData : Seq(Nat)])
  BY DEF InboundInv, InboundType
<1>2. sessions_[i] \in [conn : Conns, address : [host : Seq(Nat), port : Nat], firstData : Seq(Nat)]
  BY <1>1, ElementOfSeq
<1>3. d \in Conns /\ SessionFor(s)
  BY <1>2 DEF InboundInv, Handed
<1>4. pc[d] = "put"
  BY <1>3 DEF SessionFor, SessionIs
<1>5. pc'[d] = pc[d] /\ Rest(d)' = Rest(d) /\ request'[d] = request[d]
  BY <1>3, <1>4 DEF KeepsPut
<1>. QED
  BY <1>3, <1>5 DEF SessionFor

(* A step that hands over nothing keeps the sessions, ...                  *)
LEMMA HandedKept ==
  ASSUME InboundInv, KeepsPut, sessions_' = sessions_
  PROVE  Handed'
<1>1. ASSUME NEW i \in 1 .. Len(sessions_) PROVE SessionFor(sessions_[i])'
  <2>1. PICK s : s = sessions_[i]
    OBVIOUS
  <2>2. SessionFor(s)' /\ s = sessions_'[i]
    BY <2>1, SessionKept
  <2>. QED
    BY <2>2 DEF SessionFor, Rest, Unsent
<1>. QED
  BY <1>1 DEF Handed

(* ... and so does one that hands over what is a session.                  *)
LEMMA HandedOn ==
  ASSUME InboundInv, KeepsPut, NEW s, sessions_' = Append(sessions_, s), SessionFor(s)'
  PROVE  Handed'
<1>1. Len(sessions_) \in Nat
  BY LenProperties DEF InboundInv, InboundType
<1>2. /\ Len(sessions_') = Len(sessions_) + 1 /\ sessions_'[Len(sessions_) + 1] = s
      /\ \A i \in 1 .. Len(sessions_) : sessions_'[i] = sessions_[i]
  BY DEF InboundInv, InboundType
<1>3. ASSUME NEW i \in 1 .. Len(sessions_') PROVE SessionFor(sessions_[i])'
  <2>1. CASE i = Len(sessions_) + 1
    BY <1>2, <2>1 DEF SessionFor, Rest, Unsent
  <2>2. CASE i \in 1 .. Len(sessions_)
    <3>1. PICK t : t = sessions_[i]
      OBVIOUS
    <3>2. SessionFor(t)' /\ t = sessions_'[i]
      BY <1>2, <2>2, <3>1, SessionKept
    <3>. QED
      BY <3>2 DEF SessionFor, Rest, Unsent
  <2>3. i = Len(sessions_) + 1 \/ i \in 1 .. Len(sessions_)
    BY <1>1, <1>2
  <2>. QED
    BY <2>1, <2>2, <2>3
<1>. QED
  BY <1>3 DEF Handed

(* What a step of one handler has to keep.                                 *)
LEMMA StepOf ==
  ASSUME InboundInv, InboundType', Queued', NEW c \in Conns, pc[c] # "put",
         \A d \in Conns \ {c} : Same(d), AsRead(c)',
         \/ sessions_' = sessions_
         \/ \E s : sessions_' = Append(sessions_, s) /\ SessionFor(s)'
  PROVE  InboundInv'
<1>1. \A d \in Conns : AsRead(d)'
  BY SameRead DEF InboundInv
<1>2. KeepsPut
  <2>1. ASSUME NEW d \in Conns, pc[d] = "put"
        PROVE  pc'[d] = "put" /\ request'[d] = request[d] /\ Rest(d)' = Rest(d)
    <3>1. d # c
      BY <2>1
    <3>. QED
      BY <2>1, <3>1, SameRead DEF Same, InboundInv
  <2>. QED
    BY <2>1 DEF KeepsPut
<1>3. Handed'
  BY <1>2, HandedKept, HandedOn
<1>. QED
  BY <1>1, <1>3 DEF InboundInv

(* A request is some bytes in at least one part.                           *)
LEMMA WireIs ==
  ASSUME NEW r \in Requests
  PROVE  Wire[r] \in Seq(Nat) /\ Len(RequestParts(r)) \in Nat \ {0}
<1>1. CASE r.proto = "socks"
  <2> DEFINE b == FromNMethods(r)
             l == RequestParts(r)
  <2>1. b \in Seq(Nat) /\ <<5>> \in Seq(Nat) /\ Wire[r] = <<5>> \o b /\ Len(l) = 3
    BY <1>1, SocksBytes
  <2> HIDE DEF b, l
  <2>2. Wire[r] \in Seq(Nat) /\ Len(l) \in Nat \ {0}
    BY <2>1, ConcatProperties
  <2>. QED
    BY <2>2 DEF l
<1>2. CASE r.proto = "http"
  <2> DEFINE h == HttpHead(r)
             p == r.payload
             l == RequestParts(r)
  <2>1. h \in Seq(Nat) /\ p \in Seq(Nat) /\ Wire[r] = h \o p
    BY <1>2, HttpBytes
  <2>2. l = <<h, p>> \/ l = <<h \o p>>
    BY <1>2, HttpBytes
  <2> HIDE DEF h, p, l
  <2>3. Len(l) \in Nat \ {0}
    <3> DEFINE all == h \o p
    <3>1. l = <<h, p>> \/ l = <<all>>
      BY <2>2
    <3> HIDE DEF all
    <3>. QED
      BY <3>1
  <2>. QED
    BY <2>1, <2>3, ConcatProperties DEF l
<1>. QED
  BY <1>1, <1>2, RequestsAssumption DEF Wants

(* A read of exactly so many bytes takes them from the front.              *)
LEMMA Taken ==
  ASSUME InboundInv, NEW c \in Conns, NEW at, ReadExactly(c, at)
  PROVE  /\ Got(c) \in Seq(Nat) /\ Len(Got(c)) = want[c] /\ Rest(c)' \in Seq(Nat)
         /\ Rest(c) \in Seq(Nat) /\ Got(c) \o Rest(c)' = Rest(c)
         /\ inbox' \in [Conns -> Seq(Nat)] /\ \A d \in Conns \ {c} : inbox'[d] = inbox[d]
<1> DEFINE x == inbox[c]
           n == want[c]
           u == Unsent(c)
           y == SubSeq(x, n + 1, Len(x))
<1>1. x \in Seq(Nat) /\ n \in Nat /\ Len(x) \in Nat /\ n <= Len(x)
  BY LenProperties DEF InboundInv, InboundType, ReadExactly
<1>2. inbox' = [inbox EXCEPT ![c] = y] /\ inbox \in [Conns -> Seq(Nat)]
  BY DEF ReadExactly, InboundInv, InboundType
<1>3. u \in Seq(Nat) /\ Unsent(c)' = u
  <2>1. request[c] \in Requests /\ sent[c] \in Nat /\ sent[c] <= Len(Wire[request[c]])
    BY DEF InboundInv, InboundType
  <2>2. Wire[request[c]] \in Seq(Nat)
    BY <2>1, WireIs
  <2>3. Unsent(c) \in Seq(Nat)
    BY <2>1, <2>2, LenProperties, SendsOn DEF Unsent
  <2>. QED
    BY <2>3 DEF Unsent, ReadExactly, peers
<1>4. Rest(c) = x \o u
  BY DEF Rest
<1> HIDE DEF x, n, u, y
<1>5. /\ n + 1 \in 1 .. Len(x) + 1 /\ 1 \in 1 .. Len(x) + 1
      /\ n \in 1 - 1 .. Len(x) /\ Len(x) \in n .. Len(x)
  BY <1>1
<1>6. y \in Seq(Nat)
  BY <1>1, <1>5, Suffix DEF y
<1>7. Rest(c)' = y \o u
  BY <1>2, <1>3, <1>6 DEF Rest
<1> DEFINE g == SubSeq(x, 1, n)
<1>8. Got(c) = g
  BY DEF Got, x, n
<1>9. g \in Seq(Nat) /\ Len(g) = n
  <2>1. CASE n = 0
    <3>1. g = <<>>
      BY <1>1, <2>1, SubSeqEmpty
    <3>2. g \in Seq(Nat) /\ Len(g) = 0
      BY <3>1, EmptySeq
    <3> HIDE DEF g
    <3>. QED
      BY <2>1, <3>2
  <2>2. CASE n # 0
    <3>1. \A i \in 1 .. n : x[i] \in Nat
      <4>1. \A i \in 1 .. n : i \in 1 .. Len(x)
        BY <1>1
      <4>. QED
        BY <1>1, <4>1, ElementOfSeq
    <3>2. n - 1 + 1 = n /\ 1 <= n
      BY <1>1, <2>2
    <3>. QED
      BY <1>1, <3>1, <3>2, SubSeqProperties
  <2>. QED
    BY <2>1, <2>2
<1>10. g \o y = x
  <2>1. SubSeq(x, 1, n) \o SubSeq(x, n + 1, Len(x)) = SubSeq(x, 1, Len(x))
    BY <1>1, <1>5, ConcatAdjacentSubSeq
  <2>. QED
    BY <1>1, <2>1, SubSeqFull DEF y
<1> HIDE DEF g
<1>11. g \o (y \o u) = x \o u
  <2>1. Associates(g, y, u)
    BY <1>3, <1>6, <1>9, Associated
  <2>. QED
    BY <1>10, <2>1 DEF Associates
<1>12. y \o u \in Seq(Nat) /\ x \o u \in Seq(Nat)
  BY <1>1, <1>3, <1>6, ConcatProperties
<1>13. inbox' \in [Conns -> Seq(Nat)] /\ \A d \in Conns \ {c} : inbox'[d] = inbox[d]
  BY <1>2, <1>6
<1>. QED
  BY <1>4, <1>7, <1>8, <1>9, <1>11, <1>12, <1>13 DEF n

(* SetToSeq lists a finite set, each element once.                         *)
LEMMA Listed ==
  ASSUME NEW S, IsFiniteSet(S)
  PROVE  /\ SetToSeq(S) \in Seq(S)
         /\ \A i, j \in 1 .. Len(SetToSeq(S)) : SetToSeq(S)[i] = SetToSeq(S)[j] => i = j
<1> DEFINE n == Cardinality(S)
           f == CHOOSE g \in [1 .. n -> S] : IsInjective(g)
<1>1. n \in Nat /\ ExistsBijection(1 .. n, S)
  BY FS_CardinalityType
<1>2. \E g \in [1 .. n -> S] : IsInjective(g)
  BY <1>1 DEF ExistsBijection, Bijection, Injection
<1>3. f \in [1 .. n -> S] /\ IsInjective(f)
  BY <1>2
<1> HIDE DEF f, n
<1>4. f \in Seq(S) /\ Len(f) = n
  BY <1>1, <1>3
<1>5. SetToSeq(S) = f
  BY DEF SetToSeq, f, n
<1>. QED
  BY <1>3, <1>4, <1>5 DEF IsInjective

(* Nothing is sent or read at first, and every connection is queued once.  *)
LEMMA InitInbound == InboundInit => InboundInv
<1> SUFFICES ASSUME InboundInit PROVE InboundInv
  OBVIOUS
<1>1. request \in [Conns -> Requests]
  BY DEF InboundInit
<1>2. \A c \in Conns : sent[c] = 0 /\ pc[c] = "accepted" /\ inbox[c] = <<>> /\ replies[c] = <<>>
  BY DEF InboundInit
<1>3. InboundType
  <2>1. \A c \in Conns : Len(Wire[request[c]]) \in Nat
    BY <1>1, WireIs, LenProperties
  <2>2. \A c \in Conns : sent[c] <= Len(Wire[request[c]])
    BY <1>2, <2>1
  <2>3. sent \in [Conns -> Nat] /\ want \in [Conns -> Nat] /\ pc \in [Conns -> PCs]
    BY DEF InboundInit, PCs
  <2>4. inbox \in [Conns -> Seq(Nat)] /\ buffer \in [Conns -> Seq(Nat)]
    BY EmptySeq DEF InboundInit
  <2>5. replies \in [Conns -> Seq(PCs)]
    BY EmptySeq DEF InboundInit
  <2>6. address \in [Conns -> [host : Seq(Nat), port : Nat]]
    BY EmptySeq DEF InboundInit
  <2>7. sessions_ \in Seq([conn : Conns, address : [host : Seq(Nat), port : Nat],
                           firstData : Seq(Nat)])
    BY EmptySeq DEF InboundInit
  <2>. QED
    BY <1>1, <2>2, <2>3, <2>4, <2>5, <2>6, <2>7 DEF InboundType
<1>4. Queued
  <2>1. accepted = SetToSeq(Conns)
    BY DEF InboundInit
  <2>2. /\ accepted \in Seq(Conns)
        /\ \A i, j \in 1 .. Len(accepted) : accepted[i] = accepted[j] => i = j
    BY <2>1, ConnsAssumption, Listed
  <2>. QED
    BY <1>2, <2>2, ElementOfSeq DEF Queued
<1>5. ASSUME NEW c \in Conns PROVE AsRead(c)
  <2> DEFINE r == request[c]
             w == Wire[r]
  <2>1. r \in Requests
    BY <1>1
  <2>2. w \in Seq(Nat) /\ Len(w) \in Nat /\ Len(RequestParts(r)) \in Nat \ {0}
    BY <2>1, WireIs, LenProperties
  <2>3. Rest(c) = w
    <3>1. Unsent(c) = SubSeq(w, 0 + 1, Len(w)) /\ 0 + 1 = 1
      BY <1>2 DEF Unsent
    <3>2. SubSeq(w, 1, Len(w)) = w
      BY <2>2, SubSeqFull
    <3> HIDE DEF w
    <3>3. <<>> \o w = w
      BY <2>2, ConcatEmptySeq
    <3>. QED
      BY <1>2, <3>1, <3>2, <3>3 DEF Rest
  <2>4. Answered(r, pc[c], Len(replies[c]), sent[c])
    <3>1. Len(replies[c]) = 0
      BY <1>2, EmptySeq
    <3>2. r.proto = "http" => Len(HttpHead(r)) \in Nat
      BY <2>1, HttpBytes, LenProperties
    <3>3. pc[c] = "accepted" /\ sent[c] = 0
      BY <1>2
    <3> HIDE DEF r
    <3>. QED
      BY <2>2, <3>1, <3>2, <3>3 DEF Answered
  <2>5. SocksAsRead(r, pc[c], Rest(c), want[c], address[c])
    BY <1>2 DEF SocksAsRead
  <2>6. HttpAsRead(r, pc[c], Rest(c), buffer[c], address[c])
    BY <1>2 DEF HttpAsRead, Unread
  <2>. QED
    BY <1>2, <2>3, <2>4, <2>5, <2>6 DEF AsRead
<1>6. Handed
  BY EmptySeq DEF InboundInit, Handed
<1>. QED
  BY <1>3, <1>4, <1>5, <1>6 DEF InboundInv

(* A step of a handler leaves the connections that wait for one.           *)
LEMMA QueuedKept ==
  ASSUME InboundInv, NEW c \in Conns, pc[c] # "accepted", accepted' = accepted,
         \A d \in Conns \ {c} : pc'[d] = pc[d]
  PROVE  Queued'
<1>1. \A i \in 1 .. Len(accepted) : accepted[i] \in Conns /\ pc[accepted[i]] = "accepted"
  BY ElementOfSeq DEF InboundInv, Queued
<1>. QED
  BY <1>1 DEF InboundInv, Queued

(* mainWork_ takes a connection of which nothing was read yet.             *)
LEMMA MainWorkStep == InboundInv /\ mainWork_ => InboundInv'
<1> SUFFICES ASSUME InboundInv, mainWork_ PROVE InboundInv'
  OBVIOUS
<1>1. /\ accepted \in Seq(Conns) /\ accepted # <<>> /\ accepted' = Tail(accepted)
      /\ \A i \in 1 .. Len(accepted) : pc[accepted[i]] = "accepted"
      /\ \A i, j \in 1 .. Len(accepted) : accepted[i] = accepted[j] => i = j
  BY DEF InboundInv, Queued, mainWork_
<1>0. Len(accepted) \in Nat \ {0} /\ Head(accepted) = accepted[1] /\ Head(accepted) \in Conns
  <2>1. Len(accepted) \in Nat \ {0}
    BY <1>1, EmptySeq, LenProperties
  <2>. QED
    BY <1>1, <2>1, ElementOfSeq, HeadTailProperties
<1>2. PICK c \in Conns : c = Head(accepted) /\ c = accepted[1]
  BY <1>0
<1>3. pc[c] = "accepted"
  BY <1>0, <1>1, <1>2
<1>4. /\ pc' = [pc EXCEPT ![c] = "first"] /\ want' = [want EXCEPT ![c] = 1]
      /\ UNCHANGED <<request, sent, client, inbox, buffer, address, replies, sessions_>>
  BY <1>2 DEF mainWork_, peers
<1>5. /\ Tail(accepted) \in Seq(Conns) /\ Len(Tail(accepted)) = Len(accepted) - 1
      /\ \A i \in 1 .. Len(Tail(accepted)) : Tail(accepted)[i] = accepted[i + 1]
  BY <1>0, <1>1, HeadTailProperties
<1>6. InboundType'
  BY <1>2, <1>4 DEF InboundInv, InboundType, PCs
<1>7. \A d \in Conns \ {c} : Same(d)
  BY <1>2, <1>4 DEF Same, InboundInv, InboundType
<1>8. pc'[c] = "first" /\ want'[c] = 1
  BY <1>2, <1>4 DEF InboundInv, InboundType
<1>9. Queued'
  <2> DEFINE t == Tail(accepted)
  <2>1. t \in Seq(Conns) /\ Len(t) = Len(accepted) - 1 /\ accepted' = t
    BY <1>1, <1>5
  <2>2. \A i \in 1 .. Len(t) : i + 1 \in 1 .. Len(accepted) /\ t[i] = accepted[i + 1] /\ i + 1 # 1
    BY <1>0, <1>5
  <2> HIDE DEF t
  <2>3. \A i \in 1 .. Len(t) : pc'[t[i]] = "accepted"
    <3>1. ASSUME NEW i \in 1 .. Len(t) PROVE pc'[t[i]] = "accepted"
      <4>1. t[i] \in Conns /\ pc[t[i]] = "accepted" /\ t[i] # c
        <5>1. 1 \in 1 .. Len(accepted)
          BY <1>0
        <5>. QED
          BY <1>1, <1>2, <2>1, <2>2, <5>1, ElementOfSeq
      <4>. QED
        BY <1>7, <4>1 DEF Same
    <3>. QED
      BY <3>1
  <2>4. \A i, j \in 1 .. Len(t) : t[i] = t[j] => i = j
    <3>1. ASSUME NEW i \in 1 .. Len(t), NEW j \in 1 .. Len(t), t[i] = t[j] PROVE i = j
      <4>1. i + 1 = j + 1
        BY <1>1, <2>2, <3>1
      <4>. QED
        BY <4>1
    <3>. QED
      BY <3>1
  <2>. QED
    BY <2>1, <2>3, <2>4 DEF Queued
<1>10. AsRead(c)'
  <2>1. AsRead(c)
    BY <1>2 DEF InboundInv
  <2>2. Rest(c)' = Rest(c)
    BY <1>4 DEF Rest, Unsent
  <2>3. Rest(c)' = Wire[request[c]]
    BY <1>3, <2>1, <2>2 DEF AsRead, Unread
  <2>4. Answered(request[c], "first", Len(replies[c]), sent[c])
    BY <1>3, <2>1 DEF AsRead, Answered, Unread
  <2>5. request[c].proto = "socks" => SocksAsRead(request[c], "first", Rest(c)', 1, address[c])
    BY DEF SocksAsRead
  <2>6. HttpAsRead(request[c], "first", Rest(c)', buffer[c], address[c])
    BY DEF HttpAsRead, Unread
  <2>. QED
    BY <1>4, <1>8, <2>3, <2>4, <2>5, <2>6 DEF AsRead
<1>. QED
  BY <1>2, <1>3, <1>4, <1>6, <1>7, <1>9, <1>10, StepOf

(* What a client sends only moves from what it has to what was received,   *)
(* and a client that waits for the answer to CONNECT stays within the      *)
(* head.                                                                   *)
LEMMA ClientSendsStep ==
  ASSUME InboundInv, NEW c \in Conns, ClientSends(c)
  PROVE  InboundInv'
<1> DEFINE r == request[c]
           w == Wire[r]
           k == sent[c]
<1>1. r \in Requests /\ k \in Nat /\ k <= Len(w) /\ inbox[c] \in Seq(Nat)
  BY DEF InboundInv, InboundType
<1>2. w \in Seq(Nat) /\ Len(w) \in Nat
  BY <1>1, WireIs, LenProperties
<1>3. PICK n \in k + 1 .. Allowed(c) :
        /\ sent' = [sent EXCEPT ![c] = n]
        /\ inbox' = [inbox EXCEPT ![c] = @ \o SubSeq(Wire[request[c]], sent[c] + 1, n)]
  BY DEF ClientSends
<1>4. /\ pc[c] # "closed"
      /\ UNCHANGED <<request, client, accepted, pc, buffer, want, address, replies, sessions_>>
  BY DEF ClientSends
<1>5. AsRead(c)
  BY DEF InboundInv
<1>6. Len(replies[c]) \in Nat /\ Len(replies[c]) < Len(RequestParts(r))
  BY <1>4, <1>5, LenProperties DEF AsRead, Answered, InboundInv, InboundType
<1>7. Allowed(c) \in Nat /\ Allowed(c) <= Len(w)
  <2>1. CASE r.eager
    <3>1. Allowed(c) = Len(w)
      BY <2>1 DEF Allowed
    <3>. QED
      BY <1>2, <3>1
  <2>2. CASE ~r.eager
    <3>1. Allowed(c) = UpTo[r][Len(replies[c]) + 1]
      BY <2>2 DEF Allowed
    <3>. QED
      BY <1>1, <1>6, <3>1, UpToIs
  <2>. QED
    BY <2>1, <2>2
<1>8. n \in Nat /\ k <= n /\ n <= Len(w) /\ n <= Allowed(c)
  BY <1>1, <1>2, <1>3, <1>7
<1> DEFINE x == SubSeq(w, k + 1, n)
           y == SubSeq(w, n + 1, Len(w))
<1>9. x \in Seq(Nat) /\ y \in Seq(Nat) /\ x \o y = SubSeq(w, k + 1, Len(w))
  BY <1>1, <1>2, <1>8, SendsOn
<1>10. sent' = [sent EXCEPT ![c] = n] /\ inbox' = [inbox EXCEPT ![c] = inbox[c] \o x]
  BY <1>3
<1>11. Unsent(c) = x \o y /\ Unsent(c)' = y
  BY <1>4, <1>9, <1>10 DEF Unsent, InboundInv, InboundType
<1> HIDE DEF x, y
<1>12. inbox[c] \o x \in Seq(Nat)
  BY <1>1, <1>9, ConcatProperties
<1>13. /\ inbox' \in [Conns -> Seq(Nat)] /\ sent' \in [Conns -> Nat]
       /\ sent'[c] = n /\ inbox'[c] = inbox[c] \o x
       /\ \A d \in Conns \ {c} : inbox'[d] = inbox[d] /\ sent'[d] = sent[d]
  BY <1>8, <1>10, <1>12 DEF InboundInv, InboundType
<1>14. Rest(c)' = Rest(c)
  <2>1. Associates(inbox[c], x, y)
    BY <1>1, <1>9, Associated
  <2>2. (inbox[c] \o x) \o y = inbox[c] \o (x \o y)
    BY <2>1 DEF Associates
  <2>. QED
    BY <1>11, <1>13, <2>2 DEF Rest
<1>15. \A d \in Conns \ {c} : Same(d)
  BY <1>4, <1>13 DEF Same
<1>16. InboundType'
  <2>1. \A d \in Conns : sent'[d] <= Len(Wire[request'[d]])
    BY <1>4, <1>8, <1>13 DEF InboundInv, InboundType
  <2>. QED
    BY <1>4, <1>13, <2>1 DEF InboundInv, InboundType
<1>17. AsRead(c)'
  <2>1. Answered(r, pc[c], Len(replies[c]), n)
    <3>1. Answered(r, pc[c], Len(replies[c]), k)
      BY <1>5 DEF AsRead
    <3>2. ASSUME r.proto = "http", r.method = CONNECT, ~r.eager, Len(replies[c]) = 0
          PROVE  n <= Len(HttpHead(r))
      <4>1. Allowed(c) = UpTo[r][Len(replies[c]) + 1] /\ Len(replies[c]) + 1 = 1
        BY <3>2 DEF Allowed
      <4>2. Allowed(c) = Len(HttpHead(r))
        BY <1>1, <1>6, <3>2, <4>1, UpToIs
      <4>. QED
        BY <1>8, <4>2
    <3> HIDE DEF r, k
    <3>. QED
      BY <3>1, <3>2 DEF Answered
  <2>. QED
    BY <1>4, <1>5, <1>13, <1>14, <2>1 DEF AsRead
<1>18. KeepsPut
  <2>1. \A d \in Conns : Rest(d)' = Rest(d)
    BY <1>14, <1>15, SameRead DEF InboundInv
  <2>. QED
    BY <1>4, <2>1 DEF KeepsPut
<1>19. Handed' /\ Queued'
  BY <1>4, <1>18, HandedKept DEF InboundInv, Queued
<1>20. \A d \in Conns : AsRead(d)'
  BY <1>15, <1>17, SameRead DEF InboundInv
<1>. QED
  BY <1>16, <1>19, <1>20 DEF InboundInv

(* A stutter, and a client that leaves, change nothing the invariant says. *)
LEMMA InboundSame ==
  ASSUME InboundInv, UNCHANGED <<request, sent, accepted, pc, inbox, buffer, want, address, replies,
                                 sessions_>>
  PROVE  InboundInv'
<1>1. \A d \in Conns : Same(d)
  BY DEF Same
<1>2. \A d \in Conns : AsRead(d)' /\ Rest(d)' = Rest(d)
  BY <1>1, SameRead DEF InboundInv
<1>3. KeepsPut
  BY <1>1, <1>2 DEF KeepsPut, Same
<1>4. Handed'
  BY <1>3, HandedKept
<1>. QED
  BY <1>2, <1>4 DEF InboundInv, InboundType, Queued

(* A field read in front of what is left: the coroutine has the field, and *)
(* what is left is what follows it.                                        *)
LEMMA FieldRead ==
  ASSUME InboundInv, NEW c \in Conns, NEW at, ReadExactly(c, at),
         NEW f \in Seq(Nat), NEW b \in Seq(Nat), Rest(c) = f \o b, want[c] = Len(f)
  PROVE  Got(c) = f /\ Rest(c)' = b
<1> DEFINE g == Got(c)
<1>1. PICK u \in Seq(Nat) : u = Rest(c)'
  BY Taken
<1>2. g \in Seq(Nat) /\ Len(g) = Len(f) /\ g \o u = f \o b
  BY <1>1, Taken
<1> HIDE DEF g
<1>3. Len(f) \in Nat /\ Len(f) <= Len(g)
  <2>1. Len(f) \in Nat
    BY LenProperties
  <2>. QED
    BY <1>2, <2>1
<1>4. Divides(g, u, f, b)
  BY <1>2, <1>3, Divided
<1>5. g = f
  BY <1>2, <1>4, SubSeqFull DEF Divides
<1>6. u = b
  BY <1>2, <1>5, ConcatSimplifications
<1>. QED
  BY <1>1, <1>5, <1>6 DEF g

(* A step that reads a field, and what it has to show.                     *)
LEMMA ExactStep ==
  ASSUME InboundInv, NEW c \in Conns, NEW at, at \notin {"accepted", "put"}, ReadExactly(c, at),
         NEW to \in PCs \ Unread, NEW n \in Nat, GoOn(c, to, n),
         buffer' \in [Conns -> Seq(Nat)], address' \in [Conns -> [host : Seq(Nat), port : Nat]],
         \A d \in Conns \ {c} : buffer'[d] = buffer[d] /\ address'[d] = address[d],
         IF request[c].proto = "socks"
         THEN SocksAsRead(request[c], to, Rest(c)', n, address'[c])
         ELSE HttpAsRead(request[c], to, Rest(c)', buffer'[c], address'[c]),
         Answered(request[c], to, Len(replies[c]), sent[c])
  PROVE  InboundInv'
<1>1. /\ pc[c] = at /\ pc' = [pc EXCEPT ![c] = to] /\ want' = [want EXCEPT ![c] = n]
      /\ UNCHANGED <<request, sent, accepted, replies, sessions_>>
  BY DEF ReadExactly, GoOn, peers
<1>2. inbox' \in [Conns -> Seq(Nat)] /\ \A d \in Conns \ {c} : inbox'[d] = inbox[d]
  BY Taken
<1>3. pc'[c] = to /\ want'[c] = n /\ \A d \in Conns \ {c} : pc'[d] = pc[d] /\ want'[d] = want[d]
  BY <1>1 DEF InboundInv, InboundType
<1>4. InboundType'
  BY <1>1, <1>2 DEF InboundInv, InboundType
<1>5. \A d \in Conns \ {c} : Same(d)
  BY <1>1, <1>2, <1>3 DEF Same
<1>6. Queued'
  BY <1>1, <1>3, QueuedKept
<1>7. AsRead(c)'
  BY <1>1, <1>3 DEF AsRead, Unread
<1>. QED
  BY <1>1, <1>4, <1>5, <1>6, <1>7, StepOf

(* Where a handler reads a SOCKS request.                                  *)
InSocks == {"nmethods", "methods", "choice", "refusal", "header", "length", "host", "port",
            "success"}
(* What is known of a connection whose handler reads a SOCKS request.      *)
LEMMA SocksOnly ==
  ASSUME InboundInv, NEW c \in Conns, pc[c] \in InSocks
  PROVE  /\ request[c] \in Requests /\ request[c].proto = "socks"
         /\ SocksAsRead(request[c], pc[c], Rest(c), want[c], address[c])
         /\ Answered(request[c], pc[c], Len(replies[c]), sent[c])
  BY DEF InboundInv, InboundType, AsRead, HttpAsRead, InSocks, Unread

(* The first byte tells the protocols apart, since no method starts with   *)
(* 5.                                                                      *)
LEMMA FirstByteStep ==
  ASSUME InboundInv, NEW c \in Conns, handle_(c)
  PROVE  InboundInv'
<1> DEFINE r == request[c]
<1>1. ReadExactly(c, "first") /\ pc[c] = "first" /\ UNCHANGED address
  BY DEF handle_, ReadExactly
<1>2. r \in Requests /\ AsRead(c) /\ Rest(c) = Wire[r] /\ want[c] = 1
  BY <1>1 DEF InboundInv, InboundType, AsRead, Unread
<1>3. Answered(r, "first", Len(replies[c]), sent[c])
  BY <1>1, <1>2 DEF AsRead
<1>4. /\ Answered(r, "nmethods", Len(replies[c]), sent[c])
      /\ Answered(r, "line", Len(replies[c]), sent[c])
  BY <1>3 DEF Answered, Unread
<1>5. address' \in [Conns -> [host : Seq(Nat), port : Nat]] /\ buffer \in [Conns -> Seq(Nat)]
      /\ address' = address
  BY <1>1 DEF InboundInv, InboundType
<1>6. "nmethods" \in PCs \ Unread /\ "line" \in PCs \ Unread /\ "first" \notin {"accepted", "put"}
  BY DEF PCs, Unread
<1>7. CASE r.proto = "socks"
  <2>1. FromNMethods(r) \in Seq(Nat) /\ Wire[r] = <<5>> \o FromNMethods(r)
    BY <1>2, <1>7, SocksBytes
  <2>2. <<5>> \in Seq(Nat) /\ Len(<<5>>) = 1
    OBVIOUS
  <2>3. Got(c) = <<5>> /\ Rest(c)' = FromNMethods(r)
    BY <1>1, <1>2, <2>1, <2>2, FieldRead
  <2>4. GoOn(c, "nmethods", 1) /\ UNCHANGED buffer
    BY <2>3 DEF handle_
  <2>5. SocksAsRead(r, "nmethods", Rest(c)', 1, address'[c])
    BY <2>3 DEF SocksAsRead
  <2>. QED
    BY <1>1, <1>4, <1>5, <1>6, <1>7, <2>4, <2>5, ExactStep
<1>8. CASE r.proto # "socks"
  <2>1. r.proto = "http"
    BY <1>2, <1>8, RequestsAssumption DEF Wants
  <2> DEFINE l == Line(r)
             rest == CRLF \o Behind(r)
             g == Got(c)
  <2>2. l \in Seq(Nat) /\ Len(l) \in {1, 2} /\ l[1] = r.method /\ r.method # 5
        /\ rest \in Seq(Nat) /\ Wire[r] = l \o rest
    BY <1>2, <2>1, HttpBytes
  <2>3. PICK u \in Seq(Nat) : u = Rest(c)'
    BY <1>1, Taken
  <2>4. g \in Seq(Nat) /\ Len(g) = 1 /\ g \o u = Wire[r]
    BY <1>1, <1>2, <2>3, Taken
  <2> HIDE DEF l, rest, g
  <2>5. g[1] = r.method
    <3>1. 1 \in 1 .. Len(g) /\ 1 \in 1 .. Len(l)
      BY <2>2, <2>4
    <3>2. (g \o u)[1] = g[1]
      BY <2>4, <3>1, Joined
    <3>3. (l \o rest)[1] = l[1]
      BY <2>2, <3>1, Joined
    <3>. QED
      BY <2>2, <2>4, <3>2, <3>3
  <2>6. g # <<5>>
    BY <2>2, <2>5
  <2>7. GoOn(c, "line", 0) /\ buffer' = [buffer EXCEPT ![c] = g]
    BY <2>6 DEF handle_, g
  <2>8. /\ buffer' \in [Conns -> Seq(Nat)] /\ buffer'[c] = g
        /\ \A d \in Conns \ {c} : buffer'[d] = buffer[d]
    BY <1>5, <2>4, <2>7
  <2>9. HttpAsRead(r, "line", Rest(c)', buffer'[c], address'[c])
    BY <2>3, <2>4, <2>8 DEF HttpAsRead
  <2>. QED
    BY <1>1, <1>4, <1>5, <1>6, <1>8, <2>7, <2>8, <2>9, ExactStep
<1>. QED
  BY <1>7, <1>8

(* The handler learns how many methods follow.                             *)
LEMMA NMethodsStep ==
  ASSUME InboundInv, NEW c \in Conns, NMethods(c)
  PROVE  InboundInv'
<1> DEFINE r == request[c]
           m == r.methods
           n == Len(m)
           b == FromMethods(r)
<1>1. ReadExactly(c, "nmethods") /\ pc[c] = "nmethods" /\ UNCHANGED <<buffer, address>>
      /\ GoOn(c, "methods", Got(c)[1])
  BY DEF NMethods, ReadExactly
<1>2. /\ r \in Requests /\ r.proto = "socks"
      /\ want[c] = 1 /\ Rest(c) = FromNMethods(r)
      /\ Answered(r, "nmethods", Len(replies[c]), sent[c])
  BY <1>1, SocksOnly DEF InSocks, SocksAsRead
<1>3. m \in Seq(Nat) /\ n \in Nat /\ b \in Seq(Nat)
  BY <1>2, SocksBytes, LenProperties DEF Wants
<1>4. Rest(c) = <<n>> \o b /\ <<n>> \in Seq(Nat) /\ Len(<<n>>) = 1
  BY <1>2, <1>3 DEF FromNMethods
<1>5. Got(c) = <<n>> /\ Rest(c)' = b
  BY <1>1, <1>2, <1>3, <1>4, FieldRead
<1>6. GoOn(c, "methods", n)
  BY <1>1, <1>5
<1>7. SocksAsRead(r, "methods", Rest(c)', n, address'[c])
  BY <1>5 DEF SocksAsRead
<1>8. Answered(r, "methods", Len(replies[c]), sent[c])
  BY <1>2 DEF Answered, Unread
<1>9. /\ buffer' \in [Conns -> Seq(Nat)] /\ address' \in [Conns -> [host : Seq(Nat), port : Nat]]
      /\ buffer' = buffer /\ address' = address
  BY <1>1 DEF InboundInv, InboundType
<1>10. "methods" \in PCs \ Unread /\ "nmethods" \notin {"accepted", "put"}
  BY DEF PCs, Unread
<1> HIDE DEF n
<1>. QED
  BY <1>1, <1>2, <1>3, <1>6, <1>7, <1>8, <1>9, <1>10, ExactStep

(* A client that offers 0 is accepted.                                     *)
LEMMA MethodsStep ==
  ASSUME InboundInv, NEW c \in Conns, Methods(c)
  PROVE  InboundInv'
<1> DEFINE r == request[c]
           m == r.methods
           b == FromHeader(r)
           to == IF Contains(m, 0) THEN "choice" ELSE "refusal"
<1>1. ReadExactly(c, "methods") /\ pc[c] = "methods" /\ UNCHANGED <<buffer, address>>
      /\ GoOn(c, IF Contains(Got(c), 0) THEN "choice" ELSE "refusal", 0)
  BY DEF Methods, ReadExactly
<1>2. /\ r \in Requests /\ r.proto = "socks"
      /\ want[c] = Len(m) /\ Rest(c) = FromMethods(r)
      /\ Answered(r, "methods", Len(replies[c]), sent[c])
  BY <1>1, SocksOnly DEF InSocks, SocksAsRead
<1>3. m \in Seq(Nat) /\ b \in Seq(Nat) /\ Rest(c) = m \o b
  BY <1>2, SocksBytes DEF Wants, FromMethods
<1>4. Got(c) = m /\ Rest(c)' = b
  BY <1>1, <1>2, <1>3, FieldRead
<1>5. GoOn(c, to, 0)
  BY <1>1, <1>4
<1>6. to \in PCs \ Unread /\ "methods" \notin {"accepted", "put"} /\ to \in {"choice", "refusal"}
      /\ (to = "choice" => Contains(m, 0))
  BY DEF PCs, Unread
<1> HIDE DEF to
<1>7. SocksAsRead(r, to, Rest(c)', 0, address'[c])
  BY <1>4, <1>6 DEF SocksAsRead
<1>8. Answered(r, to, Len(replies[c]), sent[c])
  BY <1>2, <1>6 DEF Answered, Unread
<1>9. /\ buffer' \in [Conns -> Seq(Nat)] /\ address' \in [Conns -> [host : Seq(Nat), port : Nat]]
      /\ buffer' = buffer /\ address' = address
  BY <1>1 DEF InboundInv, InboundType
<1>. QED
  BY <1>1, <1>2, <1>5, <1>6, <1>7, <1>8, <1>9, ExactStep

(* Only a supported request goes on to its host, whose length is known by  *)
(* its kind or read next.                                                  *)
LEMMA HeaderStep ==
  ASSUME InboundInv, NEW c \in Conns, Header(c)
  PROVE  InboundInv'
<1> DEFINE r == request[c]
           h == r.wanted.host
           f == <<r.version, r.cmd, 0, r.atyp>>
           b == IF r.atyp = 3 THEN FromLength(r) ELSE FromHost(r)
<1>1. ReadExactly(c, "header") /\ pc[c] = "header" /\ UNCHANGED <<buffer, address>>
  BY DEF Header, ReadExactly
<1>2. /\ r \in Requests /\ r.proto = "socks" /\ Contains(r.methods, 0)
      /\ want[c] = 4 /\ Rest(c) = FromHeader(r)
      /\ Answered(r, "header", Len(replies[c]), sent[c])
  BY <1>1, SocksOnly DEF InSocks, SocksAsRead
<1>3. /\ r.version \in Nat /\ r.cmd \in Nat /\ r.atyp \in Nat /\ h \in Seq(Nat) /\ Len(h) \in Nat
      /\ r.atyp \in {1, 4} => Len(h) = AddrBytes[r.atyp]
      /\ FromLength(r) \in Seq(Nat) /\ FromHost(r) \in Seq(Nat)
  BY <1>2, SocksBytes, LenProperties DEF Wants
<1>4. f \in Seq(Nat) /\ Len(f) = 4 /\ f[1] = r.version /\ f[2] = r.cmd /\ f[4] = r.atyp
  BY <1>3
<1>5. b \in Seq(Nat) /\ Rest(c) = f \o b
  BY <1>2, <1>3 DEF FromHeader
<1> HIDE DEF f
<1>6. Got(c) = f /\ Rest(c)' = b
  BY <1>1, <1>2, <1>4, <1>5, FieldRead
<1>7. /\ buffer' \in [Conns -> Seq(Nat)] /\ address' \in [Conns -> [host : Seq(Nat), port : Nat]]
      /\ buffer' = buffer /\ address' = address
  BY <1>1 DEF InboundInv, InboundType
<1>8. /\ "closed" \in PCs \ Unread /\ "length" \in PCs \ Unread /\ "host" \in PCs \ Unread
      /\ "header" \notin {"accepted", "put"}
  BY DEF PCs, Unread
<1>9. CASE ~RequestIsValid(f)
  <2>1. GoOn(c, "closed", 0)
    BY <1>6, <1>9 DEF Header
  <2>2. SocksAsRead(r, "closed", Rest(c)', 0, address'[c])
    BY DEF SocksAsRead
  <2>3. Answered(r, "closed", Len(replies[c]), sent[c])
    BY <1>2 DEF Answered, Unread
  <2>. QED
    BY <1>1, <1>2, <1>7, <1>8, <2>1, <2>2, <2>3, ExactStep
<1>10. CASE RequestIsValid(f)
  <2>1. Supported(r) /\ r.atyp \in {1, 3, 4}
    BY <1>2, <1>4, <1>10 DEF RequestIsValid, Supported
  <2>2. CASE r.atyp = 3
    <3>1. GoOn(c, "length", 1)
      BY <1>4, <1>6, <1>10, <2>2 DEF Header
    <3>2. SocksAsRead(r, "length", Rest(c)', 1, address'[c])
      BY <1>6, <2>1, <2>2 DEF SocksAsRead
    <3>3. Answered(r, "length", Len(replies[c]), sent[c])
      BY <1>2 DEF Answered, Unread
    <3>. QED
      BY <1>1, <1>2, <1>7, <1>8, <3>1, <3>2, <3>3, ExactStep
  <2>3. CASE r.atyp # 3
    <3>1. GoOn(c, "host", AddrBytes[r.atyp]) /\ AddrBytes[r.atyp] = Len(h)
      BY <1>3, <1>4, <1>6, <1>10, <2>1, <2>3 DEF Header
    <3>2. SocksAsRead(r, "host", Rest(c)', Len(h), address'[c])
      BY <1>6, <2>1, <2>3 DEF SocksAsRead
    <3>3. Answered(r, "host", Len(replies[c]), sent[c])
      BY <1>2 DEF Answered, Unread
    <3>. QED
      BY <1>1, <1>2, <1>3, <1>7, <1>8, <3>1, <3>2, <3>3, ExactStep
  <2>. QED
    BY <2>2, <2>3
<1>. QED
  BY <1>9, <1>10

(* A domain follows its length.                                            *)
LEMMA LengthStep ==
  ASSUME InboundInv, NEW c \in Conns, Length(c)
  PROVE  InboundInv'
<1> DEFINE r == request[c]
           n == Len(r.wanted.host)
           b == FromHost(r)
<1>1. ReadExactly(c, "length") /\ pc[c] = "length" /\ UNCHANGED <<buffer, address>>
      /\ GoOn(c, "host", Got(c)[1])
  BY DEF Length, ReadExactly
<1>2. /\ r \in Requests /\ r.proto = "socks" /\ Supported(r)
      /\ want[c] = 1 /\ Rest(c) = FromLength(r)
      /\ Answered(r, "length", Len(replies[c]), sent[c])
  BY <1>1, SocksOnly DEF InSocks, SocksAsRead
<1>3. n \in Nat /\ b \in Seq(Nat)
  BY <1>2, SocksBytes, LenProperties DEF Wants
<1>4. Rest(c) = <<n>> \o b /\ <<n>> \in Seq(Nat) /\ Len(<<n>>) = 1
  BY <1>2, <1>3 DEF FromLength
<1>5. Got(c) = <<n>> /\ Rest(c)' = b
  BY <1>1, <1>2, <1>3, <1>4, FieldRead
<1>6. GoOn(c, "host", n)
  BY <1>1, <1>5
<1>7. SocksAsRead(r, "host", Rest(c)', n, address'[c])
  BY <1>2, <1>5 DEF SocksAsRead
<1>8. Answered(r, "host", Len(replies[c]), sent[c])
  BY <1>2 DEF Answered, Unread
<1>9. /\ buffer' \in [Conns -> Seq(Nat)] /\ address' \in [Conns -> [host : Seq(Nat), port : Nat]]
      /\ buffer' = buffer /\ address' = address
  BY <1>1 DEF InboundInv, InboundType
<1>10. "host" \in PCs \ Unread /\ "length" \notin {"accepted", "put"}
  BY DEF PCs, Unread
<1> HIDE DEF n
<1>. QED
  BY <1>1, <1>2, <1>3, <1>6, <1>7, <1>8, <1>9, <1>10, ExactStep

(* The host is the one wanted.                                             *)
LEMMA SocksHostStep ==
  ASSUME InboundInv, NEW c \in Conns, SocksHost(c)
  PROVE  InboundInv'
<1> DEFINE r == request[c]
           h == r.wanted.host
           b == FromPort(r)
<1>1. ReadExactly(c, "host") /\ pc[c] = "host" /\ UNCHANGED buffer /\ GoOn(c, "port", 2)
      /\ address' = [address EXCEPT ![c].host = Got(c)]
  BY DEF SocksHost, ReadExactly
<1>2. /\ r \in Requests /\ r.proto = "socks" /\ Supported(r)
      /\ want[c] = Len(h) /\ Rest(c) = FromHost(r)
      /\ Answered(r, "host", Len(replies[c]), sent[c])
  BY <1>1, SocksOnly DEF InSocks, SocksAsRead
<1>3. h \in Seq(Nat) /\ b \in Seq(Nat) /\ Rest(c) = h \o b
  BY <1>2, SocksBytes DEF Wants, FromHost
<1>4. Got(c) = h /\ Rest(c)' = b
  BY <1>1, <1>2, <1>3, FieldRead
<1>5. /\ address' \in [Conns -> [host : Seq(Nat), port : Nat]] /\ address'[c].host = h
      /\ \A d \in Conns \ {c} : address'[d] = address[d]
  BY <1>1, <1>3, <1>4 DEF InboundInv, InboundType
<1>6. SocksAsRead(r, "port", Rest(c)', 2, address'[c])
  BY <1>2, <1>4, <1>5 DEF SocksAsRead
<1>7. Answered(r, "port", Len(replies[c]), sent[c])
  BY <1>2 DEF Answered, Unread
<1>8. buffer' \in [Conns -> Seq(Nat)] /\ buffer' = buffer
  BY <1>1 DEF InboundInv, InboundType
<1>9. "port" \in PCs \ Unread /\ "host" \notin {"accepted", "put"} /\ 2 \in Nat
  BY DEF PCs, Unread
<1>. QED
  BY <1>1, <1>2, <1>5, <1>6, <1>7, <1>8, <1>9, ExactStep

(* The two bytes of the port, put together, are the port wanted.           *)
LEMMA PortStep ==
  ASSUME InboundInv, NEW c \in Conns, Port(c)
  PROVE  InboundInv'
<1> DEFINE r == request[c]
           p == PortBytes(r)
           b == r.payload
<1>1. ReadExactly(c, "port") /\ pc[c] = "port" /\ UNCHANGED buffer /\ GoOn(c, "success", 0)
      /\ address' = [address EXCEPT ![c].port = Got(c)[1] * 256 + Got(c)[2]]
  BY DEF Port, ReadExactly
<1>2. /\ r \in Requests /\ r.proto = "socks" /\ Supported(r)
      /\ want[c] = 2 /\ Rest(c) = FromPort(r) /\ address[c].host = r.wanted.host
      /\ Answered(r, "port", Len(replies[c]), sent[c])
  BY <1>1, SocksOnly DEF InSocks, SocksAsRead
<1>3. /\ p \in Seq(Nat) /\ Len(p) = 2 /\ p[1] * 256 + p[2] = r.wanted.port
      /\ b \in Seq(Nat) /\ Rest(c) = p \o b /\ r.wanted \in [host : Seq(Nat), port : Nat]
  BY <1>2, SocksBytes DEF Wants, FromPort
<1> HIDE DEF p
<1>4. Got(c) = p /\ Rest(c)' = b
  <2>1. /\ ReadExactly(c, "port") /\ p \in Seq(Nat) /\ b \in Seq(Nat)
        /\ Rest(c) = p \o b /\ want[c] = Len(p)
    BY <1>1, <1>2, <1>3
  <2> HIDE DEF b
  <2>. QED
    BY <2>1, FieldRead
<1>5. /\ address' \in [Conns -> [host : Seq(Nat), port : Nat]] /\ address'[c] = r.wanted
      /\ \A d \in Conns \ {c} : address'[d] = address[d]
  <2>1. address' = [address EXCEPT ![c].port = r.wanted.port]
    BY <1>1, <1>3, <1>4
  <2>2. address \in [Conns -> [host : Seq(Nat), port : Nat]]
    BY DEF InboundInv, InboundType
  <2>. QED
    BY <1>2, <1>3, <2>1, <2>2
<1>6. SocksAsRead(r, "success", Rest(c)', 0, address'[c])
  BY <1>2, <1>4, <1>5 DEF SocksAsRead
<1>7. Answered(r, "success", Len(replies[c]), sent[c])
  BY <1>2 DEF Answered, Unread
<1>8. buffer' \in [Conns -> Seq(Nat)] /\ buffer' = buffer
  BY <1>1 DEF InboundInv, InboundType
<1>9. "success" \in PCs \ Unread /\ "port" \notin {"accepted", "put"}
  BY DEF PCs, Unread
<1>. QED
  BY <1>1, <1>2, <1>5, <1>6, <1>7, <1>8, <1>9, ExactStep

(* A reply reads nothing, and lets the client go on.                       *)
LEMMA ReplyStep ==
  ASSUME InboundInv, NEW c \in Conns, Reply(c)
  PROVE  InboundInv'
<1> DEFINE r == request[c]
           at == pc[c]
           to == AfterReply(at)
           n == IF at = "choice" THEN 4 ELSE 0
           k == Len(replies[c])
<1>1. /\ at \in {"choice", "refusal", "success", "established"}
      /\ replies' = [replies EXCEPT ![c] = Append(@, at)]
      /\ pc' = [pc EXCEPT ![c] = to] /\ want' = [want EXCEPT ![c] = n]
      /\ UNCHANGED <<request, sent, accepted, inbox, buffer, address, sessions_>>
  BY DEF Reply, GoOn, peers
<1>2. /\ at = "choice" => to = "header"
      /\ at = "refusal" => to = "closed"
      /\ at \in {"success", "established"} => to = "firstData"
  BY DEF AfterReply
<1>3. r \in Requests /\ AsRead(c) /\ Answered(r, at, k, sent[c])
  BY DEF InboundInv, InboundType, AsRead
<1>4. to \in PCs /\ n \in Nat /\ at \in PCs
  <2>1. at \in PCs
    BY DEF InboundInv, InboundType
  <2>2. to \in PCs
    BY <1>1, <1>2 DEF PCs
  <2>. QED
    BY <2>1, <2>2
<1>5. replies[c] \in Seq(PCs) /\ k \in Nat
  BY LenProperties DEF InboundInv, InboundType
<1>6. Append(replies[c], at) \in Seq(PCs) /\ Len(Append(replies[c], at)) = k + 1
  BY <1>4, <1>5, AppendProperties
<1>7. Rest(c)' = Rest(c)
  BY <1>1 DEF Rest, Unsent
<1> HIDE DEF to, n
<1>8. /\ pc'[c] = to /\ want'[c] = n /\ replies'[c] = Append(replies[c], at)
      /\ \A d \in Conns \ {c} : pc'[d] = pc[d] /\ want'[d] = want[d] /\ replies'[d] = replies[d]
  BY <1>1 DEF InboundInv, InboundType
<1>9. InboundType'
  <2>1. replies' \in [Conns -> Seq(PCs)]
    BY <1>1, <1>6 DEF InboundInv, InboundType
  <2>. QED
    BY <1>1, <1>4, <2>1 DEF InboundInv, InboundType
<1>10. \A d \in Conns \ {c} : Same(d)
  BY <1>1, <1>8 DEF Same
<1>11. Queued'
  BY <1>1, <1>8, QueuedKept
<1>12. Answered(r, to, k + 1, sent[c])
  <2>1. CASE r.proto = "socks"
    <3>1. Len(RequestParts(r)) = 3
      BY <1>3, <2>1, SocksBytes
    <3>2. at # "established"
      BY <1>3, <2>1 DEF AsRead, SocksAsRead
    <3> HIDE DEF r, at, k
    <3>. QED
      BY <1>1, <1>2, <1>3, <1>5, <2>1, <3>1, <3>2 DEF Answered, Unread
  <2>2. CASE r.proto # "socks"
    <3>1. at = "established" /\ r.method = CONNECT
      BY <1>1, <1>3, <2>2 DEF AsRead, HttpAsRead, Unread
    <3>2. r.proto = "http"
      BY <1>3, <2>2, RequestsAssumption DEF Wants
    <3> DEFINE l == RequestParts(r)
               h == HttpHead(r)
               p == r.payload
    <3>3. l = <<h, p>>
      BY <1>3, <3>1, <3>2, HttpBytes
    <3> HIDE DEF h, p
    <3>4. Len(l) = 2
      BY <3>3
    <3> HIDE DEF l
    <3>5. k = 0 /\ to = "firstData"
      BY <1>2, <1>3, <3>1 DEF Answered
    <3>. QED
      BY <3>4, <3>5 DEF Answered, Unread, l
  <2>. QED
    BY <2>1, <2>2
<1>13. AsRead(c)'
  <2>1. to \notin Unread
    BY <1>1, <1>2 DEF Unread
  <2>2. CASE r.proto = "socks"
    <3>1. SocksAsRead(r, at, Rest(c), want[c], address[c])
      BY <1>3, <2>2 DEF AsRead
    <3>2. SocksAsRead(r, to, Rest(c), n, address[c])
      BY <1>1, <1>2, <3>1 DEF SocksAsRead, n
    <3>. QED
      BY <1>1, <1>6, <1>7, <1>8, <1>12, <2>1, <2>2, <3>2 DEF AsRead, Unread
  <2>3. CASE r.proto # "socks"
    <3>1. HttpAsRead(r, at, Rest(c), buffer[c], address[c])
      BY <1>3, <2>3 DEF AsRead
    <3>2. at = "established" /\ to = "firstData"
      BY <1>1, <1>2, <3>1 DEF HttpAsRead, Unread
    <3>3. HttpAsRead(r, to, Rest(c), buffer[c], address[c])
      BY <3>1, <3>2 DEF HttpAsRead
    <3>. QED
      BY <1>1, <1>6, <1>7, <1>8, <1>12, <2>1, <2>3, <3>3 DEF AsRead, Unread
  <2>. QED
    BY <2>2, <2>3
<1>14. at # "put" /\ at # "accepted"
  BY <1>1
<1>. QED
  BY <1>1, <1>9, <1>10, <1>11, <1>13, <1>14, StepOf

(* Of a connection that is closed nothing is said.                         *)
LEMMA ThrowsStep ==
  ASSUME InboundInv, NEW c \in Conns, Throws(c)
  PROVE  InboundInv'
<1>1. /\ pc[c] \notin {"accepted", "put"} /\ pc' = [pc EXCEPT ![c] = "closed"]
      /\ want' = [want EXCEPT ![c] = 0]
      /\ UNCHANGED <<request, sent, accepted, inbox, buffer, address, replies, sessions_>>
  BY DEF Throws, GoOn, peers
<1>2. /\ pc'[c] = "closed" /\ want'[c] = 0
      /\ \A d \in Conns \ {c} : pc'[d] = pc[d] /\ want'[d] = want[d]
  BY <1>1 DEF InboundInv, InboundType
<1>3. InboundType'
  BY <1>1 DEF InboundInv, InboundType, PCs
<1>4. \A d \in Conns \ {c} : Same(d)
  BY <1>1, <1>2 DEF Same
<1>5. Queued'
  BY <1>1, <1>2, QueuedKept
<1>6. AsRead(c)'
  <2>1. Rest(c)' = Rest(c) /\ AsRead(c)
    BY <1>1 DEF Rest, Unsent, InboundInv
  <2>2. SocksAsRead(request[c], "closed", Rest(c), 0, address[c])
    BY DEF SocksAsRead
  <2>3. HttpAsRead(request[c], "closed", Rest(c), buffer[c], address[c])
    BY DEF HttpAsRead
  <2>4. Answered(request[c], "closed", Len(replies[c]), sent[c])
    BY <2>1 DEF AsRead, Answered, Unread
  <2>. QED
    BY <1>1, <1>2, <2>1, <2>2, <2>3, <2>4 DEF AsRead, Unread
<1>. QED
  BY <1>1, <1>3, <1>4, <1>5, <1>6, StepOf

(* A read of what there is takes all that was received.                    *)
LEMMA UnsentIs ==
  ASSUME InboundInv, NEW c \in Conns
  PROVE  /\ Unsent(c) \in Seq(Nat) /\ inbox[c] \in Seq(Nat) /\ Rest(c) = inbox[c] \o Unsent(c)
         /\ Len(Unsent(c)) \in Nat /\ Len(Unsent(c)) + sent[c] = Len(Wire[request[c]])
<1> DEFINE w == Wire[request[c]]
           k == sent[c]
           u == SubSeq(w, k + 1, Len(w))
<1>1. request[c] \in Requests /\ k \in Nat /\ k <= Len(w) /\ inbox[c] \in Seq(Nat)
  BY DEF InboundInv, InboundType
<1>2. w \in Seq(Nat) /\ Len(w) \in Nat
  BY <1>1, WireIs, LenProperties
<1>3. Unsent(c) = u
  BY DEF Unsent
<1> HIDE DEF w, k
<1>4. u \in Seq(Nat)
  BY <1>1, <1>2, SendsOn
<1>5. Len(u) + k = Len(w) /\ Len(u) \in Nat
  <2>1. CASE k = Len(w)
    <3>1. u = <<>>
      BY <1>2, <2>1, Suffix
    <3>2. Len(u) = 0
      BY <3>1, EmptySeq
    <3> HIDE DEF u
    <3>. QED
      BY <1>1, <2>1, <3>2
  <2>2. CASE k # Len(w)
    <3>1. k + 1 <= Len(w) /\ k + 1 \in Nat /\ Len(w) - (k + 1) + 1 = Len(w) - k
      BY <1>1, <1>2, <2>2
    <3>2. \A i \in k + 1 .. Len(w) : w[i] \in Nat
      BY <1>1, <1>2, ElementOfSeq
    <3>3. Len(u) = Len(w) - (k + 1) + 1
      BY <1>2, <3>1, <3>2, SubSeqProperties
    <3> HIDE DEF u
    <3>. QED
      BY <1>1, <1>2, <3>1, <3>3
  <2>. QED
    BY <2>1, <2>2
<1>. QED
  BY <1>1, <1>3, <1>4, <1>5 DEF Rest, w, k

(* A session handed over.                                                  *)
Puts(c, addr, data) ==
  sessions_' = Append(sessions_, [conn |-> c, address |-> addr, firstData |-> data])

(* A step that reads what there is, and what it has to show.               *)
LEMMA SomeStep ==
  ASSUME InboundInv, NEW c \in Conns, NEW at, at \notin {"accepted", "put"}, ReadSome(c, at),
         NEW to \in PCs \ Unread,
         pc' \in [Conns -> PCs], pc'[c] = to, want' \in [Conns -> Nat],
         buffer' \in [Conns -> Seq(Nat)], address' \in [Conns -> [host : Seq(Nat), port : Nat]],
         \A d \in Conns \ {c} : /\ pc'[d] = pc[d] /\ want'[d] = want[d]
                                /\ buffer'[d] = buffer[d] /\ address'[d] = address[d],
         IF request[c].proto = "socks"
         THEN SocksAsRead(request[c], to, Unsent(c), want'[c], address'[c])
         ELSE HttpAsRead(request[c], to, Unsent(c), buffer'[c], address'[c]),
         Answered(request[c], to, Len(replies[c]), sent[c]),
         \/ sessions_' = sessions_
         \/ \E addr \in [host : Seq(Nat), port : Nat], data \in Seq(Nat) :
              /\ Puts(c, addr, data)
              /\ SessionIs([conn |-> c, address |-> addr, firstData |-> data], request[c], to,
                           Unsent(c))
  PROVE  InboundInv'
<1>1. pc[c] = at /\ inbox' = [inbox EXCEPT ![c] = <<>>]
      /\ UNCHANGED <<request, sent, accepted, replies>>
  BY DEF ReadSome, peers
<1>2. /\ inbox' \in [Conns -> Seq(Nat)] /\ inbox'[c] = <<>>
      /\ \A d \in Conns \ {c} : inbox'[d] = inbox[d]
  BY <1>1, EmptySeq DEF InboundInv, InboundType
<1>3. Rest(c)' = Unsent(c)
  <2>1. PICK u \in Seq(Nat) : u = Unsent(c)
    BY UnsentIs
  <2>2. Unsent(c)' = u
    BY <1>1, <2>1 DEF Unsent
  <2>3. <<>> \o u = u
    BY ConcatEmptySeq
  <2>. QED
    BY <1>2, <2>1, <2>2, <2>3 DEF Rest
<1>4. \A d \in Conns \ {c} : Same(d)
  BY <1>1, <1>2 DEF Same
<1>5. Queued'
  BY <1>1, QueuedKept
<1>6. AsRead(c)'
  BY <1>1, <1>3 DEF AsRead, Unread
<1>7. CASE sessions_' = sessions_
  <2>1. InboundType'
    BY <1>1, <1>2, <1>7 DEF InboundInv, InboundType
  <2>. QED
    BY <1>1, <1>4, <1>5, <1>6, <1>7, <2>1, StepOf
<1>8. CASE sessions_' # sessions_
  <2>1. PICK addr \in [host : Seq(Nat), port : Nat], data \in Seq(Nat) :
              /\ Puts(c, addr, data)
              /\ SessionIs([conn |-> c, address |-> addr, firstData |-> data], request[c], to,
                           Unsent(c))
    BY <1>8
  <2> DEFINE s == [conn |-> c, address |-> addr, firstData |-> data]
             T == [conn : Conns, address : [host : Seq(Nat), port : Nat], firstData : Seq(Nat)]
  <2>2. s \in T /\ s.conn = c
    OBVIOUS
  <2>3. sessions_' = Append(sessions_, s) /\ SessionIs(s, request[c], to, Unsent(c))
    BY <2>1 DEF Puts
  <2> HIDE DEF s
  <2>4. sessions_ \in Seq(T)
    BY DEF InboundInv, InboundType
  <2> HIDE DEF T
  <2>5. sessions_' \in Seq(T)
    BY <2>2, <2>3, <2>4, AppendProperties
  <2>6. InboundType'
    BY <1>1, <1>2, <2>5 DEF InboundInv, InboundType, T
  <2>7. PICK t : t = s
    OBVIOUS
  <2>8. sessions_' = Append(sessions_, t) /\ t.conn = c /\ SessionIs(t, request[c], to, Unsent(c))
    BY <2>2, <2>3, <2>7
  <2>9. SessionFor(t)'
    <3>1. request'[t.conn] = request[c] /\ pc'[t.conn] = to /\ Rest(t.conn)' = Unsent(c)
      BY <1>1, <1>3, <2>8
    <3>. QED
      BY <2>8, <3>1 DEF SessionFor
  <2>. QED
    BY <1>1, <1>4, <1>5, <1>6, <2>6, <2>8, <2>9, StepOf
<1>. QED
  BY <1>7, <1>8

(* Where a handler goes on.                                                *)
LEMMA Moved ==
  ASSUME InboundInv, NEW c \in Conns, NEW to \in PCs, NEW n \in Nat, GoOn(c, to, n)
  PROVE  /\ pc' \in [Conns -> PCs] /\ want' \in [Conns -> Nat] /\ pc'[c] = to /\ want'[c] = n
         /\ \A d \in Conns \ {c} : pc'[d] = pc[d] /\ want'[d] = want[d]
  BY DEF GoOn, InboundInv, InboundType

(* What is handed over of a tunnel: what has come by now, and what comes.  *)
LEMMA FirstDataStep ==
  ASSUME InboundInv, NEW c \in Conns, FirstData(c)
  PROVE  InboundInv'
<1> DEFINE r == request[c]
           x == inbox[c]
           u == Unsent(c)
           a == address[c]
           s == [conn |-> c, address |-> a, firstData |-> x]
<1>1. /\ ReadSome(c, "firstData") /\ pc[c] = "firstData" /\ UNCHANGED <<buffer, address>>
      /\ GoOn(c, "put", 0) /\ Puts(c, a, x)
  BY DEF FirstData, ReadSome, putSession, Puts
<1>2. /\ r \in Requests /\ AsRead(c) /\ Answered(r, "firstData", Len(replies[c]), sent[c])
      /\ a \in [host : Seq(Nat), port : Nat]
  BY <1>1 DEF InboundInv, InboundType, AsRead
<1>3. x \in Seq(Nat) /\ u \in Seq(Nat) /\ Rest(c) = x \o u
  BY UnsentIs
<1>4. /\ pc' \in [Conns -> PCs] /\ want' \in [Conns -> Nat] /\ pc'[c] = "put" /\ want'[c] = 0
      /\ \A d \in Conns \ {c} : pc'[d] = pc[d] /\ want'[d] = want[d]
  <2>1. "put" \in PCs /\ 0 \in Nat
    BY DEF PCs
  <2>. QED
    BY <1>1, <2>1, Moved
<1>5. Answered(r, "put", Len(replies[c]), sent[c])
  BY <1>2 DEF Answered, Unread
<1>6. /\ SocksAsRead(r, "put", u, want'[c], address'[c])
      /\ HttpAsRead(r, "put", u, buffer'[c], address'[c])
  BY DEF SocksAsRead, HttpAsRead
<1>7. s.address = a /\ s.firstData = x
  OBVIOUS
<1>8. SessionIs(s, r, "put", u)
  <2> HIDE DEF s, x, u
  <2>1. CASE r.proto = "socks"
    <3>1. Supported(r) /\ x \o u = r.payload /\ a = r.wanted
      BY <1>1, <1>2, <1>3, <2>1 DEF AsRead, SocksAsRead
    <3>2. Stream(r) = r.payload /\ ~EagerConnect(r)
      BY <2>1 DEF Stream, EagerConnect
    <3>. QED
      BY <1>7, <2>1, <3>1, <3>2 DEF SessionIs
  <2>2. CASE r.proto # "socks"
    <3>1. HttpAsRead(r, "firstData", x \o u, buffer[c], a)
      BY <1>1, <1>2, <1>3, <2>2 DEF AsRead
    <3>2. Supported(r) /\ a = HttpAddress(Line(r)) /\ r.method = CONNECT
      BY <3>1 DEF HttpAsRead
    <3>3. r.proto = "http"
      BY <1>2, <2>2, RequestsAssumption DEF Wants
    <3>4. Stream(r) = r.payload
      BY <3>2 DEF Stream
    <3>5. IF r.eager THEN \E v \in Seq(Nat) : r.payload = v \o (x \o u) ELSE x \o u = r.payload
      BY <3>1 DEF HttpAsRead
    <3>6. EagerConnect(r) <=> r.eager
      BY <3>2, <3>3 DEF EagerConnect
    <3>. QED
      BY <1>7, <2>2, <3>2, <3>4, <3>5, <3>6 DEF SessionIs
  <2>. QED
    BY <2>1, <2>2
<1>9. /\ buffer' \in [Conns -> Seq(Nat)] /\ address' \in [Conns -> [host : Seq(Nat), port : Nat]]
      /\ buffer' = buffer /\ address' = address
  BY <1>1 DEF InboundInv, InboundType
<1>10. "put" \in PCs \ Unread /\ "firstData" \notin {"accepted", "put"}
  BY DEF PCs, Unread
<1>11. \E addr \in [host : Seq(Nat), port : Nat], data \in Seq(Nat) :
              /\ Puts(c, addr, data)
              /\ SessionIs([conn |-> c, address |-> addr, firstData |-> data], r, "put", u)
  BY <1>1, <1>2, <1>3, <1>8
<1> HIDE DEF s, x, u, a
<1>. QED
  BY <1>1, <1>4, <1>5, <1>6, <1>9, <1>10, <1>11, SomeStep DEF u

(* The empty line read, what is dropped is the rest of the head and, of a  *)
(* client that did not wait, the front of its payload.                     *)
LEMMA SkipEnds ==
  ASSUME NEW r \in Requests, r.proto = "http", NEW text \in Seq(Nat), NEW u \in Seq(Nat),
         text \o u = Behind(r), Found(text, CRLF \o CRLF)
  PROVE  /\ \E v \in Seq(Nat) : r.payload = v \o u
         /\ Len(r.payload) <= Len(u) => u = r.payload
<1> DEFINE b == Block(r)
           p == r.payload
           v == SubSeq(text, Len(b) + 1, Len(text))
<1>1. b \in Seq(Nat) /\ p \in Seq(Nat) /\ Len(b) <= Len(text) /\ text \o u = b \o p
  BY HttpBytes, EmptyLineEnds DEF Behind
<1>2. Divides(text, u, b, p)
  <2> HIDE DEF b, p
  <2>. QED
    BY <1>1, Divided
<1>3. v \in Seq(Nat) /\ v \o u = p
  BY <1>2 DEF Divides
<1> HIDE DEF v, b, p
<1>4. Len(p) = Len(v) + Len(u) /\ Len(v) \in Nat /\ Len(u) \in Nat
  BY <1>3, Joined
<1>5. ASSUME Len(p) <= Len(u) PROVE u = p
  <2>1. Len(v) = 0
    BY <1>4, <1>5
  <2>2. v = <<>>
    BY <1>3, <2>1, EmptySeq
  <2>. QED
    BY <1>3, <2>2, ConcatEmptySeq
<1>. QED
  BY <1>3, <1>5 DEF p

(* The line rewritten, and what follows it, is what the server has to get. *)
LEMMA RewrittenIs ==
  ASSUME NEW r \in Requests, r.proto = "http", r.method # CONNECT,
         NEW text \in Seq(Nat), NEW u \in Seq(Nat), text \o u = Behind(r)
  PROVE  /\ Rewritten(Line(r)) \o CRLF \o text \in Seq(Nat)
         /\ (Rewritten(Line(r)) \o CRLF \o text) \o u = Stream(r)
<1> DEFINE l == Line(r)
           rl == Rewritten(l)
           b == Behind(r)
           cb == CRLF \o b
           w == Wire[r]
<1>1. /\ l \in Seq(Nat) /\ Len(l) \in {1, 2} /\ CRLF \in Seq(Nat) /\ b \in Seq(Nat)
      /\ cb \in Seq(Nat) /\ w = l \o cb /\ text \o u = b
  BY HttpBytes
<1>2. Path \in Nat
  BY DEF Path
<1>3. rl = IF Len(l) > 1 THEN [l EXCEPT ![2] = Path] ELSE l
  BY DEF Rewritten
<1>4. /\ r.target = NoTarget => Len(l) = 1
      /\ r.target # NoTarget => Len(l) = 2
  <2>1. CASE r.target = NoTarget
    <3>1. l = <<r.method>>
      BY <2>1 DEF Line
    <3> HIDE DEF l
    <3>. QED
      BY <2>1, <3>1
  <2>2. CASE r.target # NoTarget
    <3>1. l = <<r.method, r.target>>
      BY <2>2 DEF Line
    <3> HIDE DEF l
    <3>. QED
      BY <2>2, <3>1
  <2>. QED
    BY <2>1, <2>2
<1>5. Stream(r) = IF r.target = NoTarget THEN w ELSE [w EXCEPT ![2] = Path]
  BY DEF Stream
<1> HIDE DEF l, rl, b, cb, w
<1>6. /\ rl \in Seq(Nat) /\ Len(rl) = Len(l)
      /\ Len(l) = 1 => rl = l
      /\ Len(l) = 2 => rl[1] = l[1] /\ rl[2] = Path
  <2>1. CASE Len(l) = 1
    <3>1. ~(Len(l) > 1)
      BY <2>1
    <3>. QED
      BY <1>1, <1>3, <2>1, <3>1
  <2>2. CASE Len(l) = 2
    <3>1. rl = [l EXCEPT ![2] = Path]
      BY <1>3, <2>2
    <3>2. 2 \in 1 .. Len(l) /\ 1 \in 1 .. Len(l)
      BY <2>2
    <3>3. /\ rl \in Seq(Nat) /\ Len(rl) = Len(l)
          /\ \A j \in 1 .. Len(l) : rl[j] = IF j = 2 THEN Path ELSE l[j]
      BY <1>1, <1>2, <3>1, <3>2, ExceptSeq
    <3>4. rl[1] = l[1] /\ rl[2] = Path
      BY <3>2, <3>3
    <3>. QED
      BY <2>2, <3>3, <3>4
  <2>. QED
    BY <1>1, <2>1, <2>2
<1>7. rl \o cb = Stream(r)
  <2>1. CASE r.target = NoTarget
    BY <1>1, <1>4, <1>5, <1>6, <2>1
  <2>2. CASE r.target # NoTarget
    <3> DEFINE s == rl \o cb
               t == [w EXCEPT ![2] = Path]
    <3>1. Len(l) = 2 /\ Len(rl) = 2 /\ rl[1] = l[1] /\ rl[2] = Path
      BY <1>4, <1>6, <2>2
    <3>0. /\ s \in Seq(Nat) /\ Len(s) = Len(rl) + Len(cb) /\ Len(cb) \in Nat
          /\ \A i \in 1 .. Len(rl) : s[i] = rl[i]
          /\ \A i \in 1 .. Len(cb) : s[Len(rl) + i] = cb[i]
      <4>1. rl \in Seq(Nat) /\ cb \in Seq(Nat)
        BY <1>1, <1>6
      <4>. QED
        BY <4>1, Joined
    <3>2. /\ s \in Seq(Nat) /\ Len(s) = 2 + Len(cb) /\ Len(cb) \in Nat
          /\ \A i \in 1 .. 2 : s[i] = rl[i]
          /\ \A i \in 1 .. Len(cb) : s[2 + i] = cb[i]
      <4> HIDE DEF s
      <4>. QED
        BY <3>0, <3>1
    <3>3. /\ w \in Seq(Nat) /\ Len(w) = 2 + Len(cb)
          /\ \A i \in 1 .. 2 : w[i] = l[i]
          /\ \A i \in 1 .. Len(cb) : w[2 + i] = cb[i]
      <4>1. /\ w \in Seq(Nat) /\ Len(w) = Len(l) + Len(cb)
            /\ \A i \in 1 .. Len(l) : w[i] = l[i]
            /\ \A i \in 1 .. Len(cb) : w[Len(l) + i] = cb[i]
        BY <1>1, Joined
      <4>. QED
        BY <3>1, <4>1
    <3>4. /\ t \in Seq(Nat) /\ Len(t) = Len(w)
          /\ \A i \in 1 .. Len(w) : t[i] = IF i = 2 THEN Path ELSE w[i]
      <4>1. 2 \in 1 .. Len(w)
        <5>1. Len(cb) \in Nat
          BY <3>2
        <5>. QED
          BY <3>3, <5>1
      <4>. QED
        BY <1>2, <3>3, <4>1, ExceptSeq
    <3> HIDE DEF s, t
    <3>5. ASSUME NEW i \in 1 .. Len(s) PROVE s[i] = t[i]
      <4>1. CASE i = 1
        BY <3>1, <3>2, <3>3, <3>4, <4>1
      <4>2. CASE i = 2
        BY <3>1, <3>2, <3>3, <3>4, <4>2
      <4>3. CASE i \notin {1, 2}
        <5>1. i - 2 \in 1 .. Len(cb) /\ 2 + (i - 2) = i /\ i \in 1 .. Len(w)
          BY <3>2, <3>3, <4>3
        <5>2. s[i] = cb[i - 2] /\ w[i] = cb[i - 2]
          BY <3>2, <3>3, <5>1
        <5>3. i # 2
          BY <4>3
        <5>. QED
          BY <3>4, <5>1, <5>2, <5>3
      <4>. QED
        BY <4>1, <4>2, <4>3
    <3>6. s = t
      BY <3>2, <3>3, <3>4, <3>5, SeqEqual
    <3>. QED
      BY <1>5, <2>2, <3>6 DEF s, t
  <2>. QED
    BY <2>1, <2>2
<1> DEFINE f == rl \o CRLF
<1>8. f \in Seq(Nat)
  BY <1>1, <1>6, ConcatProperties
<1>9. f \o b = rl \o cb
  <2> DEFINE e == CRLF
  <2>1. e \in Seq(Nat) /\ b \in Seq(Nat) /\ rl \in Seq(Nat)
    BY <1>1, <1>6
  <2> HIDE DEF e
  <2>2. Associates(rl, e, b)
    BY <2>1, Associated
  <2>. QED
    BY <2>2 DEF e, cb, Associates
<1> HIDE DEF f
<1>10. (f \o text) \o u = f \o b /\ f \o text \in Seq(Nat)
  <2>1. Associates(f, text, u)
    BY <1>1, <1>8, Associated
  <2>2. (f \o text) \o u = f \o b
    BY <1>1, <2>1 DEF Associates
  <2>3. f \o text \in Seq(Nat)
    BY <1>1, <1>8, ConcatProperties
  <2>. QED
    BY <2>2, <2>3
<1>. QED
  BY <1>7, <1>9, <1>10 DEF f, rl, l

(* The headers are skipped.                                                *)
SkipsOn(c, at, text) ==
  /\ ReadSome(c, at) /\ SkipHeaders(c, text)
  /\ text \in Seq(Nat) /\ text \o Unsent(c) = Behind(request[c])
  /\ request[c].proto = "http" /\ request[c].method = CONNECT /\ Supported(request[c])
  /\ address' \in [Conns -> [host : Seq(Nat), port : Nat]]
  /\ address'[c] = HttpAddress(Line(request[c]))
  /\ \A d \in Conns \ {c} : address'[d] = address[d]

(* Up to the empty line what was read is kept; a client that waits has     *)
(* sent nothing behind it.                                                 *)
LEMMA SkipStep ==
  ASSUME InboundInv, NEW c \in Conns, NEW at \in {"line", "headers"}, NEW text, SkipsOn(c, at, text)
  PROVE  InboundInv'
<1> DEFINE r == request[c]
           u == Unsent(c)
<1>1. /\ ReadSome(c, at) /\ pc[c] = at /\ SkipHeaders(c, text) /\ text \in Seq(Nat)
      /\ text \o u = Behind(r) /\ r.proto = "http" /\ r.method = CONNECT /\ Supported(r)
      /\ address'[c] = HttpAddress(Line(r)) /\ sessions_' = sessions_
  BY DEF SkipsOn, ReadSome, SkipHeaders
<1>2. r \in Requests /\ AsRead(c) /\ Answered(r, at, Len(replies[c]), sent[c])
  BY <1>1 DEF InboundInv, InboundType, AsRead
<1>3. u \in Seq(Nat) /\ Len(u) \in Nat /\ Len(u) + sent[c] = Len(Wire[r]) /\ sent[c] \in Nat
  BY UnsentIs DEF InboundInv, InboundType
<1>4. /\ Answered(r, "established", Len(replies[c]), sent[c])
      /\ Answered(r, "headers", Len(replies[c]), sent[c])
  BY <1>2 DEF Answered, Unread
<1>5. \A d \in Conns \ {c} : address'[d] = address[d]
  BY DEF SkipsOn
<1>6. address' \in [Conns -> [host : Seq(Nat), port : Nat]]
  BY DEF SkipsOn
<1>7. {"established", "headers"} \subseteq PCs \ Unread /\ 0 \in Nat /\ at \notin {"accepted", "put"}
  BY DEF PCs, Unread
<1>8. CASE Found(text, CRLF \o CRLF)
  <2>1. GoOn(c, "established", 0) /\ buffer' = [buffer EXCEPT ![c] = <<>>]
    BY <1>1, <1>8 DEF SkipHeaders
  <2>2. /\ pc' \in [Conns -> PCs] /\ want' \in [Conns -> Nat] /\ pc'[c] = "established" /\ want'[c] = 0
        /\ \A d \in Conns \ {c} : pc'[d] = pc[d] /\ want'[d] = want[d]
    BY <1>7, <2>1, Moved
  <2>3. buffer' \in [Conns -> Seq(Nat)] /\ \A d \in Conns \ {c} : buffer'[d] = buffer[d]
    BY <2>1, EmptySeq DEF InboundInv, InboundType
  <2>4. /\ \E v \in Seq(Nat) : r.payload = v \o u
        /\ Len(r.payload) <= Len(u) => u = r.payload
    BY <1>1, <1>2, <1>3, <1>8, SkipEnds
  <2>5. ASSUME ~r.eager PROVE u = r.payload
    <3> DEFINE h == HttpHead(r)
               p == r.payload
    <3>1. sent[c] <= Len(h)
      BY <1>1, <1>2, <2>5 DEF Answered, Unread
    <3>2. h \in Seq(Nat) /\ p \in Seq(Nat) /\ Wire[r] = h \o p
      BY <1>1, <1>2, HttpBytes
    <3> HIDE DEF h, p, u
    <3>3. Len(Wire[r]) = Len(h) + Len(p) /\ Len(h) \in Nat /\ Len(p) \in Nat
      BY <3>2, Joined
    <3>4. Len(p) <= Len(u)
      BY <1>3, <3>1, <3>3
    <3>. QED
      BY <2>4, <3>4 DEF p
  <2> HIDE DEF u
  <2>6. IF r.eager THEN \E v \in Seq(Nat) : r.payload = v \o u ELSE u = r.payload
    BY <2>4, <2>5
  <2>7. HttpAsRead(r, "established", u, buffer'[c], address'[c])
    BY <1>1, <2>6 DEF HttpAsRead
  <2>. QED
    BY <1>1, <1>4, <1>5, <1>6, <1>7, <2>1, <2>2, <2>3, <2>7, SomeStep DEF u
<1>9. CASE ~Found(text, CRLF \o CRLF)
  <2>1. GoOn(c, "headers", 0) /\ buffer' = [buffer EXCEPT ![c] = text]
    BY <1>1, <1>9 DEF SkipHeaders
  <2>2. /\ pc' \in [Conns -> PCs] /\ want' \in [Conns -> Nat] /\ pc'[c] = "headers" /\ want'[c] = 0
        /\ \A d \in Conns \ {c} : pc'[d] = pc[d] /\ want'[d] = want[d]
    BY <1>7, <2>1, Moved
  <2>3. /\ buffer' \in [Conns -> Seq(Nat)] /\ buffer'[c] = text
        /\ \A d \in Conns \ {c} : buffer'[d] = buffer[d]
    BY <1>1, <2>1 DEF InboundInv, InboundType
  <2>4. HttpAsRead(r, "headers", u, buffer'[c], address'[c])
    BY <1>1, <2>3 DEF HttpAsRead
  <2>. QED
    BY <1>1, <1>4, <1>5, <1>6, <1>7, <2>1, <2>2, <2>3, <2>4, SomeStep
<1>. QED
  BY <1>8, <1>9

(* The line is rewritten.                                                  *)
RewritesOn(c, text) ==
  /\ ReadSome(c, "line") /\ Rewrite(c, Line(request[c]), text)
  /\ text \in Seq(Nat) /\ text \o Unsent(c) = Behind(request[c])
  /\ request[c].proto = "http" /\ request[c].method # CONNECT /\ Supported(request[c])
  /\ HttpAddress(Line(request[c])) \in [host : Seq(Nat), port : Nat]
  /\ address' = [address EXCEPT ![c] = HttpAddress(Line(request[c]))]

(* The rewritten request is handed over with what was read behind its      *)
(* line, or waits for a first piece of it.                                 *)
LEMMA RewriteStep ==
  ASSUME InboundInv, NEW c \in Conns, NEW text, RewritesOn(c, text)
  PROVE  InboundInv'
<1> DEFINE r == request[c]
           u == Unsent(c)
           l == Line(r)
           a == HttpAddress(l)
           data == Rewritten(l) \o CRLF \o text
<1>1. /\ ReadSome(c, "line") /\ pc[c] = "line" /\ Rewrite(c, l, text) /\ text \in Seq(Nat)
      /\ text \o u = Behind(r) /\ r.proto = "http" /\ r.method # CONNECT /\ Supported(r)
      /\ a \in [host : Seq(Nat), port : Nat] /\ address' = [address EXCEPT ![c] = a]
  BY DEF RewritesOn, ReadSome
<1>2. r \in Requests /\ AsRead(c) /\ Answered(r, "line", Len(replies[c]), sent[c])
  BY <1>1 DEF InboundInv, InboundType, AsRead
<1>3. u \in Seq(Nat)
  BY UnsentIs
<1>4. /\ Answered(r, "rest", Len(replies[c]), sent[c])
      /\ Answered(r, "put", Len(replies[c]), sent[c])
  BY <1>2 DEF Answered, Unread
<1>5. /\ address' \in [Conns -> [host : Seq(Nat), port : Nat]] /\ address'[c] = a
      /\ \A d \in Conns \ {c} : address'[d] = address[d]
  <2> HIDE DEF a
  <2>. QED
    BY <1>1 DEF InboundInv, InboundType
<1>6. {"rest", "put"} \subseteq PCs \ Unread /\ 0 \in Nat /\ "line" \notin {"accepted", "put"}
  BY DEF PCs, Unread
<1>7. CASE text = <<>>
  <2>1. GoOn(c, "rest", 0) /\ buffer' = [buffer EXCEPT ![c] = l] /\ sessions_' = sessions_
    BY <1>1, <1>7 DEF Rewrite
  <2>2. /\ pc' \in [Conns -> PCs] /\ want' \in [Conns -> Nat] /\ pc'[c] = "rest" /\ want'[c] = 0
        /\ \A d \in Conns \ {c} : pc'[d] = pc[d] /\ want'[d] = want[d]
    BY <1>6, <2>1, Moved
  <2>3. l \in Seq(Nat)
    BY <1>1, <1>2, HttpBytes
  <2>4. /\ buffer' \in [Conns -> Seq(Nat)] /\ buffer'[c] = l
        /\ \A d \in Conns \ {c} : buffer'[d] = buffer[d]
    <3> HIDE DEF l
    <3>. QED
      BY <2>1, <2>3 DEF InboundInv, InboundType
  <2>5. u = Behind(r)
    <3> HIDE DEF u
    <3>1. <<>> \o u = u
      BY <1>3, ConcatEmptySeq
    <3>. QED
      BY <1>1, <1>7, <3>1
  <2>6. HttpAsRead(r, "rest", u, buffer'[c], address'[c])
    BY <1>1, <1>5, <2>4, <2>5 DEF HttpAsRead
  <2>. QED
    BY <1>1, <1>4, <1>5, <1>6, <2>1, <2>2, <2>4, <2>6, SomeStep
<1>8. CASE text # <<>>
  <2>1. GoOn(c, "put", 0) /\ Puts(c, a, data) /\ UNCHANGED buffer
    BY <1>1, <1>8 DEF Rewrite, putSession, Puts
  <2>2. /\ pc' \in [Conns -> PCs] /\ want' \in [Conns -> Nat] /\ pc'[c] = "put" /\ want'[c] = 0
        /\ \A d \in Conns \ {c} : pc'[d] = pc[d] /\ want'[d] = want[d]
    BY <1>6, <2>1, Moved
  <2>3. data \in Seq(Nat) /\ data \o u = Stream(r)
    BY <1>1, <1>2, <1>3, RewrittenIs
  <2>4. HttpAsRead(r, "put", u, buffer'[c], address'[c])
    BY DEF HttpAsRead
  <2>5. buffer' \in [Conns -> Seq(Nat)] /\ buffer' = buffer
    BY <2>1 DEF InboundInv, InboundType
  <2> HIDE DEF data
  <2>6. SessionIs([conn |-> c, address |-> a, firstData |-> data], r, "put", u)
    <3>1. ~EagerConnect(r)
      BY <1>1 DEF EagerConnect
    <3> HIDE DEF a, u
    <3>. QED
      BY <1>1, <2>3, <3>1 DEF SessionIs, a
  <2>7. \E addr \in [host : Seq(Nat), port : Nat], x \in Seq(Nat) :
              /\ Puts(c, addr, x)
              /\ SessionIs([conn |-> c, address |-> addr, firstData |-> x], r, "put", u)
    BY <1>1, <2>1, <2>3, <2>6
  <2> HIDE DEF a, u
  <2>. QED
    BY <1>1, <1>4, <1>5, <1>6, <2>1, <2>2, <2>4, <2>5, <2>7, SomeStep DEF u
<1>. QED
  BY <1>7, <1>8

(* What the first line says is what the client wants.                      *)
LEMMA LineSays ==
  ASSUME NEW r \in Requests, r.proto = "http"
  PROVE  /\ Target(Line(r)) = Uri(r.target) /\ Line(r)[1] = r.method
         /\ HttpAddress(Line(r)) \in [host : Seq(Nat), port : Nat]
         /\ HttpAddress(Line(r)) = IF Uri(r.target).host # <<>> THEN r.wanted
              ELSE [host |-> <<>>, port |-> IF r.method = CONNECT THEN 443 ELSE 80]
<1> DEFINE l == Line(r)
           uri == Uri(r.target)
<1>1. Wants(r)
  BY RequestsAssumption
<1>2. Target(l) = uri /\ l[1] = r.method
  <2>1. CASE r.target = NoTarget
    <3>1. l = <<r.method>>
      BY <2>1 DEF Line
    <3> HIDE DEF l
    <3>2. l[1] = r.method /\ ~(Len(l) > 1)
      BY <3>1
    <3>. QED
      BY <2>1, <3>2 DEF Target
  <2>2. CASE r.target # NoTarget
    <3>1. l = <<r.method, r.target>>
      BY <2>2 DEF Line
    <3> HIDE DEF l
    <3>2. l[1] = r.method /\ Len(l) > 1 /\ l[2] = r.target
      BY <3>1
    <3>. QED
      BY <3>2 DEF Target
  <2>. QED
    BY <2>1, <2>2
<1> HIDE DEF l
<1>3. /\ uri.host \in Seq(Nat) /\ uri.port \in Nat /\ r.wanted \in [host : Seq(Nat), port : Nat]
      /\ IF uri.host = <<>> THEN uri.port = 0
         ELSE /\ r.wanted.host = uri.host
              /\ r.wanted.port = IF uri.port # 0 THEN uri.port
                                 ELSE IF r.method = CONNECT THEN 443 ELSE 80
  BY <1>1 DEF Wants
<1> HIDE DEF uri
<1>4. HttpAddress(l) = [host |-> uri.host, port |-> IF uri.port # 0 THEN uri.port
                                                    ELSE IF r.method = CONNECT THEN 443 ELSE 80]
  BY <1>2 DEF HttpAddress
<1>5. HttpAddress(l) \in [host : Seq(Nat), port : Nat]
  BY <1>3, <1>4
<1>6. CASE uri.host # <<>>
  <2>1. HttpAddress(l).host = r.wanted.host /\ HttpAddress(l).port = r.wanted.port
    BY <1>3, <1>4, <1>6
  <2>2. HttpAddress(l) = r.wanted
    <3> DEFINE x == HttpAddress(l)
               y == r.wanted
    <3>1. x \in [host : Seq(Nat), port : Nat] /\ y \in [host : Seq(Nat), port : Nat]
          /\ x.host = y.host /\ x.port = y.port
      BY <1>3, <1>5, <2>1
    <3> HIDE DEF x, y
    <3>2. x = y
      BY <3>1
    <3>. QED
      BY <3>2 DEF x, y
  <2>. QED
    BY <1>2, <1>5, <1>6, <2>2 DEF l, uri
<1>7. CASE uri.host = <<>>
  <2>1. uri.port = 0
    BY <1>3, <1>7
  <2>2. HttpAddress(l) = [host |-> <<>>, port |-> IF r.method = CONNECT THEN 443 ELSE 80]
    BY <1>4, <1>7, <2>1
  <2>. QED
    BY <1>2, <1>5, <1>7, <2>2 DEF l, uri
<1>. QED
  BY <1>6, <1>7

(* The first line end read is the end of the request's line.               *)
LEMMA ReadLineStep ==
  ASSUME InboundInv, NEW c \in Conns, ReadLine(c)
  PROVE  InboundInv'
<1> DEFINE r == request[c]
           u == Unsent(c)
           text == buffer[c] \o inbox[c]
           line == FirstLine(text)
           after == AfterLine(text)
<1>1. ReadSome(c, "line") /\ pc[c] = "line"
  BY DEF ReadLine, ReadSome
<1>2. r \in Requests /\ AsRead(c) /\ Answered(r, "line", Len(replies[c]), sent[c])
  BY <1>1 DEF InboundInv, InboundType, AsRead
<1>3. r.proto # "socks" /\ HttpAsRead(r, "line", Rest(c), buffer[c], address[c])
  BY <1>1, <1>2 DEF AsRead, SocksAsRead
<1>4. r.proto = "http" /\ buffer[c] \o Rest(c) = Wire[r]
  BY <1>2, <1>3, RequestsAssumption DEF Wants, HttpAsRead
<1>5. u \in Seq(Nat) /\ inbox[c] \in Seq(Nat) /\ Rest(c) = inbox[c] \o u /\ buffer[c] \in Seq(Nat)
  BY UnsentIs DEF InboundInv, InboundType
<1>6. text \in Seq(Nat) /\ text \o u = Wire[r]
  <2> DEFINE x == buffer[c]
             y == inbox[c]
  <2>1. x \in Seq(Nat) /\ y \in Seq(Nat) /\ u \in Seq(Nat) /\ x \o (y \o u) = Wire[r]
    BY <1>4, <1>5
  <2> HIDE DEF x, y, u
  <2>2. x \o y \in Seq(Nat)
    BY <2>1, ConcatProperties
  <2>3. Associates(x, y, u)
    BY <2>1, Associated
  <2>. QED
    BY <2>1, <2>2, <2>3 DEF x, y, Associates
<1> HIDE DEF text, u
<1>7. {"line", "closed"} \subseteq PCs \ Unread /\ 0 \in Nat /\ "line" \notin {"accepted", "put"}
  BY DEF PCs, Unread
<1>8. /\ buffer \in [Conns -> Seq(Nat)] /\ pc \in [Conns -> PCs] /\ want \in [Conns -> Nat]
      /\ address \in [Conns -> [host : Seq(Nat), port : Nat]]
  BY DEF InboundInv, InboundType
<1>9. CASE ~Found(text, CRLF)
  <2>1. buffer' = [buffer EXCEPT ![c] = text] /\ UNCHANGED <<pc, want, address, sessions_>>
    BY <1>9 DEF ReadLine, text
  <2>2. /\ buffer' \in [Conns -> Seq(Nat)] /\ buffer'[c] = text
        /\ \A d \in Conns \ {c} : buffer'[d] = buffer[d]
    BY <1>6, <1>8, <2>1
  <2>3. HttpAsRead(r, "line", u, buffer'[c], address'[c])
    BY <1>6, <2>2 DEF HttpAsRead
  <2>4. /\ pc' \in [Conns -> PCs] /\ pc'[c] = "line" /\ want' \in [Conns -> Nat]
        /\ address' \in [Conns -> [host : Seq(Nat), port : Nat]]
        /\ \A d \in Conns \ {c} : pc'[d] = pc[d] /\ want'[d] = want[d] /\ address'[d] = address[d]
    BY <1>1, <1>8, <2>1
  <2>. QED
    BY <1>1, <1>2, <1>3, <1>7, <2>1, <2>2, <2>3, <2>4, SomeStep DEF u
<1>10. CASE Found(text, CRLF)
  <2>1. LineRead(r, text, u)
    BY <1>2, <1>4, <1>5, <1>6, <1>10, FirstLineEnds
  <2>2. line = Line(r) /\ after \in Seq(Nat) /\ after \o u = Behind(r)
    BY <2>1 DEF LineRead
  <2> HIDE DEF line, after
  <2>3. /\ Target(line) = Uri(r.target) /\ line[1] = r.method
        /\ HttpAddress(line) \in [host : Seq(Nat), port : Nat]
    BY <1>2, <1>4, <2>2, LineSays
  <2>4. CASE ~Target(line).ok
    <3>1. GoOn(c, "closed", 0) /\ UNCHANGED <<buffer, address, sessions_>>
      BY <1>10, <2>4 DEF ReadLine, text, line
    <3>2. /\ pc' \in [Conns -> PCs] /\ want' \in [Conns -> Nat] /\ pc'[c] = "closed" /\ want'[c] = 0
          /\ \A d \in Conns \ {c} : pc'[d] = pc[d] /\ want'[d] = want[d]
      BY <1>7, <3>1, Moved
    <3>3. HttpAsRead(r, "closed", u, buffer'[c], address'[c])
      BY DEF HttpAsRead
    <3>4. Answered(r, "closed", Len(replies[c]), sent[c])
      BY <1>2 DEF Answered, Unread
    <3>. QED
      BY <1>1, <1>3, <1>7, <1>8, <3>1, <3>2, <3>3, <3>4, SomeStep DEF u
  <2>5. CASE Target(line).ok
    <3>1. /\ address' = [address EXCEPT ![c] = HttpAddress(line)]
          /\ IF line[1] = CONNECT THEN SkipHeaders(c, after) ELSE Rewrite(c, line, after)
      BY <1>10, <2>5 DEF ReadLine, text, line, after
    <3>2. Supported(r)
      BY <1>3, <2>3, <2>5 DEF Supported
    <3>3. /\ address' \in [Conns -> [host : Seq(Nat), port : Nat]]
          /\ address'[c] = HttpAddress(line)
          /\ \A d \in Conns \ {c} : address'[d] = address[d]
      BY <1>8, <2>3, <3>1
    <3>4. CASE r.method = CONNECT
      <4>1. SkipsOn(c, "line", after)
        BY <1>1, <1>4, <2>2, <2>3, <3>1, <3>2, <3>3, <3>4 DEF SkipsOn, u
      <4>. QED
        BY <4>1, SkipStep
    <3>5. CASE r.method # CONNECT
      <4>1. RewritesOn(c, after)
        BY <1>1, <1>4, <2>2, <2>3, <3>1, <3>2, <3>5 DEF RewritesOn, u
      <4>. QED
        BY <4>1, RewriteStep
    <3>. QED
      BY <3>4, <3>5
  <2>. QED
    BY <2>4, <2>5
<1>. QED
  BY <1>9, <1>10

(* More of the head of a CONNECT.                                          *)
LEMMA ReadHeadersStep ==
  ASSUME InboundInv, NEW c \in Conns, ReadHeaders(c)
  PROVE  InboundInv'
<1> DEFINE r == request[c]
           u == Unsent(c)
           text == buffer[c] \o inbox[c]
<1>1. ReadSome(c, "headers") /\ pc[c] = "headers" /\ SkipHeaders(c, text) /\ UNCHANGED address
  BY DEF ReadHeaders, ReadSome
<1>2. r \in Requests /\ AsRead(c)
  BY DEF InboundInv, InboundType
<1>3. r.proto # "socks" /\ HttpAsRead(r, "headers", Rest(c), buffer[c], address[c])
  BY <1>1, <1>2 DEF AsRead, SocksAsRead
<1>4. /\ r.proto = "http" /\ r.method = CONNECT /\ Supported(r)
      /\ address[c] = HttpAddress(Line(r)) /\ buffer[c] \o Rest(c) = Behind(r)
  BY <1>2, <1>3, RequestsAssumption DEF Wants, HttpAsRead
<1>5. u \in Seq(Nat) /\ inbox[c] \in Seq(Nat) /\ Rest(c) = inbox[c] \o u /\ buffer[c] \in Seq(Nat)
  BY UnsentIs DEF InboundInv, InboundType
<1>6. text \in Seq(Nat) /\ text \o u = Behind(r)
  <2> DEFINE x == buffer[c]
             y == inbox[c]
  <2>1. x \in Seq(Nat) /\ y \in Seq(Nat) /\ u \in Seq(Nat) /\ x \o (y \o u) = Behind(r)
    BY <1>4, <1>5
  <2> HIDE DEF x, y, u
  <2>2. x \o y \in Seq(Nat)
    BY <2>1, ConcatProperties
  <2>3. Associates(x, y, u)
    BY <2>1, Associated
  <2>. QED
    BY <2>1, <2>2, <2>3 DEF x, y, Associates
<1> HIDE DEF text
<1>7. SkipsOn(c, "headers", text)
  BY <1>1, <1>4, <1>6 DEF SkipsOn, InboundInv, InboundType
<1>. QED
  BY <1>7, SkipStep

(* The first piece behind the line of any other method.                    *)
LEMMA ReadRestStep ==
  ASSUME InboundInv, NEW c \in Conns, ReadRest(c)
  PROVE  InboundInv'
<1> DEFINE r == request[c]
           u == Unsent(c)
           x == inbox[c]
           l == Line(r)
           a == HttpAddress(l)
           data == Rewritten(l) \o CRLF \o x
<1>1. /\ ReadSome(c, "rest") /\ pc[c] = "rest" /\ UNCHANGED <<buffer, address>>
      /\ GoOn(c, "put", 0) /\ Puts(c, address[c], Rewritten(buffer[c]) \o CRLF \o inbox[c])
  BY DEF ReadRest, ReadSome, putSession, Puts
<1>2. r \in Requests /\ AsRead(c) /\ Answered(r, "rest", Len(replies[c]), sent[c])
  BY <1>1 DEF InboundInv, InboundType, AsRead
<1>3. r.proto # "socks" /\ HttpAsRead(r, "rest", Rest(c), buffer[c], address[c])
  BY <1>1, <1>2 DEF AsRead, SocksAsRead
<1>4. /\ r.proto = "http" /\ r.method # CONNECT /\ Supported(r) /\ buffer[c] = l
      /\ address[c] = a /\ Rest(c) = Behind(r)
  BY <1>2, <1>3, RequestsAssumption DEF Wants, HttpAsRead
<1>5. u \in Seq(Nat) /\ x \in Seq(Nat) /\ x \o u = Behind(r)
  BY <1>4, UnsentIs
<1>6. a \in [host : Seq(Nat), port : Nat]
  BY <1>2, <1>4, LineSays
<1>7. data \in Seq(Nat) /\ data \o u = Stream(r)
  BY <1>2, <1>4, <1>5, RewrittenIs
<1>8. Puts(c, a, data)
  BY <1>1, <1>4
<1> HIDE DEF data
<1>9. {"put"} \subseteq PCs \ Unread /\ 0 \in Nat /\ "rest" \notin {"accepted", "put"}
  BY DEF PCs, Unread
<1>10. /\ pc' \in [Conns -> PCs] /\ want' \in [Conns -> Nat] /\ pc'[c] = "put" /\ want'[c] = 0
       /\ \A d \in Conns \ {c} : pc'[d] = pc[d] /\ want'[d] = want[d]
  BY <1>1, <1>9, Moved
<1>11. /\ buffer' \in [Conns -> Seq(Nat)] /\ buffer' = buffer /\ address' = address
       /\ address' \in [Conns -> [host : Seq(Nat), port : Nat]]
  BY <1>1 DEF InboundInv, InboundType
<1>12. HttpAsRead(r, "put", u, buffer'[c], address'[c])
  BY DEF HttpAsRead
<1>13. Answered(r, "put", Len(replies[c]), sent[c])
  BY <1>2 DEF Answered, Unread
<1>14. SessionIs([conn |-> c, address |-> a, firstData |-> data], r, "put", u)
  <2>1. ~EagerConnect(r)
    BY <1>4 DEF EagerConnect
  <2> HIDE DEF a, u
  <2>. QED
    BY <1>4, <1>7, <2>1 DEF SessionIs, a
<1>15. \E addr \in [host : Seq(Nat), port : Nat], y \in Seq(Nat) :
              /\ Puts(c, addr, y)
              /\ SessionIs([conn |-> c, address |-> addr, firstData |-> y], r, "put", u)
  BY <1>6, <1>7, <1>8, <1>14
<1> HIDE DEF a, u
<1>. QED
  BY <1>1, <1>3, <1>9, <1>10, <1>11, <1>12, <1>13, <1>15, SomeStep DEF u

(* Every step keeps the invariant.                                         *)
LEMMA InboundKept == InboundInv /\ [InboundNext]_inboundVars => InboundInv'
<1> SUFFICES ASSUME InboundInv, [InboundNext]_inboundVars PROVE InboundInv'
  OBVIOUS
<1>1. CASE mainWork_
  BY <1>1, MainWorkStep
<1>2. ASSUME NEW c \in Conns, ClientSends(c) PROVE InboundInv'
  BY <1>2, ClientSendsStep
<1>3. ASSUME NEW c \in Conns, ClientCloses(c) PROVE InboundInv'
  BY <1>3, InboundSame DEF ClientCloses
<1>4. ASSUME NEW c \in Conns, Handler(c) PROVE InboundInv'
  BY <1>4, FirstByteStep, NMethodsStep, MethodsStep, HeaderStep, LengthStep, SocksHostStep,
     PortStep, ReplyStep, FirstDataStep, ReadLineStep, ReadHeadersStep, ReadRestStep, ThrowsStep
     DEF Handler
<1>5. CASE UNCHANGED inboundVars
  BY <1>5, InboundSame DEF inboundVars
<1>. QED
  BY <1>1, <1>2, <1>3, <1>4, <1>5 DEF InboundNext

(* At every suspension point what the handler has not consumed, in the     *)
(* socket or still with the client, is the request from there on.          *)
THEOREM InboundReads == InboundSpec => []InboundInv
BY InitInbound, InboundKept, PTL DEF InboundSpec

(* Of the invariant follows that nothing is lost, ...                      *)
LEMMA PayloadFollows == InboundInv => PayloadIntact
<1> SUFFICES ASSUME InboundInv, NEW i \in DOMAIN sessions_
             PROVE  LET s == sessions_[i]
                        r == request[s.conn]
                    IN  IF EagerConnect(r) THEN IsSuffix(Remains(s), Stream(r))
                        ELSE Remains(s) = Stream(r)
  BY DEF PayloadIntact, Range
<1> DEFINE s == sessions_[i]
           c == s.conn
           r == request[c]
           x == inbox[c]
           u == Unsent(c)
           f == s.firstData
<1>1. /\ sessions_ \in Seq([conn : Conns, address : [host : Seq(Nat), port : Nat],
                           firstData : Seq(Nat)])
  BY DEF InboundInv, InboundType
<1>2. i \in 1 .. Len(sessions_)
  BY <1>1, LenProperties
<1>3. s \in [conn : Conns, address : [host : Seq(Nat), port : Nat], firstData : Seq(Nat)]
  BY <1>1, <1>2, ElementOfSeq
<1>4. c \in Conns /\ f \in Seq(Nat) /\ SessionIs(s, r, pc[c], Rest(c))
  BY <1>2, <1>3 DEF InboundInv, Handed, SessionFor
<1>5. x \in Seq(Nat) /\ u \in Seq(Nat) /\ Rest(c) = x \o u
  BY <1>4, UnsentIs
<1>6. Remains(s) = (f \o x) \o u
  BY DEF Remains
<1>7. (f \o x) \o u = f \o Rest(c) /\ f \o Rest(c) \in Seq(Nat)
  <2> HIDE DEF f, x, u, c
  <2>1. Associates(f, x, u)
    BY <1>4, <1>5, Associated
  <2>2. f \o Rest(c) \in Seq(Nat)
    BY <1>4, <1>5, ConcatProperties
  <2>. QED
    BY <1>4, <1>5, <2>1, <2>2 DEF Associates
<1>8. Remains(s) = f \o Rest(c)
  BY <1>6, <1>7
<1>9. CASE EagerConnect(r)
  <2>1. Stream(r) = r.payload
    BY <1>9 DEF Stream, EagerConnect
  <2>2. PICK v \in Seq(Nat) : r.payload = v \o (f \o Rest(c))
    BY <1>4, <1>9 DEF SessionIs
  <2>3. IsSuffix(f \o Rest(c), v \o (f \o Rest(c)))
    BY <1>7, IsSuffixOf
  <2>. QED
    BY <1>8, <1>9, <2>1, <2>2, <2>3
<1>10. CASE ~EagerConnect(r)
  <2>1. f \o Rest(c) = Stream(r)
    BY <1>4, <1>10 DEF SessionIs
  <2>. QED
    BY <1>8, <1>10, <2>1
<1>. QED
  BY <1>9, <1>10

(* ... and that the address is the one asked for.                          *)
LEMMA AddressFollows == InboundInv => AddressAsAsked
<1> SUFFICES ASSUME InboundInv, NEW i \in DOMAIN sessions_
             PROVE  LET s == sessions_[i]
                        r == request[s.conn]
                    IN  /\ Supported(r)
                        /\ s.address =
                             IF r.proto = "socks" \/ Uri(r.target).host # <<>> THEN r.wanted
                             ELSE [host |-> <<>>, port |-> IF r.method = CONNECT THEN 443 ELSE 80]
  BY DEF AddressAsAsked, Range
<1> DEFINE s == sessions_[i]
           c == s.conn
           r == request[c]
<1>1. /\ sessions_ \in Seq([conn : Conns, address : [host : Seq(Nat), port : Nat],
                           firstData : Seq(Nat)])
  BY DEF InboundInv, InboundType
<1>2. i \in 1 .. Len(sessions_)
  BY <1>1, LenProperties
<1>3. s \in [conn : Conns, address : [host : Seq(Nat), port : Nat], firstData : Seq(Nat)]
  BY <1>1, <1>2, ElementOfSeq
<1>4. c \in Conns /\ r \in Requests /\ SessionIs(s, r, pc[c], Rest(c))
  BY <1>2, <1>3 DEF InboundInv, InboundType, Handed, SessionFor
<1> HIDE DEF s, r
<1>5. /\ Supported(r)
      /\ s.address = IF r.proto = "socks" THEN r.wanted ELSE HttpAddress(Line(r))
  BY <1>4 DEF SessionIs
<1>6. CASE r.proto = "socks"
  BY <1>5, <1>6 DEF s, r
<1>7. CASE r.proto # "socks"
  <2>1. r.proto = "http"
    BY <1>4, <1>7, RequestsAssumption DEF Wants
  <2>2. HttpAddress(Line(r)) = IF Uri(r.target).host # <<>> THEN r.wanted
              ELSE [host |-> <<>>, port |-> IF r.method = CONNECT THEN 443 ELSE 80]
    BY <1>4, <2>1, LineSays
  <2>. QED
    BY <1>5, <1>7, <2>2 DEF s, r
<1>. QED
  BY <1>6, <1>7

(* However TCP cuts a request, the server gets what follows it, byte for   *)
(* byte, and for plain HTTP the request with its line rewritten; a client  *)
(* that does not wait for the answer to CONNECT may lose bytes at the      *)
(* front alone.                                                            *)
THEOREM PayloadKept == InboundSpec => []PayloadIntact
BY InboundReads, PayloadFollows, PTL

(* A session is made of a supported request only, and for the host and     *)
(* port its client wants, where the target names a host.                   *)
THEOREM AddressKept == InboundSpec => []AddressAsAsked
BY InboundReads, AddressFollows, PTL
=============================================================================
