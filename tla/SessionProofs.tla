--------------------------- MODULE SessionProofs ---------------------------
(***************************************************************************)
(* Proofs about what a session waits for before its relay: TcpClient for   *)
(* every set of addresses, and Session for every case, of whatever length  *)
(* its answer, first data, user and host are.                              *)
(***************************************************************************)
EXTENDS Session, TcpClient, SequenceLemmas

(* What each phase of the call knows of the attempts. *)
Phases ==
  /\ caller \in {"start", "resolving"} =>
       result = NoSocket /\ \A i \in Attempts : attempt[i] = "none"
  /\ caller = "connecting" =>
       result = NoSocket /\ \A i, j \in ips : i = j
  /\ caller \in {"returned", "threw"} /\ result = NoSocket =>
       \A i \in Attempts : attempt[i] \in {"none", "ended"}
  /\ caller # "returned" => returned = NoSocket

(* Which sockets are connected, and that only spawned attempts run. *)
Sockets ==
  /\ \A i \in Attempts : attempt[i] = "established" => sock[i] = "connected"
  /\ \A i \in Attempts : attempt[i] # "none" => i \in ips
  /\ result # NoSocket => /\ result \in ips
                          /\ attempt[result] = "ended"
                          /\ sock[result] = "connected"

IInv == /\ TypeOK
        /\ NoSocketLeaks
        /\ ReturnedIsConnected
        /\ WokenByResult
        /\ Phases
        /\ Sockets

LEMMA InitIInv == Init => IInv
BY NoSocketAssumption DEF Init, IInv, TypeOK, NoSocketLeaks, ReturnedIsConnected,
   WokenByResult, Phases, Sockets

LEMMA StepIInv == IInv /\ [Next]_vars => IInv'
<1> SUFFICES ASSUME IInv, [Next]_vars PROVE IInv'
  OBVIOUS
<1> USE NoSocketAssumption
<1> USE DEF IInv, TypeOK, NoSocketLeaks, ReturnedIsConnected, WokenByResult, Phases, Sockets
<1>1. ASSUME NEW i \in Attempts, connect_ip(i) PROVE IInv'
  BY <1>1 DEF connect_ip
<1>2. CASE Resolve \/ ResolveFails
  BY <1>2 DEF Resolve, ResolveFails
<1>3. ASSUME NEW S \in SUBSET Attempts, SpawnAttempts(S) PROVE IInv'
  BY <1>3 DEF SpawnAttempts
<1>4. ASSUME NEW i \in Attempts, Established(i) PROVE IInv'
  BY <1>4 DEF Established
<1>5. ASSUME NEW i \in Attempts, Refused(i) PROVE IInv'
  BY <1>5 DEF Refused
<1>6. ASSUME NEW i \in Attempts, ReturnLiteral(i) PROVE IInv'
  BY <1>6 DEF ReturnLiteral
<1>7. ASSUME NEW i \in Attempts, ThrowLiteral(i) PROVE IInv'
  BY <1>7 DEF ThrowLiteral
<1>8. ASSUME NEW i \in Attempts, WorkWins(i) PROVE IInv'
  <2>1. caller = "waiting"
    BY <1>8 DEF WorkWins
  <2>2. /\ result = NoSocket /\ result' = i /\ i \in ips /\ sock[i] = "connected"
        /\ timer' = "cancelled" /\ attempt' = [attempt EXCEPT ![i] = "ended"]
        /\ UNCHANGED <<caller, ips, sock, returned>>
    BY <1>8, <2>1 DEF WorkWins, Cancel
  <2>3. TypeOK' /\ WokenByResult' /\ ReturnedIsConnected'
    BY <2>1, <2>2
  <2>4. NoSocketLeaks' /\ Phases' /\ Sockets'
    BY <2>1, <2>2
  <2>. QED
    BY <2>3, <2>4
<1>9. ASSUME NEW i \in Attempts, WorkLate(i) PROVE IInv'
  BY <1>9 DEF WorkLate
<1>10. ASSUME NEW i \in Attempts, WorkFails(i) PROVE IInv'
  BY <1>10 DEF WorkFails
<1>11. CASE Wake
  BY <1>11 DEF Wake
<1>12. CASE UNCHANGED vars
  BY <1>12 DEF vars
<1>. QED
  BY <1>1, <1>2, <1>3, <1>4, <1>5, <1>6, <1>7, <1>8, <1>9, <1>10, <1>11, <1>12
     DEF Next, connect_address_work

LEMMA InductiveInvariant == Spec => []IInv
BY InitIInv, StepIInv, PTL DEF Spec

(* The variables of a call keep their types. *)
THEOREM TypeCorrect == Spec => []TypeOK
BY InductiveInvariant, PTL DEF IInv

(* However many attempts connect, and however late, all their sockets but  *)
(* the one the caller gets are closed.                                     *)
THEOREM NoLeak == Spec => []NoSocketLeaks
BY InductiveInvariant, PTL DEF IInv

(* connect_address returns only connected sockets. *)
THEOREM ReturnsConnected == Spec => []ReturnedIsConnected
BY InductiveInvariant, PTL DEF IInv

(* The sleeping caller is woken by a result, and by nothing else: with it, *)
(* the throw after the wait is dead code.                                  *)
THEOREM WakeupNeedsResult == Spec => []WokenByResult
BY InductiveInvariant, PTL DEF IInv

(* The winner of the race is never replaced. *)
THEOREM WinnerIsFinal == Spec => FirstSuccessWins
<1>1. [Next]_vars => [result # NoSocket => result' = result]_vars
  BY DEF Next, vars, connect_ip, Resolve, ResolveFails, SpawnAttempts, Established, Refused,
     ReturnLiteral, ThrowLiteral, connect_address_work, WorkWins, WorkLate, WorkFails, Wake
<1>. QED
  BY <1>1, PTL DEF Spec, FirstSuccessWins

-----------------------------------------------------------------------------
(* The downlink: what the server sends is neither lost nor reordered.      *)
Messages == [binary : BOOLEAN, data : Seq(Nat)]

(* Data of no message, of one more, and without the first.                 *)
LEMMA DataOf ==
  ASSUME NEW ms \in Seq(Messages)
  PROVE  [i \in 1 .. Len(ms) |-> ms[i].data] \in Seq(Seq(Nat))
<1>1. Len(ms) \in Nat /\ \A i \in 1 .. Len(ms) : ms[i] \in Messages
  BY ElementOfSeq, LenProperties
<1>2. \A i \in 1 .. Len(ms) : ms[i].data \in Seq(Nat)
  BY <1>1 DEF Messages
<1>. QED
  BY <1>1, <1>2

LEMMA DataAppend ==
  ASSUME NEW ms \in Seq(Messages), NEW m \in Messages
  PROVE  /\ Data(<<>>) = <<>> /\ Data(<<m>>) = m.data
         /\ Data(ms) \in Seq(Nat)
         /\ Data(Append(ms, m)) = Data(ms) \o m.data
<1> DEFINE parts(q) == [i \in 1 .. Len(q) |-> q[i].data]
<1>1. parts(ms) \in Seq(Seq(Nat)) /\ parts(Append(ms, m)) \in Seq(Seq(Nat))
  BY DataOf, AppendProperties
<1>2. parts(Append(ms, m)) = Append(parts(ms), m.data)
  <2> DEFINE s == parts(Append(ms, m))
             t == Append(parts(ms), m.data)
  <2>1. m.data \in Seq(Nat)
    BY DEF Messages
  <2>2. /\ Len(Append(ms, m)) = Len(ms) + 1 /\ Len(ms) \in Nat
        /\ Append(ms, m)[Len(ms) + 1] = m
        /\ \A i \in 1 .. Len(ms) : Append(ms, m)[i] = ms[i]
    BY AppendProperties, LenProperties
  <2>3. /\ t \in Seq(Seq(Nat)) /\ Len(t) = Len(ms) + 1
        /\ t[Len(ms) + 1] = m.data
        /\ \A i \in 1 .. Len(ms) : t[i] = ms[i].data
    BY <1>1, <2>1, <2>2, AppendProperties
  <2>4. Len(s) = Len(ms) + 1 /\ \A i \in 1 .. Len(ms) + 1 : s[i] = Append(ms, m)[i].data
    BY <2>2
  <2>5. \A i \in 1 .. Len(s) : s[i] = t[i]
    BY <2>2, <2>3, <2>4
  <2>. QED
    BY <1>1, <2>3, <2>4, <2>5, SeqEqual
<1>3. parts(<<>>) = <<>> /\ parts(<<m>>) = Append(<<>>, m.data)
  OBVIOUS
<1>4. m.data \in Seq(Nat) /\ <<>> \in Seq(Seq(Nat)) /\ <<>> \o m.data = m.data
  BY ConcatEmptySeq DEF Messages
<1> HIDE DEF parts
<1>5. /\ FlattenSeq(<<>>) = <<>> /\ FlattenSeq(parts(ms)) \in Seq(Nat)
      /\ FlattenSeq(Append(parts(ms), m.data)) = FlattenSeq(parts(ms)) \o m.data
      /\ FlattenSeq(Append(<<>>, m.data)) = FlattenSeq(<<>>) \o m.data
  BY <1>1, <1>4, FlattenAppend
<1>6. Data(<<>>) = FlattenSeq(parts(<<>>)) /\ Data(ms) = FlattenSeq(parts(ms))
      /\ Data(<<m>>) = FlattenSeq(parts(<<m>>))
      /\ Data(Append(ms, m)) = FlattenSeq(parts(Append(ms, m)))
  BY DEF Data, parts
<1>. QED
  BY <1>2, <1>3, <1>4, <1>5, <1>6

LEMMA DataHead ==
  ASSUME NEW ms \in Seq(Messages), ms # <<>>
  PROVE  /\ Head(ms) \in Messages /\ Tail(ms) \in Seq(Messages)
         /\ Data(ms) = Head(ms).data \o Data(Tail(ms))
<1> DEFINE parts(q) == [i \in 1 .. Len(q) |-> q[i].data]
<1>1. /\ Head(ms) \in Messages /\ Tail(ms) \in Seq(Messages) /\ Len(Tail(ms)) = Len(ms) - 1
      /\ Len(ms) \in Nat \ {0} /\ Head(ms) = ms[1]
      /\ \A i \in 1 .. Len(Tail(ms)) : Tail(ms)[i] = ms[i + 1]
  BY HeadTailProperties, EmptySeq
<1>2. parts(ms) \in Seq(Seq(Nat)) /\ parts(Tail(ms)) \in Seq(Seq(Nat))
  BY <1>1, DataOf
<1>3. /\ Len(parts(ms)) = Len(ms) /\ parts(ms) # <<>> /\ Head(parts(ms)) = ms[1].data
      /\ \A i \in 1 .. Len(ms) : parts(ms)[i] = ms[i].data
  BY <1>1, <1>2
<1>4. /\ Len(parts(Tail(ms))) = Len(ms) - 1
      /\ \A i \in 1 .. Len(ms) - 1 : parts(Tail(ms))[i] = ms[i + 1].data
  BY <1>1, <1>2
<1> HIDE DEF parts
<1>5. /\ Tail(parts(ms)) \in Seq(Seq(Nat)) /\ Len(Tail(parts(ms))) = Len(ms) - 1
      /\ \A i \in 1 .. Len(ms) - 1 : Tail(parts(ms))[i] = parts(ms)[i + 1]
  BY <1>2, <1>3, HeadTailProperties
<1>6. Tail(parts(ms)) = parts(Tail(ms))
  <2>1. \A i \in 1 .. Len(ms) - 1 : Tail(parts(ms))[i] = parts(Tail(ms))[i]
    BY <1>1, <1>3, <1>4, <1>5
  <2>. QED
    BY <1>2, <1>4, <1>5, <2>1, SeqEqual
<1>7. FlattenSeq(parts(ms)) = Head(parts(ms)) \o FlattenSeq(Tail(parts(ms)))
  BY <1>2, <1>3, FlattenHead
<1>8. Data(ms) = FlattenSeq(parts(ms)) /\ Data(Tail(ms)) = FlattenSeq(parts(Tail(ms)))
  BY DEF Data, parts
<1>. QED
  BY <1>1, <1>3, <1>6, <1>7, <1>8

-----------------------------------------------------------------------------
LEMMA DataTyped ==
  ASSUME NEW ms \in Seq(Messages)
  PROVE  Data(ms) \in Seq(Nat)
<1>1. [binary |-> TRUE, data |-> <<>>] \in Messages
  BY EmptySeq DEF Messages
<1>. QED
  BY <1>1, DataAppend

(* The handshake takes two bytes off the front of what was received.       *)
LEMMA TakeTwo ==
  ASSUME NEW s \in Seq(Nat), NEW t \in Seq(Nat), Len(s) >= 2
  PROVE  /\ SubSeq(s \o t, 1, 2) = SubSeq(s, 1, 2)
         /\ SubSeq(s, 3, Len(s)) \in Seq(Nat)
         /\ SubSeq(s \o t, 3, Len(s \o t)) = SubSeq(s, 3, Len(s)) \o t
<1>0. ASSUME NEW n \in Nat, n >= 2 PROVE n = 2 \/ 3 <= n
  BY <1>0
<1>1. Len(s) \in Nat /\ Len(t) \in Nat /\ s \o t \in Seq(Nat) /\ Len(s \o t) = Len(s) + Len(t)
  BY ConcatProperties, LenProperties
<1>2. \A i \in 1 .. Len(s) + Len(t) :
        (s \o t)[i] = (IF i <= Len(s) THEN s[i] ELSE t[i - Len(s)]) /\ (s \o t)[i] \in Nat
  BY <1>1, ConcatProperties, ElementOfSeq
<1>3. SubSeq(s \o t, 1, 2) = SubSeq(s, 1, 2)
  BY <1>1, SubSeqOfConcat1
<1> DEFINE a == SubSeq(s, 3, Len(s))
           b == SubSeq(s \o t, 3, Len(s \o t))
<1>4. a \in Seq(Nat) /\ Len(a) = Len(s) - 2 /\ \A i \in 1 .. Len(s) - 2 : a[i] = s[i + 2]
  <2>1. \A i \in 3 .. Len(s) : s[i] \in Nat
    BY <1>1, ElementOfSeq
  <2>2. /\ a \in Seq(Nat) /\ Len(a) = (IF 3 <= Len(s) THEN Len(s) - 3 + 1 ELSE 0)
        /\ \A i \in 1 .. Len(s) - 3 + 1 : a[i] = s[3 + i - 1]
    BY <1>1, <2>1, SubSeqProperties
  <2> HIDE DEF a
  <2>3. Len(a) = Len(s) - 2
    <3>1. CASE 3 <= Len(s)
      BY <3>1, <1>1, <2>2
    <3>2. CASE Len(s) = 2
      BY <3>2, <2>2
    <3>. QED
      BY <3>1, <3>2, <1>0, <1>1
  <2>4. ASSUME NEW i \in 1 .. Len(s) - 2 PROVE a[i] = s[i + 2]
    <3>1. i \in 1 .. Len(s) - 3 + 1 /\ 3 + i - 1 = i + 2
      BY <1>1
    <3>. QED
      BY <2>2, <3>1
  <2>. QED
    BY <2>2, <2>3, <2>4
<1>5. /\ b \in Seq(Nat) /\ Len(b) = Len(s) + Len(t) - 2
      /\ \A i \in 1 .. Len(s) + Len(t) - 2 : b[i] = (s \o t)[i + 2]
  <2> DEFINE st == s \o t
             n == Len(s) + Len(t)
  <2>1. st \in Seq(Nat) /\ Len(st) = n /\ n \in Nat /\ 2 <= n
    BY <1>1
  <2>2. b = SubSeq(st, 3, n)
    BY <2>1
  <2> HIDE DEF st, n, b
  <2>3. \A i \in 3 .. n : st[i] \in Nat
    BY <2>1, ElementOfSeq
  <2>4. /\ b \in Seq(Nat) /\ Len(b) = (IF 3 <= n THEN n - 3 + 1 ELSE 0)
        /\ \A i \in 1 .. n - 3 + 1 : b[i] = st[3 + i - 1]
    BY <2>1, <2>2, <2>3, SubSeqProperties
  <2>5. Len(b) = n - 2
    <3>1. n = 2 \/ 3 <= n
      BY <2>1
    <3>2. CASE n = 2
      BY <2>4, <3>2
    <3>3. CASE 3 <= n
      BY <2>1, <2>4, <3>3
    <3>. QED
      BY <3>1, <3>2, <3>3
  <2>6. ASSUME NEW i \in 1 .. n - 2 PROVE b[i] = st[i + 2]
    <3>1. i \in 1 .. n - 3 + 1 /\ 3 + i - 1 = i + 2
      BY <2>1
    <3>. QED
      BY <2>4, <3>1
  <2>. QED
    BY <2>4, <2>5, <2>6, SMTT(60) DEF st, n
<1> HIDE DEF a, b
<1>6. /\ a \o t \in Seq(Nat) /\ Len(a \o t) = Len(b)
      /\ \A i \in 1 .. Len(b) : (a \o t)[i] = IF i <= Len(a) THEN a[i] ELSE t[i - Len(a)]
  <2>1. Len(b) = Len(a) + Len(t)
    BY <1>1, <1>4, <1>5
  <2>. QED
    BY <1>4, <2>1, ConcatProperties
<1>7. ASSUME NEW i \in 1 .. Len(b) PROVE (a \o t)[i] = b[i]
  <2>0. i \in 1 .. Len(s) + Len(t) - 2
    BY <1>5
  <2>1. CASE i <= Len(a)
    <3>1. i \in 1 .. Len(s) - 2 /\ i + 2 \in 1 .. Len(s) + Len(t) /\ i + 2 <= Len(s)
      BY <1>1, <1>4, <2>0, <2>1
    <3>2. (s \o t)[i + 2] = s[i + 2]
      BY <1>2, <3>1
    <3>3. b[i] = (s \o t)[i + 2]
      BY <1>5, <2>0
    <3>4. (a \o t)[i] = a[i]
      BY <1>6, <2>1
    <3>5. a[i] = s[i + 2]
      BY <1>4, <3>1
    <3>. QED
      BY <3>2, <3>3, <3>4, <3>5
  <2>2. CASE ~(i <= Len(a))
    <3>1. i - Len(a) = (i + 2) - Len(s) /\ i + 2 \in 1 .. Len(s) + Len(t) /\ ~(i + 2 <= Len(s))
      BY <2>2, <1>1, <1>4, <1>5
    <3>2. (s \o t)[i + 2] = t[(i + 2) - Len(s)]
      BY <3>1, <1>2
    <3>3. b[i] = (s \o t)[i + 2]
      BY <1>1, <1>5
    <3>4. (a \o t)[i] = t[i - Len(a)]
      BY <2>2, <1>6
    <3>. QED
      BY <3>1, <3>2, <3>3, <3>4
  <2>. QED
    BY <2>1, <2>2
<1>8. a \o t = b
  BY <1>5, <1>6, <1>7, SeqEqual
<1>. QED
  BY <1>3, <1>4, <1>8 DEF a, b

LEMMA AnswerParts ==
  ASSUME NEW s \in Seq(Nat), NEW n \in 0 .. Len(s)
  PROVE  /\ SubSeq(s, 1, n) \in Seq(Nat) /\ Len(SubSeq(s, 1, n)) = n
         /\ n >= 2 => /\ SubSeq(SubSeq(s, 1, n), 1, 2) = SubSeq(s, 1, 2)
                      /\ SubSeq(SubSeq(s, 1, n), 3, n) = SubSeq(s, 3, n)
         /\ \A m \in n .. Len(s), k \in 0 .. n :
              /\ SubSeq(s, n + 1, m) \in Seq(Nat)
              /\ SubSeq(s, k + 1, n) \o SubSeq(s, n + 1, m) = SubSeq(s, k + 1, m)
<1>1. Len(s) \in Nat /\ n \in Nat /\ \A i \in 1 .. Len(s) : s[i] \in Nat
  BY ElementOfSeq, LenProperties
<1> DEFINE u == SubSeq(s, 1, n)
<1>2. u \in Seq(Nat) /\ Len(u) = n /\ \A i \in 1 .. n : u[i] = s[i]
  BY <1>1, SubSeqProperties
<1>3. ASSUME n >= 2 PROVE SubSeq(u, 1, 2) = SubSeq(s, 1, 2) /\ SubSeq(u, 3, n) = SubSeq(s, 3, n)
  <2>1. SubSeq(u, 1, 2) = SubSeq(s, 1, 2)
    BY <1>1, <1>3, SubSeqOfSubSeq
  <2>2. CASE n = 2
    BY <2>1, <2>2, SubSeqEmpty
  <2>3. CASE n > 2
    BY <1>1, <2>3, SubSeqOfSubSeq
  <2>4. n = 2 \/ n > 2
    BY <1>1, <1>3
  <2>. QED
    BY <2>1, <2>2, <2>3, <2>4
<1>4. ASSUME NEW m \in n .. Len(s), NEW k \in 0 .. n
      PROVE  /\ SubSeq(s, n + 1, m) \in Seq(Nat)
             /\ SubSeq(s, k + 1, n) \o SubSeq(s, n + 1, m) = SubSeq(s, k + 1, m)
  <2>1. SubSeq(s, n + 1, m) \in Seq(Nat)
    BY <1>1, SubSeqProperties
  <2>2. k + 1 \in 1 .. Len(s) + 1 /\ n \in (k + 1) - 1 .. Len(s) /\ m \in n .. Len(s)
    BY <1>1
  <2>3. SubSeq(s, k + 1, n) \o SubSeq(s, n + 1, m) = SubSeq(s, k + 1, m)
    BY <2>2, ConcatAdjacentSubSeq
  <2>. QED
    BY <2>1, <2>3
<1>. QED
  BY <1>2, <1>3, <1>4

(* What is read moves from the front of the buffers to the end of what was *)
(* delivered.                                                              *)
Moves(d, p, c, q, b, r) ==
  d \in Seq(Nat) /\ p \in Seq(Nat) /\ c \in Seq(Nat) /\ q \in Seq(Nat)
  /\ b \in Seq(Nat) /\ r \in Seq(Nat) /\ p \o (c \o q) = b \o r
    => ((d \o p) \o c) \o q = (d \o b) \o r

LEMMA ReadMoves ==
  ASSUME NEW d, NEW p, NEW c, NEW q, NEW b, NEW r
  PROVE  Moves(d, p, c, q, b, r)
<1> DEFINE dp == d \o p
           cq == c \o q
<1>1. /\ (d \in Seq(Nat) /\ p \in Seq(Nat) => dp \in Seq(Nat))
      /\ (c \in Seq(Nat) /\ q \in Seq(Nat) => cq \in Seq(Nat))
  BY ConcatProperties
<1> HIDE DEF dp
<1>2. dp \in Seq(Nat) /\ c \in Seq(Nat) /\ q \in Seq(Nat) => Associates(dp, c, q)
  BY Associated
<1> HIDE DEF cq
<1>3. d \in Seq(Nat) /\ p \in Seq(Nat) /\ cq \in Seq(Nat) => Associates(d, p, cq)
  BY Associated
<1>4. d \in Seq(Nat) /\ b \in Seq(Nat) /\ r \in Seq(Nat) => Associates(d, b, r)
  BY Associated
<1>5. d \in Seq(Nat) /\ p \in Seq(Nat) /\ c \in Seq(Nat) /\ q \in Seq(Nat)
      /\ b \in Seq(Nat) /\ r \in Seq(Nat) /\ p \o (c \o q) = b \o r
        => ((d \o p) \o c) \o q = (d \o b) \o r
  BY <1>1, <1>2, <1>3, <1>4 DEF dp, cq, Associates
<1>. QED
  BY <1>5 DEF Moves

(* The suspension points of a transport.                                   *)
LEMMA StepsOf ==
  ASSUME outbound.transport \in {"tcp", "tls", "ws"}
  PROVE  /\ Len(Steps) \in 1 .. 3
         /\ \A j \in 1 .. Len(Steps) : Steps[j] \in {"connect", "tlsHandshake", "wsHandshake"}
<1>1. CASE outbound.transport = "tcp"
  BY <1>1 DEF Steps
<1>2. CASE outbound.transport = "tls"
  BY <1>2 DEF Steps
<1>3. CASE outbound.transport = "ws"
  BY <1>3 DEF Steps
<1>. QED
  BY <1>1, <1>2, <1>3

-----------------------------------------------------------------------------
(* What has been taken from the answer is what was delivered, and what is  *)
(* still buffered or received; before the relay nothing is delivered, and  *)
(* nothing taken off the front.                                            *)
SessionType ==
  /\ answer \in Seq(Nat) /\ replied \in 0 .. Len(answer)
  /\ received \in Seq(Messages)
  /\ buffer_ \in Seq(Nat) /\ delivered \in Seq(Nat)
  /\ outbound \in [type : {"direct", "vless"}, transport : {"tcp", "tls", "ws"}]

BeforeRelay ==
  stage \notin {"relay", "failed"} =>
    delivered = <<>> /\ buffer_ \o Data(received) = SubSeq(answer, 1, replied)

BuffersOnlyMessages == outbound.transport # "ws" => buffer_ = <<>>

OnlyVlessWaits == stage = "response" => outbound.type = "vless"

DownlinkInv == /\ SessionType /\ BeforeRelay /\ BuffersOnlyMessages /\ OnlyVlessWaits
               /\ DownlinkIntact

LEMMA InitDownlink == SessionInit => DownlinkInv
<1> SUFFICES ASSUME SessionInit PROVE DownlinkInv
  OBVIOUS
<1>1. PICK c \in Cases : outbound = c.outbound /\ answer = c.answer
  BY DEF SessionInit
<1>2. answer \in Seq(Nat) /\ Len(answer) \in Nat
  BY <1>1, CasesAssumption, LenProperties
<1>3. outbound \in [type : {"direct", "vless"}, transport : {"tcp", "tls", "ws"}]
  BY <1>1, CasesAssumption
<1>4. SessionType
  BY <1>2, <1>3, EmptySeq DEF SessionInit, SessionType
<1>5. Data(<<>>) = <<>> /\ SubSeq(answer, 1, 0) = <<>> /\ <<>> \o <<>> = <<>>
  <2>1. Data(<<>>) = <<>>
    <3>1. <<>> \in Seq(Messages) /\ [binary |-> TRUE, data |-> <<>>] \in Messages
      BY EmptySeq DEF Messages
    <3>. QED
      BY <3>1, DataAppend
  <2>2. SubSeq(answer, 1, 0) = <<>>
    BY <1>2, SubSeqEmpty
  <2>. QED
    BY <2>1, <2>2, ConcatEmptySeq, EmptySeq
<1>6. BeforeRelay /\ BuffersOnlyMessages /\ OnlyVlessWaits /\ DownlinkIntact
  BY <1>5 DEF SessionInit, BeforeRelay, BuffersOnlyMessages, OnlyVlessWaits, DownlinkIntact
<1>. QED
  BY <1>4, <1>6 DEF DownlinkInv

(* A step that only moves on between the suspension points before the      *)
(* response.                                                               *)
LEMMA BeforeResponseKeeps ==
  ASSUME DownlinkInv, stage \notin {"relay", "failed", "response"},
         stage' \notin {"relay", "response"},
         UNCHANGED <<outbound, answer, replied, received, buffer_, delivered>>
  PROVE  DownlinkInv'
BY DEF DownlinkInv, SessionType, BeforeRelay, BuffersOnlyMessages, OnlyVlessWaits,
       DownlinkIntact

(* The handshake: what is taken are the first two bytes of the answer.     *)
LEMMA HandshakeKeeps ==
  ASSUME DownlinkInv, stage = "response",
         NEW got \in Seq(Nat), NEW rest \in Seq(Nat), Len(got) >= 2,
         got \o rest = SubSeq(answer, 1, replied),
         Handshake(SubSeq(got, 1, 2)),
         buffer_' \in Seq(Nat), received' \in Seq(Messages),
         buffer_' \o Data(received') = SubSeq(got, 3, Len(got)) \o rest,
         outbound.transport # "ws" => buffer_' = <<>>,
         UNCHANGED <<outbound, answer, replied, delivered>>
  PROVE  DownlinkInv'
<1>1. /\ answer \in Seq(Nat) /\ replied \in 0 .. Len(answer) /\ Len(answer) \in Nat
      /\ delivered = <<>> /\ outbound.type = "vless"
  BY LenProperties DEF DownlinkInv, SessionType, BeforeRelay, OnlyVlessWaits
<1>2. SessionType' /\ BuffersOnlyMessages' /\ OnlyVlessWaits' /\ BeforeRelay'
  BY DEF DownlinkInv, SessionType, BuffersOnlyMessages, OnlyVlessWaits, BeforeRelay, Handshake
<1>3. /\ Len(SubSeq(answer, 1, replied)) = replied
      /\ replied >= 2 =>
           /\ SubSeq(SubSeq(answer, 1, replied), 1, 2) = SubSeq(answer, 1, 2)
           /\ SubSeq(SubSeq(answer, 1, replied), 3, replied) = SubSeq(answer, 3, replied)
  BY <1>1, AnswerParts
<1>4. /\ SubSeq(got \o rest, 1, 2) = SubSeq(got, 1, 2)
      /\ SubSeq(got \o rest, 3, Len(got \o rest)) = SubSeq(got, 3, Len(got)) \o rest
  BY TakeTwo
<1>5. Len(got \o rest) = Len(got) + Len(rest) /\ Len(got) \in Nat /\ Len(rest) \in Nat
  BY ConcatProperties, LenProperties
<1>6. replied >= 2
  BY <1>1, <1>3, <1>5
<1>7. SubSeq(got, 1, 2) = SubSeq(answer, 1, 2)
  BY <1>3, <1>4, <1>6
<1>8. buffer_' \o Data(received') = SubSeq(answer, 3, replied)
  BY <1>3, <1>4, <1>6
<1>9. stage' = "relay" => Accepts(SubSeq(answer, 1, 2))
  BY <1>7 DEF Handshake
<1>10. (delivered \o buffer_) ' = buffer_'
  BY <1>1, ConcatEmptySeq
<1>11. DownlinkIntact'
  <2>1. delivered' \o buffer_' = buffer_'
    BY <1>10
  <2>2. outbound'.type = "vless" /\ replied' = replied /\ answer' = answer
    BY <1>1
  <2>3. (delivered' \o buffer_') \o Data(received') = SubSeq(answer', 2 + 1, replied')
    <3>1. (delivered' \o buffer_') \o Data(received') = buffer_' \o Data(received')
      BY <2>1
    <3>2. 2 + 1 = 3
      OBVIOUS
    <3>. QED
      BY <1>8, <2>2, <3>1, <3>2
  <2>. QED
    BY <1>6, <1>9, <2>2, <2>3 DEF DownlinkIntact
<1>. QED
  BY <1>2, <1>11 DEF DownlinkInv

(* The relay: what is read moves to the delivered.                         *)
LEMMA ReadKeeps ==
  ASSUME DownlinkInv, stage = "relay", stage' \in {"relay", "failed"},
         NEW piece \in Seq(Nat), received' \in Seq(Messages), buffer_' \in Seq(Nat),
         delivered' = delivered \o piece,
         stage' = "relay" => piece \o (buffer_' \o Data(received')) = buffer_ \o Data(received),
         outbound.transport # "ws" => buffer_' = <<>>,
         UNCHANGED <<outbound, answer, replied>>
  PROVE  DownlinkInv'
<1>1. /\ buffer_ \in Seq(Nat) /\ delivered \in Seq(Nat) /\ received \in Seq(Messages)
      /\ delivered' \in Seq(Nat)
  BY ConcatProperties DEF DownlinkInv, SessionType
<1>2. SessionType' /\ BuffersOnlyMessages' /\ OnlyVlessWaits' /\ BeforeRelay'
  BY <1>1 DEF DownlinkInv, SessionType, BuffersOnlyMessages, OnlyVlessWaits, BeforeRelay
<1>3. Data(received) \in Seq(Nat) /\ Data(received') \in Seq(Nat)
  BY <1>1, DataTyped
<1>4. Moves(delivered, piece, buffer_', Data(received'), buffer_, Data(received))
  BY ReadMoves
<1>5. stage' = "relay" => ((delivered \o piece) \o buffer_') \o Data(received')
                          = (delivered \o buffer_) \o Data(received)
  BY <1>1, <1>3, <1>4 DEF Moves
<1>7. stage' = "relay" => (delivered' \o buffer_') \o Data(received')
                          = (delivered \o buffer_) \o Data(received)
  BY <1>5
<1>8. DownlinkIntact'
  BY <1>7 DEF DownlinkIntact, DownlinkInv
<1>. QED
  BY <1>2, <1>8 DEF DownlinkInv

LEMMA ServerSendsKeeps == DownlinkInv /\ ServerSends => DownlinkInv'
<1> SUFFICES ASSUME DownlinkInv, ServerSends PROVE DownlinkInv'
  OBVIOUS
<1>1. PICK n \in replied .. Len(answer), binary \in BOOLEAN :
        /\ received' = Append(received, [binary |-> binary, data |-> SubSeq(answer, replied + 1, n)])
        /\ replied' = n
  BY DEF ServerSends
<1> DEFINE piece == SubSeq(answer, replied + 1, n)
           m == [binary |-> binary, data |-> piece]
<1>2. /\ answer \in Seq(Nat) /\ replied \in 0 .. Len(answer) /\ received \in Seq(Messages)
      /\ buffer_ \in Seq(Nat) /\ delivered \in Seq(Nat) /\ Len(answer) \in Nat
  BY LenProperties DEF DownlinkInv, SessionType
<1>3. UNCHANGED <<outbound, answer, stage, buffer_, delivered>>
  BY DEF ServerSends, fixed
<1>4. /\ piece \in Seq(Nat)
      /\ \A k \in 0 .. replied : SubSeq(answer, k + 1, replied) \o piece = SubSeq(answer, k + 1, n)
      /\ SubSeq(answer, 1, replied) \o piece = SubSeq(answer, 1, n)
  <2>1. ASSUME NEW k \in 0 .. replied
        PROVE  SubSeq(answer, k + 1, replied) \o piece = SubSeq(answer, k + 1, n)
    BY <1>2, AnswerParts
  <2>2. PICK k \in 0 .. replied : k + 1 = 1
    BY <1>2
  <2>3. piece \in Seq(Nat)
    BY <1>2, <2>2, AnswerParts
  <2>. QED
    BY <2>1, <2>2, <2>3
<1>5. m \in Messages /\ n \in 0 .. Len(answer) /\ n >= replied
  BY <1>2, <1>4 DEF Messages
<1>6. Data(received') = Data(received) \o piece /\ received' \in Seq(Messages)
  BY <1>1, <1>2, <1>5, DataAppend, AppendProperties
<1>7. Data(received) \in Seq(Nat)
  BY <1>2, DataTyped
<1>8. SessionType' /\ BuffersOnlyMessages' /\ OnlyVlessWaits'
  BY <1>1, <1>2, <1>3, <1>5, <1>6
     DEF DownlinkInv, SessionType, BuffersOnlyMessages, OnlyVlessWaits
<1> HIDE DEF piece, m
<1>9. BeforeRelay'
  <2> SUFFICES ASSUME stage \notin {"relay", "failed"} PROVE BeforeRelay'
    BY <1>3 DEF BeforeRelay
  <2>1. delivered = <<>> /\ buffer_ \o Data(received) = SubSeq(answer, 1, replied)
    BY DEF DownlinkInv, BeforeRelay
  <2>2. Associates(buffer_, Data(received), piece)
    BY <1>2, <1>4, <1>7, Associated
  <2>3. SubSeq(answer, 1, replied) \o piece = SubSeq(answer, 1, n)
    BY <1>4
  <2>4. buffer_ \o Data(received') = SubSeq(answer, 1, n)
    BY <1>6, <2>1, <2>2, <2>3 DEF Associates
  <2>. QED
    BY <1>1, <1>3, <2>1, <2>4 DEF BeforeRelay
<1>10. DownlinkIntact'
  <2> DEFINE answered == IF outbound.type = "vless" THEN 2 ELSE 0
  <2> SUFFICES ASSUME stage = "relay" PROVE DownlinkIntact'
    BY <1>3 DEF DownlinkIntact
  <2>1. /\ replied >= answered /\ (answered = 2 => Accepts(SubSeq(answer, 1, 2)))
        /\ delivered \o buffer_ \o Data(received) = SubSeq(answer, answered + 1, replied)
    BY DEF DownlinkInv, DownlinkIntact
  <2>2. answered \in 0 .. replied
    BY <1>2, <2>1
  <2> HIDE DEF answered
  <2>3. SubSeq(answer, answered + 1, replied) \o piece = SubSeq(answer, answered + 1, n)
    BY <1>4, <2>2
  <2>4. delivered \o buffer_ \in Seq(Nat)
    BY <1>2, ConcatProperties
  <2>5. ((delivered \o buffer_) \o Data(received)) \o piece
          = (delivered \o buffer_) \o (Data(received) \o piece)
    <3>1. Associates(delivered \o buffer_, Data(received), piece)
      BY <1>4, <1>7, <2>4, Associated
    <3>. QED
      BY <3>1 DEF Associates
  <2>6. (delivered \o buffer_) \o Data(received') = SubSeq(answer, answered + 1, n)
    BY <1>6, <2>1, <2>3, <2>5
  <2>7. n >= answered
    BY <1>2, <1>5, <2>2
  <2>. QED
    BY <1>1, <1>3, <2>1, <2>6, <2>7 DEF DownlinkIntact, answered
<1>. QED
  BY <1>8, <1>9, <1>10 DEF DownlinkInv

LEMMA StreamResponseKeeps == DownlinkInv /\ StreamResponse => DownlinkInv'
<1> SUFFICES ASSUME DownlinkInv, StreamResponse PROVE DownlinkInv'
  OBVIOUS
<1> DEFINE stream == Data(received)
           left == SubSeq(stream, 3, Len(stream))
           rest == [binary |-> TRUE, data |-> left]
<1>1. /\ stage = "response" /\ outbound.transport # "ws" /\ Len(stream) >= 2
      /\ Handshake(SubSeq(stream, 1, 2))
      /\ received' = IF Len(stream) = 2 THEN <<>> ELSE <<rest>>
      /\ UNCHANGED <<outbound, answer, replied, buffer_, delivered>>
  BY DEF StreamResponse, fixed
<1>2. /\ stream \in Seq(Nat) /\ buffer_ = <<>> /\ stream = SubSeq(answer, 1, replied)
      /\ received \in Seq(Messages)
  <2>1. received \in Seq(Messages) /\ buffer_ = <<>>
    BY <1>1 DEF DownlinkInv, SessionType, BuffersOnlyMessages
  <2>2. stream \in Seq(Nat)
    BY <2>1, DataTyped
  <2>3. buffer_ \o stream = SubSeq(answer, 1, replied)
    BY <1>1 DEF DownlinkInv, BeforeRelay
  <2>4. buffer_ \o stream = stream
    BY <2>1, <2>2, ConcatEmptySeq
  <2>. QED
    BY <2>1, <2>2, <2>3, <2>4
<1> HIDE DEF stream
<1>3. stream \o <<>> = stream /\ left \o <<>> = left /\ left \in Seq(Nat) /\ <<>> \in Seq(Nat)
      /\ <<>> \o left = left
  <2>1. <<>> \in Seq(Nat)
    BY EmptySeq
  <2>2. left \in Seq(Nat)
    BY <1>1, <1>2, <2>1, TakeTwo
  <2>. QED
    BY <1>2, <2>1, <2>2, ConcatEmptySeq
<1>4. rest \in Messages
  BY <1>3 DEF Messages
<1>5. received' \in Seq(Messages) /\ Data(received') = left
  <2>1. CASE Len(stream) = 2
    <3>1. received' = <<>> /\ left = <<>>
      BY <1>1, <1>2, <2>1, SubSeqEmpty
    <3>2. Data(<<>>) = <<>>
      BY <1>2, <1>4, DataAppend
    <3>. QED
      BY <3>1, <3>2, EmptySeq
  <2>2. CASE Len(stream) # 2
    <3>1. received' = <<rest>>
      BY <1>1, <2>2
    <3>2. Data(<<rest>>) = left
      BY <1>2, <1>4, DataAppend
    <3>3. <<rest>> \in Seq(Messages)
      BY <1>4
    <3>. QED
      BY <3>1, <3>2, <3>3
  <2>. QED
    BY <2>1, <2>2
<1> HIDE DEF left, rest
<1>6. buffer_' = <<>> /\ buffer_' \o Data(received') = left \o <<>>
  BY <1>1, <1>2, <1>3, <1>5
<1>. QED
  BY <1>1, <1>2, <1>3, <1>5, <1>6, HandshakeKeeps DEF left

LEMMA WsResponseKeeps == DownlinkInv /\ WsResponse => DownlinkInv'
<1> SUFFICES ASSUME DownlinkInv, WsResponse PROVE DownlinkInv'
  OBVIOUS
<1> DEFINE m == Head(received)
           rest == Data(Tail(received))
           got == buffer_ \o m.data
<1>1. /\ stage = "response" /\ outbound.transport = "ws" /\ received # <<>>
      /\ received' = Tail(received)
      /\ UNCHANGED <<outbound, answer, replied, delivered>>
  BY DEF WsResponse, fixed
<1>2. IF ~m.binary THEN stage' = "failed" /\ UNCHANGED buffer_
      ELSE IF Len(got) < 2 THEN buffer_' = got /\ UNCHANGED stage
      ELSE Handshake(SubSeq(got, 1, 2)) /\ buffer_' = SubSeq(got, 3, Len(got))
  BY DEF WsResponse
<1>3. /\ received \in Seq(Messages) /\ buffer_ \in Seq(Nat) /\ delivered = <<>>
      /\ buffer_ \o Data(received) = SubSeq(answer, 1, replied)
  BY <1>1 DEF DownlinkInv, SessionType, BeforeRelay
<1>4. m \in Messages /\ received' \in Seq(Messages) /\ Data(received) = m.data \o rest
  BY <1>1, <1>3, DataHead
<1>5. m.data \in Seq(Nat) /\ rest \in Seq(Nat)
  BY <1>1, <1>4, DataTyped DEF Messages
<1> HIDE DEF m, rest
<1>6. got \in Seq(Nat) /\ Len(got) \in Nat
  BY <1>3, <1>5, ConcatProperties, LenProperties
<1>7. got \o rest = buffer_ \o (m.data \o rest)
  <2>1. Associates(buffer_, m.data, rest)
    BY <1>3, <1>5, Associated
  <2>. QED
    BY <2>1 DEF Associates, got
<1> HIDE DEF got
<1>8. got \o rest = SubSeq(answer, 1, replied)
  BY <1>3, <1>4, <1>7
<1>9. Data(received') = rest
  BY <1>1 DEF rest
<1>10. CASE ~m.binary
  BY <1>10, <1>1, <1>2, <1>4
     DEF DownlinkInv, SessionType, BeforeRelay, BuffersOnlyMessages, OnlyVlessWaits,
         DownlinkIntact
<1>11. CASE m.binary /\ Len(got) < 2
  <2>1. buffer_' = got /\ stage' = stage
    BY <1>2, <1>11
  <2>2. (buffer_ \o Data(received))' = SubSeq(answer, 1, replied)
    BY <1>8, <1>9, <2>1
  <2>. QED
    BY <1>1, <1>3, <1>4, <1>6, <2>1, <2>2
       DEF DownlinkInv, SessionType, BeforeRelay, BuffersOnlyMessages, OnlyVlessWaits,
           DownlinkIntact
<1>12. CASE m.binary /\ ~(Len(got) < 2)
  <2>1. Handshake(SubSeq(got, 1, 2)) /\ buffer_' = SubSeq(got, 3, Len(got)) /\ Len(got) >= 2
    BY <1>2, <1>6, <1>12
  <2>2. buffer_' \in Seq(Nat)
    BY <1>5, <1>6, <2>1, TakeTwo
  <2>3. buffer_' \o Data(received') = SubSeq(got, 3, Len(got)) \o rest
    BY <1>9, <2>1
  <2>. QED
    BY <1>1, <1>4, <1>5, <1>6, <1>8, <2>1, <2>2, <2>3, HandshakeKeeps
<1>. QED
  BY <1>10, <1>11, <1>12

LEMMA StreamReadKeeps == DownlinkInv /\ StreamRead => DownlinkInv'
<1> SUFFICES ASSUME DownlinkInv, StreamRead PROVE DownlinkInv'
  OBVIOUS
<1>1. /\ stage = "relay" /\ stage' = "relay" /\ received' = <<>> /\ buffer_' = buffer_
      /\ delivered' = delivered \o Data(received)
      /\ UNCHANGED <<outbound, answer, replied>>
  BY DEF StreamRead, fixed
<1>2. received \in Seq(Messages) /\ buffer_ = <<>>
  BY DEF StreamRead, DownlinkInv, SessionType, BuffersOnlyMessages
<1>3. Data(received) \in Seq(Nat) /\ Data(<<>>) = <<>>
  <2>1. [binary |-> TRUE, data |-> <<>>] \in Messages
    BY EmptySeq DEF Messages
  <2>. QED
    BY <1>2, <2>1, DataAppend
<1>4. <<>> \o <<>> = <<>> /\ Data(received) \o <<>> = Data(received)
      /\ <<>> \o Data(received) = Data(received)
  BY <1>3, ConcatEmptySeq, EmptySeq
<1>5. Data(received) \o (buffer_' \o Data(received')) = buffer_ \o Data(received)
  BY <1>1, <1>2, <1>3, <1>4
<1>6. buffer_' \in Seq(Nat) /\ received' \in Seq(Messages)
  BY <1>1, <1>2, EmptySeq
<1>. QED
  BY <1>1, <1>2, <1>3, <1>5, <1>6, ReadKeeps

LEMMA WsReadKeeps == DownlinkInv /\ WsRead => DownlinkInv'
<1> SUFFICES ASSUME DownlinkInv, WsRead PROVE DownlinkInv'
  OBVIOUS
<1>1. stage = "relay" /\ outbound.transport = "ws" /\ UNCHANGED <<outbound, answer, replied>>
  BY DEF WsRead, fixed
<1>2. /\ received \in Seq(Messages) /\ buffer_ \in Seq(Nat) /\ delivered \in Seq(Nat)
      /\ Data(received) \in Seq(Nat) /\ <<>> \in Seq(Nat)
  BY DataTyped, EmptySeq DEF DownlinkInv, SessionType
<1>3. \A r \in Seq(Nat) : <<>> \o r = r /\ r \o <<>> = r
  BY ConcatEmptySeq
<1>4. CASE /\ buffer_ # <<>>
           /\ delivered' = delivered \o buffer_ /\ buffer_' = <<>>
           /\ UNCHANGED <<received, stage>>
  <2>1. buffer_ \o (buffer_' \o Data(received')) = buffer_ \o Data(received)
    BY <1>2, <1>3, <1>4
  <2>. QED
    BY <1>1, <1>2, <1>4, <2>1, ReadKeeps
<1>5. CASE /\ buffer_ = <<>> /\ received # <<>> /\ received' = Tail(received)
           /\ Head(received).binary /\ delivered' = delivered \o Head(received).data
           /\ UNCHANGED <<stage, buffer_>>
  <2>1. /\ Head(received) \in Messages /\ Tail(received) \in Seq(Messages)
        /\ Data(received) = Head(received).data \o Data(Tail(received))
    BY <1>2, <1>5, DataHead
  <2>2. Head(received).data \in Seq(Nat) /\ Data(Tail(received)) \in Seq(Nat)
    BY <2>1, DataTyped DEF Messages
  <2>3. Head(received).data \o (buffer_' \o Data(received')) = buffer_ \o Data(received)
    BY <1>2, <1>3, <1>5, <2>1, <2>2
  <2>. QED
    BY <1>1, <1>2, <1>5, <2>1, <2>2, <2>3, ReadKeeps
<1>6. CASE /\ buffer_ = <<>> /\ received # <<>> /\ received' = Tail(received)
           /\ stage' = "failed" /\ UNCHANGED <<delivered, buffer_>>
  <2>1. Tail(received) \in Seq(Messages)
    BY <1>2, <1>6, DataHead
  <2>. QED
    BY <1>1, <1>2, <1>6, <2>1
       DEF DownlinkInv, SessionType, BeforeRelay, BuffersOnlyMessages, OnlyVlessWaits,
           DownlinkIntact
<1>. QED
  BY <1>4, <1>5, <1>6 DEF WsRead

LEMMA StepDownlink == DownlinkInv /\ [SessionNext]_sessionVars => DownlinkInv'
<1> SUFFICES ASSUME DownlinkInv, [SessionNext]_sessionVars PROVE DownlinkInv'
  OBVIOUS
<1>1. CASE handleSession_
  BY <1>1, BeforeResponseKeeps DEF handleSession_, fixed
<1>2. CASE Connect
  <2>1. PICK i \in 1 .. Len(Steps) :
          /\ stage = Steps[i]
          /\ stage' = IF i = Len(Steps) THEN "request" ELSE Steps[i + 1]
          /\ UNCHANGED <<fixed, target, uplink, replied, received, buffer_, delivered>>
    BY <1>2 DEF Connect
  <2>2. /\ Len(Steps) \in 1 .. 3
        /\ \A j \in 1 .. Len(Steps) : Steps[j] \in {"connect", "tlsHandshake", "wsHandshake"}
    BY StepsOf DEF DownlinkInv, SessionType
  <2>3. i + 1 \in 1 .. Len(Steps) \/ i = Len(Steps)
    BY <2>2
  <2>4. stage \in {"connect", "tlsHandshake", "wsHandshake"}
        /\ stage' \in {"connect", "tlsHandshake", "wsHandshake", "request"}
    BY <2>1, <2>2, <2>3
  <2>. QED
    BY <2>1, <2>4, BeforeResponseKeeps DEF fixed
<1>3. CASE WriteRequest
  <2>1. /\ stage = "request" /\ stage' = IF outbound.type = "direct" THEN "relay" ELSE "response"
        /\ UNCHANGED <<outbound, answer, replied, received, buffer_, delivered>>
    BY <1>3 DEF WriteRequest, fixed
  <2>2. /\ SessionType' /\ BuffersOnlyMessages' /\ OnlyVlessWaits' /\ BeforeRelay'
        /\ outbound.type \in {"direct", "vless"} /\ buffer_ \in Seq(Nat) /\ replied >= 0
    BY <2>1 DEF DownlinkInv, SessionType, BeforeRelay, BuffersOnlyMessages, OnlyVlessWaits
  <2>3. DownlinkIntact'
    <3>1. CASE outbound.type = "vless"
      BY <3>1, <2>1 DEF DownlinkIntact
    <3>2. CASE outbound.type = "direct"
      <4>1. delivered \o buffer_ = buffer_
        BY <2>1, <2>2, ConcatEmptySeq DEF DownlinkInv, BeforeRelay
      <4>2. buffer_ \o Data(received) = SubSeq(answer, 1, replied)
        BY <2>1 DEF DownlinkInv, BeforeRelay
      <4>3. (delivered \o buffer_) \o Data(received) = SubSeq(answer, 1, replied)
        BY <4>1, <4>2
      <4>. QED
        BY <2>1, <2>2, <3>2, <4>3 DEF DownlinkIntact
    <3>. QED
      BY <2>2, <3>1, <3>2
  <2>. QED
    BY <2>2, <2>3 DEF DownlinkInv
<1>4. CASE Fails
  BY <1>4 DEF Fails, fixed, DownlinkInv, SessionType, BeforeRelay, BuffersOnlyMessages,
              OnlyVlessWaits, DownlinkIntact
<1>5. CASE UNCHANGED sessionVars
  BY <1>5 DEF sessionVars, DownlinkInv, SessionType, BeforeRelay, BuffersOnlyMessages,
              OnlyVlessWaits, DownlinkIntact
<1>. QED
  BY <1>1, <1>2, <1>3, <1>4, <1>5, ServerSendsKeeps, StreamResponseKeeps, WsResponseKeeps,
     StreamReadKeeps, WsReadKeeps DEF SessionNext, Proxy

LEMMA DownlinkInvariant == SessionSpec => []DownlinkInv
BY InitDownlink, StepDownlink, PTL DEF SessionSpec

(* The client gets the bytes the server sent after its header, once and in *)
(* order: none is lost where the header ends inside a segment or message,  *)
(* and none is repeated.                                                   *)
THEOREM DownlinkKept == SessionSpec => []DownlinkIntact
BY DownlinkInvariant, PTL DEF DownlinkInv

LEMMA MinIs ==
  ASSUME NEW D \in SUBSET Nat, D # {}
  PROVE  Min(D) \in D /\ \A j \in D : Min(D) <= j
BY FirstIs DEF Min

(* The first item of type 0 is the head, or the first of the tail.         *)
LEMMA FirstOfHead ==
  ASSUME NEW T, NEW items \in Seq(T)
  PROVE  /\ FirstOfType0(<<>>) = <<>>
         /\ items # <<>> =>
              FirstOfType0(items) = IF Head(items).type = 0 THEN Head(items).body
                                    ELSE FirstOfType0(Tail(items))
<1> DEFINE found(s) == {i \in DOMAIN s : s[i].type = 0}
<1>1. FirstOfType0(<<>>) = <<>>
  BY EmptySeq DEF FirstOfType0
<1>2. ASSUME items # <<>>
      PROVE  FirstOfType0(items) = IF Head(items).type = 0 THEN Head(items).body
                                   ELSE FirstOfType0(Tail(items))
  <2> DEFINE t == Tail(items)
             n == Len(items)
             D == found(items)
             E == found(t)
  <2>1. /\ t \in Seq(T) /\ n \in Nat \ {0} /\ Head(items) = items[1] /\ Len(t) = n - 1
        /\ \A i \in 1 .. n - 1 : t[i] = items[i + 1]
        /\ DOMAIN items = 1 .. n /\ DOMAIN t = 1 .. n - 1
    BY <1>2, HeadTailProperties, EmptySeq, LenProperties
  <2>2. D \in SUBSET Nat /\ E \in SUBSET Nat
    BY <2>1
  <2>3. /\ \A i \in 1 .. n : i \in D <=> items[i].type = 0
        /\ \A i \in 1 .. n - 1 : i \in E <=> items[i + 1].type = 0
        /\ D \subseteq 1 .. n /\ E \subseteq 1 .. n - 1
    BY <2>1
  <2>4. /\ FirstOfType0(items) = IF D = {} THEN <<>> ELSE items[Min(D)].body
        /\ FirstOfType0(t) = IF E = {} THEN <<>> ELSE t[Min(E)].body
    BY DEF FirstOfType0
  <2> HIDE DEF D, E, t, n
  <2>5. CASE items[1].type = 0
    <3>1. 1 \in D
      BY <2>1, <2>3, <2>5
    <3>2. Min(D) \in D /\ Min(D) <= 1
      BY <2>2, <3>1, MinIs
    <3> DEFINE d == Min(D)
    <3>3. \A i \in D : i \in Nat /\ i >= 1
      BY <2>3
    <3>4. d \in D /\ d <= 1
      BY <3>2
    <3> HIDE DEF d
    <3>5. d = 1
      BY <3>3, <3>4
    <3>. QED
      BY <2>1, <2>4, <2>5, <3>1, <3>5 DEF d
  <2>6. CASE items[1].type # 0
    <3>1. CASE E = {}
      <4>1. D = {}
        <5> SUFFICES ASSUME NEW i \in D PROVE FALSE
          OBVIOUS
        <5>1. i \in 1 .. n /\ items[i].type = 0 /\ i # 1
          BY <2>3, <2>6
        <5>2. i - 1 \in 1 .. n - 1 /\ (i - 1) + 1 = i
          BY <2>1, <5>1
        <5>. QED
          BY <2>3, <3>1, <5>1, <5>2
      <4>. QED
        BY <2>1, <2>4, <2>6, <3>1, <4>1 DEF t
    <3>2. CASE E # {}
      <4> DEFINE e == Min(E)
                 d == Min(D)
      <4>1. e \in E /\ \A j \in E : e <= j
        BY <2>2, <3>2, MinIs
      <4> HIDE DEF e
      <4>0. e \in 1 .. n - 1
        BY <2>3, <4>1
      <4>2. e \in 1 .. n - 1 /\ items[e + 1].type = 0 /\ e + 1 \in 1 .. n
        BY <2>1, <2>3, <4>0, <4>1
      <4>3. e + 1 \in D
        BY <2>3, <4>2
      <4>4. d \in D /\ \A j \in D : d <= j
        BY <2>2, <4>3, MinIs
      <4> HIDE DEF d, e
      <4>5. d \in 1 .. n /\ items[d].type = 0 /\ d # 1 /\ d <= e + 1
        BY <2>3, <2>6, <4>3, <4>4
      <4>6. d - 1 \in 1 .. n - 1 /\ (d - 1) + 1 = d
        BY <2>1, <4>5
      <4>7. d - 1 \in E
        BY <2>3, <4>5, <4>6
      <4>8. d = e + 1
        BY <2>1, <4>1, <4>2, <4>5, <4>6, <4>7
      <4>9. t[e] = items[d]
        BY <2>1, <4>2, <4>8
      <4>10. D # {}
        BY <4>3
      <4>. QED
        BY <2>1, <2>4, <2>6, <3>2, <4>9, <4>10 DEF d, e, t
    <3>. QED
      BY <3>1, <3>2
  <2>. QED
    BY <2>5, <2>6
<1>. QED
  BY <1>1, <1>2

-----------------------------------------------------------------------------
(* The loop over names has a solution. *)
NamesFrom(from, data, p, end) ==
  from = [q \in p .. end |->
            IF q + 3 > end \/ After(data, q + 1, 2) > end THEN <<>>
            ELSE IF data[q + 1] = 0 THEN SubSeq(data, q + 4, After(data, q + 1, 2))
            ELSE from[After(data, q + 1, 2)]]

LEMMA NamesWalk ==
  ASSUME NEW data \in Seq(Nat), NEW p \in Nat, NEW end \in Nat, end <= Len(data)
  PROVE  \E from : NamesFrom(from, data, p, end) /\ FirstName(data, p, end) = from[p]
<1> DEFINE S == p .. end
           to(q) == After(data, q + 1, 2)
           stops(q) == q + 3 > end \/ to(q) > end
           Stop == {q \in S : stops(q) \/ data[q + 1] = 0}
           val == [q \in S |-> IF stops(q) THEN <<>> ELSE SubSeq(data, q + 4, to(q))]
           next == [q \in S \ Stop |-> to(q)]
<1>1. S \in SUBSET Nat /\ Stop \in SUBSET S /\ \A q \in S : q <= end
  OBVIOUS
<1>2. ASSUME NEW q \in S \ Stop PROVE to(q) \in S /\ to(q) > q
  <2>1. q \in Nat /\ q >= p /\ q + 3 <= end /\ ~(to(q) > end)
    BY <1>2
  <2>2. (q + 1) + 2 <= Len(data) /\ q + 1 \in Nat
    BY <2>1, LenProperties
  <2>3. to(q) \in Nat /\ to(q) >= (q + 1) + 2
    BY <2>2, AfterIs
  <2> HIDE DEF to
  <2>. QED
    BY <2>1, <2>3
<1>3. next \in [S \ Stop -> S] /\ \A q \in S \ Stop : next[q] > q
  <2> HIDE DEF to, S, Stop
  <2>. QED
    BY <1>2
<1> HIDE DEF S, Stop, next, val
<1>4. PICK f : Walks(f, S, Stop, val, next)
  BY <1>1, <1>3, Walk
<1> DEFINE Def(h, q) == IF stops(q) THEN <<>>
                        ELSE IF data[q + 1] = 0 THEN SubSeq(data, q + 4, to(q)) ELSE h[to(q)]
<1>5. \A q \in S : (IF q \in Stop THEN val[q] ELSE f[next[q]]) = Def(f, q)
  BY DEF Stop, val, next
<1>6. f = [q \in S |-> Def(f, q)]
  BY <1>4, <1>5 DEF Walks
<1>7. NamesFrom(f, data, p, end)
  BY <1>6 DEF NamesFrom, S
<1>8. \E from : NamesFrom(from, data, p, end)
  BY <1>7
<1>9. FirstName(data, p, end) = (CHOOSE from : NamesFrom(from, data, p, end))[p]
  BY DEF FirstName, NamesFrom
<1>. QED
  BY <1>8, <1>9

(* A list of names, taken apart.                                           *)
(* A field with a type of one byte, or of two, in front of it.             *)
Entry(type, body) == <<type>> \o Field(body)

LEMMA EntryRead ==
  ASSUME NEW type \in Nat, NEW body \in Seq(Nat),
         NEW data \in Seq(Nat), NEW q \in Nat, q + 3 <= Len(data),
         Lies(Entry(type, body), data, q)
  PROVE  /\ data[q + 1] = type
         /\ After(data, q + 1, 2) = q + 3 + Len(body)
         /\ Lies(body, data, q + 3)
<1> DEFINE t == <<type>>
           w == Field(body)
<1>2. t \in Seq(Nat) /\ Len(t) = 1 /\ t[1] = type
  OBVIOUS
<1>3. w \in Seq(Nat)
  BY FieldTaken
<1>4. Lies(t \o w, data, q)
  BY DEF Entry
<1>5. Len(data) \in Nat
  BY LenProperties
<1>6. Lies(w, data, q + 1) <=> Lies(Field(body), data, q + 1)
  OBVIOUS
<1> HIDE DEF t, w
<1>7. Lies(t, data, q) /\ Lies(w, data, q + 1)
  BY <1>2, <1>3, <1>4, LiesParts
<1>8. data[q + 1] = type
  <2>1. 1 \in 1 .. Len(t) /\ q + 1 <= Len(data)
    BY <1>2, <1>5
  <2>. QED
    BY <1>2, <1>7, <2>1 DEF Lies
<1>9. q + 1 \in Nat /\ (q + 1) + 2 <= Len(data) /\ (q + 1) + 2 = q + 3
  BY <1>5
<1>10. Lies(body, data, q + 3) /\ After(data, q + 1, 2) = q + 3 + Len(body)
  BY <1>6, <1>7, <1>9, FieldTaken
<1>. QED
  BY <1>8, <1>10

LEMMA HostIs ==
  ASSUME NEW n \in Hosts
  PROVE  HostBytes(n) \in Seq(Nat) /\ Len(HostBytes(n)) = 3 + Len(n.body)
<1>1. n.type \in Nat /\ n.body \in Seq(Nat)
  BY DEF Hosts
<1> DEFINE type == n.type
           body == n.body
<1>2. HostBytes(n) = <<type>> \o Field(body)
  BY DEF HostBytes
<1> HIDE DEF type, body
<1>3. type \in Nat /\ body \in Seq(Nat)
  BY <1>1 DEF type, body
<1>4. Field(body) \in Seq(Nat) /\ Len(Field(body)) = 2 + Len(body) /\ Len(body) \in Nat
  BY <1>3, FieldTaken, LenProperties
<1>5. <<type>> \in Seq(Nat) /\ Len(<<type>>) = 1
  BY <1>3
<1> DEFINE t == <<type>>
<1> HIDE DEF t
<1>6. t \o Field(body) \in Seq(Nat) /\ Len(t \o Field(body)) = Len(t) + Len(Field(body))
  BY <1>4, <1>5, Joined DEF t
<1>. QED
  BY <1>2, <1>4, <1>5, <1>6 DEF body, t

LEMMA HostListIs ==
  ASSUME NEW ns \in Seq(Hosts)
  PROVE  /\ HostList(ns) \in Seq(Nat) /\ Len(HostList(ns)) \in Nat /\ HostList(<<>>) = <<>>
         /\ ns # <<>> => HostList(ns) = HostBytes(Head(ns)) \o HostList(Tail(ns))
<1> DEFINE f == [h \in Hosts |-> HostBytes(h)]
<1>1. f \in [Hosts -> Seq(Nat)] /\ \A h \in Hosts : f[h] = HostBytes(h)
  BY HostIs
<1>2. ASSUME NEW t \in Seq(Hosts) PROVE Mapped(f, t) = HostList(t)
  <2>1. \A i \in DOMAIN t : t[i] \in Hosts
    BY ElementOfSeq, LenProperties
  <2>2. [i \in DOMAIN t |-> f[t[i]]] = [i \in DOMAIN t |-> HostBytes(t[i])]
    BY <1>1, <2>1
  <2>. QED
    BY <2>2 DEF HostList, Mapped
<1>3. <<>> \in Seq(Hosts)
  BY EmptySeq
<1> HIDE DEF f
<1>4. Mapped(f, ns) \in Seq(Nat) /\ Mapped(f, <<>>) = <<>>
      /\ (ns # <<>> => Mapped(f, ns) = f[Head(ns)] \o Mapped(f, Tail(ns)))
  <2>1. f \in [Hosts -> Seq(Nat)]
    BY <1>1
  <2>2. MapsOn(f, ns, Nat)
    BY <2>1, MapHead
  <2>. QED
    BY <2>2 DEF MapsOn
<1>5. ns # <<>> => Head(ns) \in Hosts /\ Tail(ns) \in Seq(Hosts)
  BY HeadTailProperties
<1>6. HostList(ns) \in Seq(Nat) /\ HostList(<<>>) = <<>>
      /\ (ns # <<>> => HostList(ns) = HostBytes(Head(ns)) \o HostList(Tail(ns)))
  BY <1>1, <1>2, <1>3, <1>4, <1>5
<1>. QED
  BY <1>6, LenProperties

LEMMA NamesRead ==
  ASSUME NEW data \in Seq(Nat), NEW p \in Nat, NEW end \in Nat, end <= Len(data),
         NEW names \in Seq(Hosts), Lies(HostList(names), data, p),
         p + Len(HostList(names)) = end
  PROVE  FirstName(data, p, end) = FirstOfType0(names)
<1>1. PICK from : NamesFrom(from, data, p, end) /\ FirstName(data, p, end) = from[p]
  BY NamesWalk
<1>2. ASSUME NEW q \in p .. end
      PROVE  from[q] = IF q + 3 > end \/ After(data, q + 1, 2) > end THEN <<>>
                       ELSE IF data[q + 1] = 0 THEN SubSeq(data, q + 4, After(data, q + 1, 2))
                       ELSE from[After(data, q + 1, 2)]
  BY <1>1 DEF NamesFrom
<1> DEFINE At(ns, q) == /\ q >= p /\ q + Len(HostList(ns)) = end
                        /\ Lies(HostList(ns), data, q)
           P(k) == \A ns \in Seq(Hosts), q \in Nat :
                     Len(ns) = k /\ At(ns, q) => from[q] = FirstOfType0(ns)
           G == {k \in Nat : P(k)}
<1>3. P(0)
  <2> SUFFICES ASSUME NEW ns \in Seq(Hosts), NEW q \in Nat, Len(ns) = 0, At(ns, q)
               PROVE  from[q] = FirstOfType0(ns)
    OBVIOUS
  <2>1. ns = <<>>
    BY EmptySeq
  <2>2. Len(HostList(ns)) = 0
    BY <2>1, HostListIs, EmptySeq
  <2>3. q = end
    BY <2>2
  <2>4. q \in p .. end /\ q + 3 > end
    BY <2>3
  <2>. QED
    BY <1>2, <2>1, <2>4, FirstOfHead
<1>4. ASSUME NEW k \in Nat, P(k) PROVE P(k + 1)
  <2> SUFFICES ASSUME NEW ns \in Seq(Hosts), NEW q \in Nat, Len(ns) = k + 1, At(ns, q)
               PROVE  from[q] = FirstOfType0(ns)
    OBVIOUS
  <2> DEFINE h == Head(ns)
             rest == Tail(ns)
             b == Len(h.body)
             r == Len(HostList(rest))
             q2 == q + 3 + b
             type == h.type
             body == h.body
  <2>0. q >= p /\ q + Len(HostList(ns)) = end /\ Lies(HostList(ns), data, q)
    OBVIOUS
  <2> HIDE DEF P, At
  <2>1. ns # <<>>
    BY EmptySeq
  <2>2. h \in Hosts /\ rest \in Seq(Hosts) /\ Len(rest) = k
    BY <2>1, HeadTailProperties
  <2>3. body \in Seq(Nat) /\ b \in Nat /\ type \in Nat
    BY <2>2, LenProperties DEF Hosts
  <2>4. HostList(ns) = HostBytes(h) \o HostList(rest)
    BY <2>1, HostListIs
  <2>5. /\ HostBytes(h) \in Seq(Nat) /\ Len(HostBytes(h)) = 3 + b
        /\ HostList(rest) \in Seq(Nat) /\ r \in Nat
    BY <2>2, HostIs, HostListIs
  <2>6. Len(HostList(ns)) = 3 + b + r
    <3> DEFINE x == HostBytes(h)
               y == HostList(rest)
    <3>1. x \in Seq(Nat) /\ y \in Seq(Nat) /\ HostList(ns) = x \o y
      BY <2>4, <2>5
    <3> HIDE DEF x, y
    <3>2. Len(HostList(ns)) = Len(x) + Len(y)
      BY <3>1, Joined
    <3>. QED
      BY <2>5, <3>2 DEF x, y
  <2>7. q >= p /\ q + (3 + b + r) = end
    BY <2>0, <2>6
  <2>8. Lies(HostBytes(h), data, q) /\ Lies(HostList(rest), data, q + (3 + b))
    BY <2>0, <2>4, <2>5, LiesParts
  <2> HIDE DEF h, rest, b, r, type, body
  <2>9. /\ q2 \in Nat /\ q2 = q + (3 + b) /\ q2 > q /\ q2 >= p /\ q2 + r = end /\ q2 <= end
        /\ q + 3 <= end /\ q \in p .. end
    BY <2>3, <2>5, <2>7
  <2>10. q + 3 <= Len(data)
    BY <2>9, LenProperties
  <2>11. data[q + 1] = type /\ After(data, q + 1, 2) = q2 /\ Lies(body, data, q + 3)
    <3>1. Lies(Entry(type, body), data, q)
      BY <2>8 DEF HostBytes, Entry, type, body
    <3>2. /\ data[q + 1] = type /\ After(data, q + 1, 2) = q + 3 + Len(body)
          /\ Lies(body, data, q + 3)
      BY <2>3, <2>10, <3>1, EntryRead
    <3>. QED
      BY <3>2 DEF b, body
  <2>12. At(rest, q2)
    BY <2>8, <2>9 DEF r, At
  <2>13. from[q2] = FirstOfType0(rest)
    <3> HIDE DEF q2
    <3>. QED
      BY <1>4, <2>2, <2>9, <2>12 DEF P
  <2>14. FirstOfType0(ns) = IF type = 0 THEN body ELSE FirstOfType0(rest)
    BY <2>1, FirstOfHead DEF h, rest, type, body
  <2> HIDE DEF q2
  <2>15. from[q] = IF data[q + 1] = 0 THEN SubSeq(data, q + 4, q2) ELSE from[q2]
    <3>1. ~(q + 3 > end) /\ ~(q2 > end) /\ q \in p .. end
      BY <2>9
    <3>. QED
      BY <1>2, <2>11, <3>1
  <2>16. SubSeq(data, q + 4, q2) = body
    <3>1. Len(body) = b /\ q + 3 \in Nat
      BY <2>3 DEF b, body
    <3>2. Len(data) \in Nat /\ q2 = (q + 3) + b
      BY <2>3, LenProperties DEF q2
    <3>3. (q + 3) + Len(body) <= Len(data) /\ (q + 3) + 1 = q + 4 /\ q2 = (q + 3) + Len(body)
      BY <2>3, <2>9, <3>1, <3>2
    <3> DEFINE x == q + 3
    <3> HIDE DEF x
    <3>4. x \in Nat /\ Lies(body, data, x) /\ x + Len(body) <= Len(data)
      BY <2>11, <3>1, <3>3 DEF x
    <3>5. SubSeq(data, x + 1, x + Len(body)) = body
      BY <2>3, <3>4, LiesWhole
    <3>. QED
      BY <3>3, <3>5 DEF x
  <2> HIDE DEF q2
  <2>17. data[q + 1] = type
    BY <2>11
  <2>18. from[q] = IF type = 0 THEN body ELSE from[q2]
    BY <2>15, <2>16, <2>17
  <2>. QED
    BY <2>13, <2>14, <2>18
<1>5. Nat \subseteq G
  <2> HIDE DEF P
  <2>1. 0 \in G /\ \A k \in Nat : k \in G => k + 1 \in G
    BY <1>3, <1>4
  <2>. QED
    BY <2>1, SetInduction
<1>6. P(Len(names)) /\ At(names, p)
  BY <1>5, LenProperties, HostListIs
<1>. QED
  BY <1>1, <1>6

(* The list, with its length, in the extension.                            *)
LEMMA ServerNameRead ==
  ASSUME NEW data \in Seq(Nat), NEW p \in Nat, NEW end \in Nat, end <= Len(data),
         NEW names \in Seq(Hosts), Lies(Field(HostList(names)), data, p),
         p + Len(Field(HostList(names))) = end
  PROVE  ServerName(data, p, end) = FirstOfType0(names)
<1> DEFINE list == HostList(names)
           n == Len(list)
<1>1. list \in Seq(Nat) /\ n \in Nat
  BY HostListIs
<1>2. Lies(Field(list), data, p) /\ p + Len(Field(list)) = end
  OBVIOUS
<1> HIDE DEF list
<1>3. Len(Field(list)) = 2 + n
  BY <1>1, FieldTaken
<1> HIDE DEF n
<1>4. (p + 2) + n = end /\ p + 2 \in Nat /\ p + 2 <= end /\ p + 2 <= Len(data)
  BY <1>1, <1>2, <1>3, LenProperties
<1>5. Lies(list, data, p + 2) /\ After(data, p, 2) = p + 2 + Len(list)
  BY <1>1, <1>2, <1>4, FieldTaken
<1>6. After(data, p, 2) = end
  BY <1>4, <1>5 DEF n
<1>7. ServerName(data, p, end) = FirstName(data, p + 2, end)
  BY <1>4, <1>6 DEF ServerName
<1> DEFINE x == p + 2
<1>8. x \in Nat /\ Lies(list, data, x) /\ x + Len(list) = end
  BY <1>4, <1>5 DEF n
<1> HIDE DEF x
<1>9. FirstName(data, x, end) = FirstOfType0(names)
  BY <1>8, NamesRead DEF list
<1>. QED
  BY <1>7, <1>9 DEF x

-----------------------------------------------------------------------------
(* The loop over extensions has a solution. *)
ExtensionsFrom(from, data, p, end) ==
  from = [q \in p .. end |->
            IF q + 4 > end \/ After(data, q + 2, 2) > end THEN <<>>
            ELSE IF Number(data, q, 2) = 0 THEN ServerName(data, q + 4, After(data, q + 2, 2))
            ELSE from[After(data, q + 2, 2)]]

LEMMA ExtensionsWalk ==
  ASSUME NEW data \in Seq(Nat), NEW p \in Nat, NEW end \in Nat, end <= Len(data)
  PROVE  \E from : ExtensionsFrom(from, data, p, end) /\ Extensions(data, p, end) = from[p]
<1> DEFINE S == p .. end
           to(q) == After(data, q + 2, 2)
           stops(q) == q + 4 > end \/ to(q) > end
           Stop == {q \in S : stops(q) \/ Number(data, q, 2) = 0}
           val == [q \in S |-> IF stops(q) THEN <<>> ELSE ServerName(data, q + 4, to(q))]
           next == [q \in S \ Stop |-> to(q)]
<1>1. S \in SUBSET Nat /\ Stop \in SUBSET S /\ \A q \in S : q <= end
  OBVIOUS
<1>2. ASSUME NEW q \in S \ Stop PROVE to(q) \in S /\ to(q) > q
  <2>1. q \in Nat /\ q >= p /\ q + 4 <= end /\ ~(to(q) > end)
    BY <1>2
  <2>2. (q + 2) + 2 <= Len(data) /\ q + 2 \in Nat
    BY <2>1, LenProperties
  <2>3. to(q) \in Nat /\ to(q) >= (q + 2) + 2
    BY <2>2, AfterIs
  <2> HIDE DEF to
  <2>. QED
    BY <2>1, <2>3
<1>3. next \in [S \ Stop -> S] /\ \A q \in S \ Stop : next[q] > q
  <2> HIDE DEF to, S, Stop
  <2>. QED
    BY <1>2
<1> HIDE DEF S, Stop, next, val
<1>4. PICK f : Walks(f, S, Stop, val, next)
  BY <1>1, <1>3, Walk
<1> DEFINE Def(h, q) == IF stops(q) THEN <<>>
                        ELSE IF Number(data, q, 2) = 0 THEN ServerName(data, q + 4, to(q)) ELSE h[to(q)]
<1>5. \A q \in S : (IF q \in Stop THEN val[q] ELSE f[next[q]]) = Def(f, q)
  BY DEF Stop, val, next
<1>6. f = [q \in S |-> Def(f, q)]
  BY <1>4, <1>5 DEF Walks
<1>7. ExtensionsFrom(f, data, p, end)
  BY <1>6 DEF ExtensionsFrom, S
<1>8. \E from : ExtensionsFrom(from, data, p, end)
  BY <1>7
<1>9. Extensions(data, p, end) = (CHOOSE from : ExtensionsFrom(from, data, p, end))[p]
  BY DEF Extensions, ExtensionsFrom
<1>. QED
  BY <1>8, <1>9

(* ... and an extension, and a list of them.                               *)
WideEntry(type, body) == write_u16(type) \o Field(body)

LEMMA WideEntryRead ==
  ASSUME NEW type \in Nat, NEW body \in Seq(Nat)
  PROVE  /\ WideEntry(type, body) \in Seq(Nat) /\ Len(WideEntry(type, body)) = 4 + Len(body)
         /\ \A data \in Seq(Nat), q \in Nat :
              Lies(WideEntry(type, body), data, q) /\ q + 4 <= Len(data) =>
                /\ Number(data, q, 2) = type
                /\ After(data, q + 2, 2) = q + 4 + Len(body)
                /\ Lies(body, data, q + 4)
<1> DEFINE t == write_u16(type)
           w == Field(body)
<1>1. t \in Seq(Nat) /\ Len(t) = 2 /\ t[1] = type \div 256 /\ t[2] = type % 256
  BY DEF write_u16
<1>2. (type \div 256) * 256 + (type % 256) = type
  OBVIOUS
<1>3. w \in Seq(Nat) /\ Len(w) = 2 + Len(body) /\ Len(body) \in Nat
  BY FieldTaken, LenProperties
<1>4. WideEntry(type, body) = t \o w
  BY DEF WideEntry
<1> HIDE DEF t, w
<1>5. WideEntry(type, body) \in Seq(Nat) /\ Len(WideEntry(type, body)) = 4 + Len(body)
  <2>1. t \o w \in Seq(Nat) /\ Len(t \o w) = Len(t) + Len(w)
    <3>1. t \in Seq(Nat) /\ w \in Seq(Nat)
      BY <1>1, <1>3
    <3>. QED
      BY <3>1, Joined
  <2>2. Len(t) + Len(w) = 4 + Len(body)
    BY <1>1, <1>3
  <2>. QED
    BY <1>4, <2>1, <2>2, Zenon
<1>6. ASSUME NEW data \in Seq(Nat), NEW q \in Nat,
             Lies(WideEntry(type, body), data, q), q + 4 <= Len(data)
      PROVE  /\ Number(data, q, 2) = type
             /\ After(data, q + 2, 2) = q + 4 + Len(body)
             /\ Lies(body, data, q + 4)
  <2>0. Lies(t \o w, data, q)
    BY <1>4, <1>6
  <2>1. Lies(t, data, q) /\ Lies(w, data, q + 2)
    BY <1>1, <1>3, <2>0, LiesParts
  <2>2. Len(data) \in Nat /\ q + 2 <= Len(data) /\ q + 1 <= Len(data)
    BY <1>6, LenProperties
  <2>3. data[q + 1] = type \div 256 /\ data[q + 2] = type % 256
    <3>1. 1 \in 1 .. Len(t) /\ 2 \in 1 .. Len(t)
      BY <1>1
    <3>2. data[q + 1] = t[1] /\ data[q + 2] = t[2]
      BY <2>1, <2>2, <3>1 DEF Lies
    <3>. QED
      BY <1>1, <3>2
  <2>4. Number(data, q, 2) = data[q + 1] * 256 + data[q + 2]
    BY <2>2, NumberIs
  <2>5. Number(data, q, 2) = type
    BY <1>2, <2>3, <2>4
  <2>6. q + 2 \in Nat /\ (q + 2) + 2 <= Len(data) /\ (q + 2) + 2 = q + 4
    BY <1>6
  <2>7. Lies(body, data, q + 4) /\ After(data, q + 2, 2) = q + 4 + Len(body)
    BY <2>1, <2>6, FieldTaken DEF w
  <2>. QED
    BY <2>5, <2>7
<1>. QED
  BY <1>5, <1>6

LEMMA PayloadIs ==
  ASSUME NEW e \in Extension
  PROVE  /\ e.type \in Nat /\ e.body \in Seq(Hosts)
         /\ Payload(e) \in Seq(Nat) /\ Len(Payload(e)) \in Nat
         /\ ExtensionBytes(e) \in Seq(Nat) /\ Len(ExtensionBytes(e)) = 4 + Len(Payload(e))
<1>1. e.type \in Nat /\ e.body \in Seq(Hosts) /\ e.data \in Seq(Nat)
  BY DEF Extension
<1>2. HostList(e.body) \in Seq(Nat)
  BY <1>1, HostListIs
<1>3. Field(HostList(e.body)) \in Seq(Nat)
  BY <1>2, FieldTaken
<1>4. Payload(e) \in Seq(Nat)
  BY <1>1, <1>3 DEF Payload
<1>5. Len(Payload(e)) \in Nat
  BY <1>4, LenProperties
<1>6. ExtensionBytes(e) = WideEntry(e.type, Payload(e))
  BY DEF ExtensionBytes, WideEntry
<1>. QED
  <2> DEFINE x == ExtensionBytes(e)
             body == Payload(e)
             n == e.type
  <2>1. body \in Seq(Nat) /\ n \in Nat /\ x = WideEntry(n, body)
    BY <1>1, <1>4, <1>6
  <2> HIDE DEF x, body, n
  <2>2. x \in Seq(Nat) /\ Len(x) = 4 + Len(body)
    BY <2>1, WideEntryRead
  <2>. QED
    BY <1>1, <1>4, <1>5, <2>2 DEF x, body, n

LEMMA ExtensionListIs ==
  ASSUME NEW es \in Seq(Extension)
  PROVE  /\ ExtensionList(es) \in Seq(Nat) /\ Len(ExtensionList(es)) \in Nat
         /\ ExtensionList(<<>>) = <<>>
         /\ es # <<>> => ExtensionList(es) = ExtensionBytes(Head(es)) \o ExtensionList(Tail(es))
<1> DEFINE f == [e \in Extension |-> ExtensionBytes(e)]
<1>1. f \in [Extension -> Seq(Nat)] /\ \A e \in Extension : f[e] = ExtensionBytes(e)
  BY PayloadIs
<1>2. ASSUME NEW t \in Seq(Extension) PROVE Mapped(f, t) = ExtensionList(t)
  <2>1. \A i \in DOMAIN t : t[i] \in Extension
    BY ElementOfSeq, LenProperties
  <2>2. [i \in DOMAIN t |-> f[t[i]]] = [i \in DOMAIN t |-> ExtensionBytes(t[i])]
    BY <1>1, <2>1
  <2>. QED
    BY <2>2 DEF ExtensionList, Mapped
<1>3. <<>> \in Seq(Extension)
  BY EmptySeq
<1> HIDE DEF f
<1>4. Mapped(f, es) \in Seq(Nat) /\ Mapped(f, <<>>) = <<>>
      /\ (es # <<>> => Mapped(f, es) = f[Head(es)] \o Mapped(f, Tail(es)))
  <2>1. f \in [Extension -> Seq(Nat)]
    BY <1>1
  <2>2. MapsOn(f, es, Nat)
    BY <2>1, MapHead
  <2>. QED
    BY <2>2 DEF MapsOn
<1>5. es # <<>> => Head(es) \in Extension /\ Tail(es) \in Seq(Extension)
  BY HeadTailProperties
<1>6. ExtensionList(es) \in Seq(Nat) /\ ExtensionList(<<>>) = <<>>
      /\ (es # <<>> => ExtensionList(es) = ExtensionBytes(Head(es)) \o ExtensionList(Tail(es)))
  BY <1>1, <1>2, <1>3, <1>4, <1>5
<1>. QED
  BY <1>6, LenProperties

LEMMA ExtensionsRead ==
  ASSUME NEW data \in Seq(Nat), NEW p \in Nat, NEW end \in Nat, end <= Len(data),
         NEW extensions \in Seq(Extension), Lies(ExtensionList(extensions), data, p),
         p + Len(ExtensionList(extensions)) = end
  PROVE  Extensions(data, p, end) = FirstOfType0(FirstOfType0(extensions))
<1>1. PICK from : ExtensionsFrom(from, data, p, end) /\ Extensions(data, p, end) = from[p]
  BY ExtensionsWalk
<1>2. ASSUME NEW q \in p .. end
      PROVE  from[q] = IF q + 4 > end \/ After(data, q + 2, 2) > end THEN <<>>
                       ELSE IF Number(data, q, 2) = 0
                            THEN ServerName(data, q + 4, After(data, q + 2, 2))
                       ELSE from[After(data, q + 2, 2)]
  BY <1>1 DEF ExtensionsFrom
<1> DEFINE At(es, q) == /\ q >= p /\ q + Len(ExtensionList(es)) = end
                        /\ Lies(ExtensionList(es), data, q)
           P(k) == \A es \in Seq(Extension), q \in Nat :
                     Len(es) = k /\ At(es, q) => from[q] = FirstOfType0(FirstOfType0(es))
           G == {k \in Nat : P(k)}
<1>3. P(0)
  <2> SUFFICES ASSUME NEW es \in Seq(Extension), NEW q \in Nat, Len(es) = 0, At(es, q)
               PROVE  from[q] = FirstOfType0(FirstOfType0(es))
    OBVIOUS
  <2>1. es = <<>>
    BY EmptySeq
  <2>2. Len(ExtensionList(es)) = 0
    BY <2>1, ExtensionListIs, EmptySeq
  <2>3. q = end
    BY <2>2
  <2>4. q \in p .. end /\ q + 4 > end
    BY <2>3
  <2>5. <<>> \in Seq(Extension) /\ FirstOfType0(<<>>) = <<>>
    BY FirstOfHead, EmptySeq
  <2>. QED
    BY <1>2, <2>1, <2>4, <2>5
<1>4. ASSUME NEW k \in Nat, P(k) PROVE P(k + 1)
  <2> SUFFICES ASSUME NEW es \in Seq(Extension), NEW q \in Nat, Len(es) = k + 1, At(es, q)
               PROVE  from[q] = FirstOfType0(FirstOfType0(es))
    OBVIOUS
  <2> DEFINE e == Head(es)
             rest == Tail(es)
             type == e.type
             body == Payload(e)
             b == Len(body)
             r == Len(ExtensionList(rest))
             q2 == q + 4 + b
  <2>0. q >= p /\ q + Len(ExtensionList(es)) = end /\ Lies(ExtensionList(es), data, q)
    OBVIOUS
  <2> HIDE DEF P, At
  <2>1. es # <<>>
    BY EmptySeq
  <2>2. e \in Extension /\ rest \in Seq(Extension) /\ Len(rest) = k
    BY <2>1, HeadTailProperties
  <2>3. body \in Seq(Nat) /\ b \in Nat /\ type \in Nat /\ e.body \in Seq(Hosts)
    BY <2>2, PayloadIs
  <2>4. ExtensionList(es) = ExtensionBytes(e) \o ExtensionList(rest)
    BY <2>1, ExtensionListIs
  <2>5. /\ ExtensionBytes(e) \in Seq(Nat) /\ Len(ExtensionBytes(e)) = 4 + b
        /\ ExtensionList(rest) \in Seq(Nat) /\ r \in Nat
    BY <2>2, PayloadIs, ExtensionListIs
  <2>6. Len(ExtensionList(es)) = 4 + b + r
    <3> DEFINE x == ExtensionBytes(e)
               y == ExtensionList(rest)
    <3>1. x \in Seq(Nat) /\ y \in Seq(Nat) /\ ExtensionList(es) = x \o y
      BY <2>4, <2>5
    <3> HIDE DEF x, y
    <3>2. Len(ExtensionList(es)) = Len(x) + Len(y)
      BY <3>1, Joined
    <3>. QED
      BY <2>5, <3>2 DEF x, y
  <2>7. q >= p /\ q + (4 + b + r) = end
    BY <2>0, <2>6
  <2>8. Lies(ExtensionBytes(e), data, q) /\ Lies(ExtensionList(rest), data, q + (4 + b))
    <3> DEFINE x == ExtensionBytes(e)
               y == ExtensionList(rest)
    <3>1. x \in Seq(Nat) /\ y \in Seq(Nat) /\ Lies(x \o y, data, q)
      BY <2>0, <2>4, <2>5
    <3>2. Len(x) = 4 + b
      BY <2>5
    <3> HIDE DEF x, y, b
    <3>3. Lies(x, data, q) /\ Lies(y, data, q + Len(x))
      BY <3>1, LiesParts
    <3>. QED
      BY <3>2, <3>3 DEF x, y
  <2> HIDE DEF e, rest, b, r, type, body
  <2>9. /\ q2 \in Nat /\ q2 = q + (4 + b) /\ q2 > q /\ q2 >= p /\ q2 + r = end /\ q2 <= end
        /\ q + 4 <= end /\ q \in p .. end
    BY <2>3, <2>5, <2>7
  <2>10. q + 4 <= Len(data) /\ q2 <= Len(data)
    BY <2>9, LenProperties
  <2>11. Number(data, q, 2) = type /\ After(data, q + 2, 2) = q2 /\ Lies(body, data, q + 4)
    <3>1. Lies(WideEntry(type, body), data, q)
      BY <2>8 DEF ExtensionBytes, WideEntry, type, body
    <3>2. /\ Number(data, q, 2) = type /\ After(data, q + 2, 2) = q + 4 + Len(body)
          /\ Lies(body, data, q + 4)
      BY <2>3, <2>10, <3>1, WideEntryRead
    <3>. QED
      BY <3>2 DEF b
  <2>12. At(rest, q2)
    BY <2>8, <2>9 DEF r, At
  <2> HIDE DEF q2
  <2>13. from[q2] = FirstOfType0(FirstOfType0(rest))
    BY <1>4, <2>2, <2>9, <2>12 DEF P
  <2>14. FirstOfType0(es) = IF type = 0 THEN e.body ELSE FirstOfType0(rest)
    BY <2>1, FirstOfHead DEF e, rest, type
  <2>15. from[q] = IF type = 0 THEN ServerName(data, q + 4, q2) ELSE from[q2]
    <3>1. ~(q + 4 > end) /\ ~(q2 > end) /\ q \in p .. end
      BY <2>9
    <3>. QED
      BY <1>2, <2>11, <3>1
  <2>16. ASSUME type = 0 PROVE ServerName(data, q + 4, q2) = FirstOfType0(e.body)
    <3> DEFINE x == q + 4
               names == e.body
    <3>1. x \in Nat /\ x + Len(body) = q2 /\ Lies(body, data, x) /\ names \in Seq(Hosts)
      BY <2>3, <2>11 DEF b, q2
    <3>2. body = Field(HostList(names))
      BY <2>16 DEF Payload, type, body
    <3> HIDE DEF x, names
    <3>3. Lies(Field(HostList(names)), data, x) /\ x + Len(Field(HostList(names))) = q2
      BY <3>1, <3>2
    <3>4. ServerName(data, x, q2) = FirstOfType0(names)
      BY <2>9, <2>10, <3>1, <3>3, ServerNameRead
    <3>. QED
      BY <3>4 DEF x, names
  <2>. QED
    BY <2>13, <2>14, <2>15, <2>16
<1>5. Nat \subseteq G
  <2> HIDE DEF P
  <2>1. 0 \in G /\ \A k \in Nat : k \in G => k + 1 \in G
    BY <1>3, <1>4
  <2>. QED
    BY <2>1, SetInduction
<1>6. P(Len(extensions)) /\ At(extensions, p)
  BY <1>5, LenProperties, ExtensionListIs
<1>. QED
  BY <1>1, <1>6

-----------------------------------------------------------------------------
(* A hello's body, behind its record's and its message's head.             *)
Body(h) ==
  h.random \o ShortField(h.sessionId) \o Field(h.ciphers) \o ShortField(h.compression)
    \o Field(ExtensionList(h.extensions))

(* A field of which the length came is read past.                          *)
LEMMA FieldPassed ==
  ASSUME NEW body \in Seq(Nat), NEW data \in Seq(Nat), NEW p \in Nat,
         Lies(Field(body), data, p), p + 2 <= Len(data)
  PROVE  After(data, p, 2) = p + 2 + Len(body) /\ Lies(body, data, p + 2)
BY FieldTaken

LEMMA ShortFieldPassed ==
  ASSUME NEW body \in Seq(Nat), NEW data \in Seq(Nat), NEW p \in Nat,
         Lies(ShortField(body), data, p), p + 1 <= Len(data)
  PROVE  After(data, p, 1) = p + 1 + Len(body) /\ Lies(body, data, p + 1)
BY ShortFieldTaken

LEMMA BodyRead ==
  ASSUME NEW h, IsHelloOf(h)
  PROVE  /\ Body(h) \in Seq(Nat) /\ Len(Body(h)) \in Nat /\ Len(Body(h)) >= 34
         /\ \A data \in Seq(Nat) :
              Lies(Body(h), data, 9) /\ 9 + Len(Body(h)) <= Len(data) =>
                LET ciphers == After(data, 43, 1)
                    compression == After(data, ciphers, 2)
                    extensions == After(data, compression, 1)
                    end == After(data, extensions, 2)
                IN  /\ end = 9 + Len(Body(h)) /\ extensions \in Nat
                    /\ Lies(ExtensionList(h.extensions), data, extensions + 2)
                    /\ (extensions + 2) + Len(ExtensionList(h.extensions)) = end
<1> DEFINE a == h.random
           s == h.sessionId
           c == h.ciphers
           m == h.compression
           x == ExtensionList(h.extensions)
<1>1. /\ a \in Seq(Nat) /\ Len(a) = 34 /\ s \in Seq(Nat) /\ c \in Seq(Nat) /\ m \in Seq(Nat)
      /\ h.extensions \in Seq(Extension)
  BY DEF IsHelloOf
<1>2. x \in Seq(Nat)
  BY <1>1, ExtensionListIs
<1>3. Body(h) = a \o ShortField(s) \o Field(c) \o ShortField(m) \o Field(x)
  BY DEF Body
<1> HIDE DEF a, s, c, m, x
<1> DEFINE fs == ShortField(s)
           fc == Field(c)
           fm == ShortField(m)
           fx == Field(x)
           ls == Len(s)
           lc == Len(c)
           lm == Len(m)
           lx == Len(x)
           n == Len(Body(h))
<1>4. ls \in Nat /\ lc \in Nat /\ lm \in Nat /\ lx \in Nat
  BY <1>1, <1>2, LenProperties
<1>5. /\ fs \in Seq(Nat) /\ Len(fs) = 1 + ls /\ fc \in Seq(Nat) /\ Len(fc) = 2 + lc
      /\ fm \in Seq(Nat) /\ Len(fm) = 1 + lm /\ fx \in Seq(Nat) /\ Len(fx) = 2 + lx
  BY <1>1, <1>2, FieldTaken, ShortFieldTaken
<1> HIDE DEF fs, fc, fm, fx, ls, lc, lm, lx
<1>6. Body(h) = InARow(a, fs, fc, fm, fx)
  BY <1>3 DEF fs, fc, fm, fx, InARow
<1>7. /\ Body(h) \in Seq(Nat) /\ n = Len(a) + Len(fs) + Len(fc) + Len(fm) + Len(fx)
      /\ \A data \in Seq(Nat), p \in Nat :
           Lies(Body(h), data, p) =>
             /\ Lies(fs, data, p + Len(a))
             /\ Lies(fc, data, p + Len(a) + Len(fs))
             /\ Lies(fm, data, p + Len(a) + Len(fs) + Len(fc))
             /\ Lies(fx, data, p + Len(a) + Len(fs) + Len(fc) + Len(fm))
  <2> DEFINE all == InARow(a, fs, fc, fm, fx)
  <2>1. a \in Seq(Nat) /\ fs \in Seq(Nat) /\ fc \in Seq(Nat) /\ fm \in Seq(Nat) /\ fx \in Seq(Nat)
    BY <1>1, <1>5
  <2>2. /\ all \in Seq(Nat) /\ Len(all) = Len(a) + Len(fs) + Len(fc) + Len(fm) + Len(fx)
        /\ \A data \in Seq(Nat), p \in Nat :
             Lies(all, data, p) =>
               /\ Lies(fs, data, p + Len(a))
               /\ Lies(fc, data, p + Len(a) + Len(fs))
               /\ Lies(fm, data, p + Len(a) + Len(fs) + Len(fc))
               /\ Lies(fx, data, p + Len(a) + Len(fs) + Len(fc) + Len(fm))
    <3>1. FollowEachOther(a, fs, fc, fm, fx)
      BY <2>1, FiveJoined
    <3>. QED
      BY <3>1 DEF FollowEachOther
  <2>. QED
    BY <1>6, <2>2
<1>8. n = 40 + ls + lc + lm + lx
  BY <1>1, <1>4, <1>5, <1>7
<1> HIDE DEF n
<1>9. ASSUME NEW data \in Seq(Nat), Lies(Body(h), data, 9), 9 + n <= Len(data)
      PROVE  LET ciphers == After(data, 43, 1)
                 compression == After(data, ciphers, 2)
                 extensions == After(data, compression, 1)
                 end == After(data, extensions, 2)
             IN  /\ end = 9 + n /\ extensions \in Nat
                 /\ Lies(x, data, extensions + 2)
                 /\ (extensions + 2) + lx = end
  <2> DEFINE p1 == 44 + ls
             p2 == 46 + ls + lc
             p3 == 47 + ls + lc + lm
  <2>1. /\ Lies(fs, data, 9 + Len(a))
        /\ Lies(fc, data, 9 + Len(a) + Len(fs))
        /\ Lies(fm, data, 9 + Len(a) + Len(fs) + Len(fc))
        /\ Lies(fx, data, 9 + Len(a) + Len(fs) + Len(fc) + Len(fm))
    BY <1>7, <1>9
  <2>2. /\ 9 + Len(a) = 43 /\ 9 + Len(a) + Len(fs) = p1 /\ 9 + Len(a) + Len(fs) + Len(fc) = p2
        /\ 9 + Len(a) + Len(fs) + Len(fc) + Len(fm) = p3
    BY <1>1, <1>4, <1>5
  <2>3. /\ p1 \in Nat /\ p2 \in Nat /\ p3 \in Nat /\ Len(data) \in Nat
        /\ 43 + 1 <= Len(data) /\ p1 + 2 <= Len(data) /\ p2 + 1 <= Len(data) /\ p3 + 2 <= Len(data)
        /\ 43 + 1 + ls = p1 /\ p1 + 2 + lc = p2 /\ p2 + 1 + lm = p3 /\ p3 + 2 + lx = 9 + n
    BY <1>4, <1>8, <1>9, LenProperties
  <2> HIDE DEF p1, p2, p3
  <2>4. Lies(fs, data, 43) /\ Lies(fc, data, p1) /\ Lies(fm, data, p2) /\ Lies(fx, data, p3)
    BY <2>1, <2>2
  <2>5. After(data, 43, 1) = p1
    <3>1. After(data, 43, 1) = 43 + 1 + ls
      BY <1>1, <2>3, <2>4, ShortFieldPassed DEF fs, ls
    <3>. QED
      BY <2>3, <3>1
  <2>6. After(data, p1, 2) = p2
    <3>1. After(data, p1, 2) = p1 + 2 + lc
      BY <1>1, <2>3, <2>4, FieldPassed DEF fc, lc
    <3>. QED
      BY <2>3, <3>1
  <2>7. After(data, p2, 1) = p3
    <3>1. After(data, p2, 1) = p2 + 1 + lm
      BY <1>1, <2>3, <2>4, ShortFieldPassed DEF fm, lm
    <3>. QED
      BY <2>3, <3>1
  <2>8. After(data, p3, 2) = 9 + n /\ Lies(x, data, p3 + 2)
    <3>1. After(data, p3, 2) = p3 + 2 + lx /\ Lies(x, data, p3 + 2)
      BY <1>2, <2>3, <2>4, FieldPassed DEF fx, lx
    <3>. QED
      BY <2>3, <3>1
  <2>. QED
    BY <2>3, <2>5, <2>6, <2>7, <2>8
<1>10. n \in Nat /\ n >= 34
  BY <1>4, <1>8
<1>. QED
  BY <1>7, <1>9, <1>10 DEF n, x, lx

(* The head of a hello's record and message.                               *)
LEMMA HelloRead ==
  ASSUME NEW h, IsHelloOf(h)
  PROVE  /\ HelloBytes(h) \in Seq(Nat) /\ Len(HelloBytes(h)) = 9 + Len(Body(h))
         /\ \A data \in Seq(Nat) :
              Lies(HelloBytes(h), data, 0) /\ Len(data) >= 6
                /\ data[1] = 22 /\ data[2] = 3 /\ data[6] = 1 =>
                  /\ IsHello(data) <=> Len(HelloBytes(h)) <= Len(data)
                  /\ Len(HelloBytes(h)) <= Len(data) => Lies(Body(h), data, 9)
<1> DEFINE b == Body(h)
           fb == Field(b)
           mh == <<1, 0>>
           m == mh \o fb
           fm == Field(m)
           rh == <<22, 3, h.minor>>
           n == Len(b)
<1>1. b \in Seq(Nat) /\ n \in Nat /\ n >= 34
  BY BodyRead
<1>2. h.minor \in Nat
  BY DEF IsHelloOf
<1>3. rh \in Seq(Nat) /\ Len(rh) = 3
  BY <1>2
<1>4. mh \in Seq(Nat) /\ Len(mh) = 2 /\ mh[1] = 1 /\ mh[2] = 0
  OBVIOUS
<1>5. HelloBytes(h) = rh \o fm
  BY DEF HelloBytes, Body
<1> HIDE DEF b
<1>6. fb \in Seq(Nat) /\ Len(fb) = 2 + n
  BY <1>1, FieldTaken
<1> HIDE DEF fb, mh, rh
<1>7. m \in Seq(Nat) /\ Len(m) = 4 + n
  <2>1. m \in Seq(Nat) /\ Len(m) = Len(mh) + Len(fb)
    BY <1>4, <1>6, Joined
  <2> HIDE DEF m, n
  <2>. QED
    BY <1>1, <1>4, <1>6, <2>1
<1>8. \A data \in Seq(Nat), p \in Nat : Lies(m, data, p) => Lies(mh, data, p) /\ Lies(fb, data, p + 2)
  BY <1>4, <1>6, LiesParts
<1> HIDE DEF m, n
<1>9. fm \in Seq(Nat) /\ Len(fm) = 6 + n
  <2>1. fm \in Seq(Nat) /\ Len(fm) = 2 + Len(m)
    BY <1>7, FieldTaken
  <2>. QED
    BY <1>1, <1>7, <2>1
<1> HIDE DEF fm
<1>10. HelloBytes(h) \in Seq(Nat) /\ Len(HelloBytes(h)) = 9 + n
  <2>1. rh \o fm \in Seq(Nat) /\ Len(rh \o fm) = Len(rh) + Len(fm)
    BY <1>3, <1>9, Joined
  <2>. QED
    BY <1>1, <1>3, <1>5, <1>9, <2>1
<1>11. ASSUME NEW data \in Seq(Nat), Lies(HelloBytes(h), data, 0),
              Len(data) >= 6, data[1] = 22, data[2] = 3, data[6] = 1
       PROVE  /\ IsHello(data) <=> 9 + n <= Len(data)
              /\ 9 + n <= Len(data) => Lies(b, data, 9)
  <2>1. Lies(fm, data, 3)
    <3>1. Lies(rh \o fm, data, 0)
      BY <1>5, <1>11
    <3>2. Lies(fm, data, 0 + Len(rh))
      BY <1>3, <1>9, <3>1, LiesParts
    <3>. QED
      BY <1>3, <3>2
  <2>2. Len(data) \in Nat /\ 3 + 2 <= Len(data)
    BY <1>11, LenProperties
  <2>3. Lies(m, data, 5) /\ After(data, 3, 2) = 9 + n
    <3>1. Lies(m, data, 3 + 2) /\ After(data, 3, 2) = 3 + 2 + Len(m)
      BY <1>7, <2>1, <2>2, FieldTaken DEF fm
    <3>. QED
      BY <1>1, <1>7, <3>1
  <2>4. Lies(mh, data, 5) /\ Lies(fb, data, 7)
    BY <1>8, <2>3
  <2>5. ASSUME 9 + n <= Len(data) PROVE IsHello(data) /\ Lies(b, data, 9)
    <3>1. data[7] = 0
      <4>1. 2 \in 1 .. Len(mh) /\ 5 + 2 <= Len(data)
        BY <1>1, <1>4, <2>2, <2>5
      <4>2. data[5 + 2] = mh[2]
        BY <2>4, <4>1 DEF Lies
      <4>. QED
        BY <1>4, <4>2
    <3>2. 7 + 2 <= Len(data) /\ 6 + 3 <= Len(data) /\ Len(data) >= 43
      BY <1>1, <2>2, <2>5
    <3>3. Lies(b, data, 9) /\ Number(data, 7, 2) = n
      <4>1. Lies(b, data, 7 + 2) /\ Number(data, 7, 2) = Len(b)
        BY <1>1, <2>4, <3>2, FieldTaken DEF fb
      <4>. QED
        BY <4>1 DEF n
    <3>4. Number(data, 7, 2) = data[8] * 256 + data[9]
      BY <3>2, NumberIs
    <3>5. Number(data, 6, 3) = (data[7] * 256 + data[8]) * 256 + data[9]
      BY <3>2, NumberIs
    <3>6. data[8] \in Nat /\ data[9] \in Nat
      <4>1. 8 \in 1 .. Len(data) /\ 9 \in 1 .. Len(data)
        BY <2>2, <3>2
      <4>. QED
        BY <4>1, ElementOfSeq
    <3>7. Number(data, 6, 3) = n
      BY <3>1, <3>3, <3>4, <3>5, <3>6
    <3>8. After(data, 6, 3) = 9 + n
      BY <1>1, <2>2, <3>2, <3>7 DEF After
    <3>. QED
      BY <1>11, <2>3, <2>5, <3>2, <3>3, <3>8 DEF IsHello
  <2>6. IsHello(data) => 9 + n <= Len(data)
    BY <2>3 DEF IsHello
  <2>. QED
    BY <2>5, <2>6
<1>. QED
  BY <1>10, <1>11 DEF b, n

(* What sniffDomain reads is the name in the hello.                        *)
LEMMA SniffedIsSaid ==
  ASSUME NEW s, Says(s), s.firstData \in Seq(Nat)
  PROVE  sniffDomain(s.firstData) = s.name
<1> DEFINE data == s.firstData
           h == s.hello
           hello == ~(Len(data) < 6 \/ <<data[1], data[2], data[6]>> # <<22, 3, 1>>)
<1>1. data \in Seq(Nat) /\ Len(data) \in Nat
  BY LenProperties
<1>2. CASE ~hello
  <2>1. s.name = <<>>
    BY <1>2 DEF Says
  <2>2. ~IsHello(data)
    BY <1>1, <1>2 DEF IsHello
  <2>3. sniffDomain(data) = <<>>
    BY <2>2 DEF sniffDomain
  <2>. QED
    BY <2>1, <2>3
<1>3. CASE hello
  <2> DEFINE wire == HelloBytes(h)
  <2>1. Len(data) >= 6 /\ data[1] = 22 /\ data[2] = 3 /\ data[6] = 1
    BY <1>1, <1>3
  <2>2. /\ IsHelloOf(h)
        /\ \A k \in 1 .. Len(data) : k <= Len(wire) => data[k] = wire[k]
        /\ s.name = IF Len(data) >= Len(wire) THEN HostIn(h) ELSE <<>>
    BY <1>3 DEF Says
  <2> HIDE DEF data, h
  <2>4. wire \in Seq(Nat) /\ Len(wire) \in Nat
    BY <2>2, HelloRead
  <2>3. Lies(wire, data, 0)
    <3> SUFFICES ASSUME NEW k \in 1 .. Len(wire), 0 + k <= Len(data) PROVE data[0 + k] = wire[k]
      BY DEF Lies
    <3>1. k \in Nat /\ k >= 1
      OBVIOUS
    <3>2. 0 + k = k /\ k \in 1 .. Len(data)
      BY <1>1, <3>1
    <3>3. Len(wire) \in Nat => k <= Len(wire)
      OBVIOUS
    <3>. QED
      BY <2>2, <2>4, <3>2, <3>3
  <2>5. /\ Len(wire) = 9 + Len(Body(h))
        /\ IsHello(data) <=> Len(wire) <= Len(data)
        /\ Len(wire) <= Len(data) => Lies(Body(h), data, 9)
    BY <1>1, <2>1, <2>2, <2>3, HelloRead
  <2>6. CASE ~(Len(wire) <= Len(data))
    <3>1. s.name = <<>> /\ ~IsHello(data)
      BY <1>1, <2>2, <2>4, <2>5, <2>6
    <3>2. sniffDomain(data) = <<>>
      BY <3>1 DEF sniffDomain
    <3>. QED
      BY <3>1, <3>2 DEF data
  <2>7. CASE Len(wire) <= Len(data)
    <3> DEFINE ciphers == After(data, 43, 1)
               compression == After(data, ciphers, 2)
               extensions == After(data, compression, 1)
               end == After(data, extensions, 2)
               list == ExtensionList(h.extensions)
               x == extensions + 2
    <3>1. s.name = HostIn(h) /\ IsHello(data) /\ Lies(Body(h), data, 9) /\ 9 + Len(Body(h)) <= Len(data)
      BY <1>1, <2>2, <2>4, <2>5, <2>7
    <3>2. /\ end = 9 + Len(Body(h)) /\ extensions \in Nat
          /\ Lies(list, data, extensions + 2) /\ (extensions + 2) + Len(list) = end
      BY <1>1, <2>2, <3>1, BodyRead
    <3>3. sniffDomain(data) = IF IsHello(data) /\ end <= Len(data)
                              THEN Extensions(data, extensions + 2, end) ELSE <<>>
      BY DEF sniffDomain
    <3> HIDE DEF extensions, end
    <3>4. end <= Len(data) /\ end \in Nat /\ x \in Nat
      BY <2>4, <2>5, <3>1, <3>2
    <3>5. sniffDomain(data) = Extensions(data, x, end)
      BY <3>1, <3>3, <3>4
    <3>6. h.extensions \in Seq(Extension)
      BY <2>2 DEF IsHelloOf
    <3>7. Lies(list, data, x) /\ x + Len(list) = end
      BY <3>2
    <3> HIDE DEF x
    <3>8. Extensions(data, x, end) = FirstOfType0(FirstOfType0(h.extensions))
      BY <1>1, <3>4, <3>6, <3>7, ExtensionsRead
    <3>. QED
      BY <3>1, <3>5, <3>8 DEF HostIn, data
  <2>. QED
    BY <2>6, <2>7
<1>. QED
  BY <1>2, <1>3

-----------------------------------------------------------------------------
(* The host is sniffed once, before anything else is done with the target. *)
SniffedInv ==
  /\ outbound.transport \in {"tcp", "tls", "ws"}
  /\ session.firstData \in Seq(Nat) /\ Says(session)
  /\ stage = "queued" => target = session.address
  /\ HostIsSniffed

LEMMA InitSniffed == SessionInit => SniffedInv
<1> SUFFICES ASSUME SessionInit PROVE SniffedInv
  OBVIOUS
<1>1. PICK c \in Cases : session = c.session /\ outbound = c.outbound
  BY DEF SessionInit
<1>2. outbound.transport \in {"tcp", "tls", "ws"} /\ session.firstData \in Seq(Nat) /\ Says(session)
  BY <1>1, CasesAssumption
<1>3. stage = "queued" /\ target = session.address
  BY DEF SessionInit
<1>. QED
  BY <1>2, <1>3 DEF SniffedInv, HostIsSniffed

LEMMA StepSniffed == SniffedInv /\ [SessionNext]_sessionVars => SniffedInv'
<1> SUFFICES ASSUME SniffedInv, [SessionNext]_sessionVars PROVE SniffedInv'
  OBVIOUS
<1>1. session' = session /\ outbound' = outbound
  BY DEF SessionNext, Proxy, handleSession_, Connect, WriteRequest, Fails, ServerSends,
         StreamResponse, WsResponse, StreamRead, WsRead, fixed, sessionVars
<1>2. Wanted' = Wanted /\ Says(session') /\ session'.firstData \in Seq(Nat)
      /\ outbound'.transport \in {"tcp", "tls", "ws"}
  BY <1>1 DEF Wanted, SniffedInv
<1>3. CASE handleSession_
  <2> DEFINE name == sniffDomain(session.firstData)
  <2>1. /\ stage = "queued" /\ stage' = "connect"
        /\ target' = IF name = <<>> THEN target
                     ELSE [target EXCEPT !.kind = "domain", !.host = name]
    BY <1>3 DEF handleSession_
  <2>2. name = session.name
    BY SniffedIsSaid DEF SniffedInv
  <2>3. target = session.address
    BY <2>1 DEF SniffedInv
  <2> HIDE DEF name
  <2>4. target' = Wanted
    BY <2>1, <2>2, <2>3 DEF Wanted
  <2>. QED
    BY <1>2, <2>1, <2>4 DEF SniffedInv, HostIsSniffed
<1>4. ASSUME target' = target, stage' = stage \/ (stage # "queued" /\ stage' # "queued")
      PROVE  SniffedInv'
  <2>1. stage # "queued" => target = Wanted
    BY DEF SniffedInv, HostIsSniffed
  <2>2. stage = "queued" => target = session.address
    BY DEF SniffedInv
  <2>3. stage' # "queued" => target' = Wanted'
    BY <1>2, <1>4, <2>1
  <2>4. stage' = "queued" => target' = session'.address
    BY <1>1, <1>4, <2>2
  <2>. QED
    BY <1>1, <1>2, <2>3, <2>4 DEF SniffedInv, HostIsSniffed
<1>5. CASE Connect
  <2>1. PICK i \in 1 .. Len(Steps) :
          /\ stage = Steps[i] /\ stage' = (IF i = Len(Steps) THEN "request" ELSE Steps[i + 1])
          /\ target' = target
    BY <1>5 DEF Connect
  <2>2. /\ Len(Steps) \in 1 .. 3
        /\ \A j \in 1 .. Len(Steps) : Steps[j] \in {"connect", "tlsHandshake", "wsHandshake"}
    BY StepsOf DEF SniffedInv
  <2>3. i # Len(Steps) => i + 1 \in 1 .. Len(Steps)
    BY <2>2
  <2>4. stage # "queued" /\ stage' # "queued"
    BY <2>1, <2>2, <2>3
  <2>. QED
    BY <1>4, <2>1, <2>4
<1>6. CASE WriteRequest \/ Fails
  BY <1>4, <1>6 DEF WriteRequest, Fails
<1>7. CASE StreamResponse \/ WsResponse
  BY <1>4, <1>7 DEF StreamResponse, WsResponse, Handshake
<1>8. CASE ServerSends \/ StreamRead \/ WsRead \/ UNCHANGED sessionVars
  BY <1>4, <1>8 DEF ServerSends, StreamRead, WsRead, sessionVars
<1>. QED
  BY <1>3, <1>5, <1>6, <1>7, <1>8 DEF SessionNext, Proxy

(* Whatever its fields and extensions are, a hello that came whole with    *)
(* the first data decides the host that is connected to; anything else     *)
(* leaves the host the client asked for.                                   *)
THEOREM HostSniffed == SessionSpec => []HostIsSniffed
<1>1. SessionSpec => []SniffedInv
  BY InitSniffed, StepSniffed, PTL DEF SessionSpec
<1>. QED
  BY <1>1, PTL DEF SniffedInv

-----------------------------------------------------------------------------
(* The request of a vless outbound.                                        *)
Addresses == [kind : {"v4", "v6", "domain"}, host : Seq(Nat), port : Ports]

LEMMA Constants == uuid_ \in Seq(Nat) /\ Len(uuid_) \in Nat /\ U8 \in Nat \ {0}
BY UserAssumption, U8Assumption, LenProperties

(* Narrowing to a byte leaves what fits it.                                *)
LEMMA Narrow ==
  ASSUME NEW l \in Nat, NEW u \in Nat \ {0}
  PROVE  l < u => l % u = l
OBVIOUS

(* The two bytes of a number.                                              *)
LEMMA TwoBytes ==
  ASSUME NEW n \in Nat
  PROVE  /\ n \div 256 \in Nat /\ n % 256 \in Nat /\ (n \div 256) * 256 + (n % 256) = n
         /\ write_u16(n) \in Seq(Nat) /\ Len(write_u16(n)) = 2
         /\ write_u16(n)[1] * 256 + write_u16(n)[2] = n
<1> DEFINE a == n \div 256
           b == n % 256
<1>1. a \in Nat /\ b \in Nat /\ a * 256 + b = n
  OBVIOUS
<1>2. write_u16(n) = <<a, b>>
  BY DEF write_u16
<1> HIDE DEF a, b
<1>3. <<a, b>> \in Seq(Nat) /\ Len(<<a, b>>) = 2
  BY <1>1
<1>. QED
  BY <1>1, <1>2, <1>3 DEF a, b

(* What precedes the kind of the address.                                  *)
Before(p) == <<0>> \o uuid_ \o <<0, 1>> \o write_u16(p)

LEMMA FrontIs ==
  ASSUME NEW p \in Ports
  PROVE  /\ Before(p) \in Seq(Nat) /\ Len(Before(p)) = Len(uuid_) + 5
         /\ Before(p)[Len(uuid_) + 4] * 256 + Before(p)[Len(uuid_) + 5] = p
<1>0. p \in Nat
  BY DEF Ports
<1> DEFINE w == write_u16(p)
           z == <<0>> \o uuid_
           y == z \o <<0, 1>>
           f == y \o w
<1>1. w \in Seq(Nat) /\ Len(w) = 2 /\ w[1] * 256 + w[2] = p
  BY <1>0, TwoBytes
<1>2. uuid_ \in Seq(Nat) /\ Len(uuid_) \in Nat /\ <<0>> \in Seq(Nat) /\ <<0, 1>> \in Seq(Nat)
      /\ Len(<<0>>) = 1 /\ Len(<<0, 1>>) = 2
  BY Constants
<1>3. z \in Seq(Nat) /\ Len(z) = Len(uuid_) + 1
  BY <1>2, Joined
<1> HIDE DEF w, z
<1>4. y \in Seq(Nat) /\ Len(y) = Len(uuid_) + 3
  BY <1>2, <1>3, Joined
<1> HIDE DEF y
<1>5. /\ f \in Seq(Nat) /\ Len(f) = Len(uuid_) + 5
      /\ f[Len(uuid_) + 4] = w[1] /\ f[Len(uuid_) + 5] = w[2]
  <2>1. /\ f \in Seq(Nat) /\ Len(f) = Len(y) + Len(w)
        /\ \A i \in 1 .. Len(w) : f[Len(y) + i] = w[i]
    BY <1>1, <1>4, Joined
  <2> HIDE DEF f
  <2>2. Len(uuid_) + 4 = Len(y) + 1 /\ Len(uuid_) + 5 = Len(y) + 2
    BY <1>2, <1>4
  <2>3. 1 \in 1 .. Len(w) /\ 2 \in 1 .. Len(w)
    BY <1>1
  <2>4. f[Len(y) + 1] = w[1] /\ f[Len(y) + 2] = w[2]
    BY <2>1, <2>3
  <2>. QED
    BY <1>1, <1>4, <2>1, <2>2, <2>4
<1>. QED
  BY <1>1, <1>2, <1>5 DEF y, z, w, Before

(* The parts of a request, f before the kind and length k of the host h.   *)
Request(f, k, h, e) == ((f \o k) \o h) \o e

Laid(f, k, h, e) ==
  LET data == Request(f, k, h, e)
  IN  /\ \A i \in 1 .. Len(f) : data[i] = f[i]
      /\ \A i \in 1 .. Len(k) : data[Len(f) + i] = k[i]
      /\ SubSeq(data, Len(f) + Len(k) + 1, Len(f) + Len(k) + Len(h)) = h
      /\ SubSeq(data, Len(f) + Len(k) + Len(h) + 1, Len(data)) = e

LEMMA Layout ==
  ASSUME NEW f \in Seq(Nat), NEW k \in Seq(Nat), NEW h \in Seq(Nat), NEW e \in Seq(Nat)
  PROVE  Laid(f, k, h, e)
<1> DEFINE a == f \o k
           b == a \o h
           d == b \o e
<1>1. /\ a \in Seq(Nat) /\ Len(a) = Len(f) + Len(k) /\ Len(f) \in Nat /\ Len(k) \in Nat
      /\ \A i \in 1 .. Len(f) : a[i] = f[i]
      /\ \A i \in 1 .. Len(k) : a[Len(f) + i] = k[i]
  BY Joined
<1> HIDE DEF a
<1>3. /\ b \in Seq(Nat) /\ Len(b) = Len(a) + Len(h) /\ Len(a) \in Nat /\ Len(h) \in Nat
      /\ \A i \in 1 .. Len(a) : b[i] = a[i]
  BY <1>1, Joined
<1>4. SubSeq(d, Len(a) + 1, Len(a) + Len(h)) = h /\ SubSeq(d, Len(a) + Len(h) + 1, Len(d)) = e
  <2>1. Parts(a, h, e)
    BY <1>1, PartsOf
  <2>. QED
    BY <2>1 DEF Parts
<1> HIDE DEF b
<1>5. \A i \in 1 .. Len(b) : d[i] = b[i]
  BY <1>3, Joined
<1> HIDE DEF d
<1>2. /\ Len(f) \in Nat /\ Len(k) \in Nat /\ Len(h) \in Nat
      /\ Len(a) = Len(f) + Len(k) /\ Len(b) = Len(f) + Len(k) + Len(h)
  BY <1>1, <1>3
<1>6. \A i \in 1 .. Len(f) : d[i] = f[i]
  <2>1. \A i \in 1 .. Len(f) : i \in 1 .. Len(a) /\ i \in 1 .. Len(b)
    BY <1>1, <1>3
  <2>. QED
    BY <2>1, <1>1, <1>3, <1>5
<1>7. ASSUME NEW i \in 1 .. Len(k) PROVE d[Len(f) + i] = k[i]
  <2>1. Len(f) + i \in 1 .. Len(a) /\ Len(f) + i \in 1 .. Len(b)
    BY <1>2
  <2>2. d[Len(f) + i] = b[Len(f) + i] /\ b[Len(f) + i] = a[Len(f) + i]
    BY <2>1, <1>3, <1>5
  <2>. QED
    BY <2>2, <1>1
<1>8. /\ SubSeq(d, Len(f) + Len(k) + 1, Len(f) + Len(k) + Len(h)) = h
      /\ SubSeq(d, Len(f) + Len(k) + Len(h) + 1, Len(d)) = e
  BY <1>1, <1>4
<1>. QED
  BY <1>6, <1>7, <1>8 DEF d, b, a, Laid, Request

(* A vless server takes apart what the outbound put together, for every    *)
(* kind of host.                                                           *)
Is(name, h, p, e) == [address |-> [kind |-> name, host |-> h, port |-> p], firstData |-> e]

LEMMA DecodeParts ==
  ASSUME NEW p \in Ports, NEW k \in Seq(Nat), NEW h \in Seq(Nat), NEW e \in Seq(Nat)
  PROVE  /\ k = <<1>> /\ Len(h) = 4  => Decode(Request(Before(p), k, h, e)) = Is("v4", h, p, e)
         /\ k = <<3>> /\ Len(h) = 16 => Decode(Request(Before(p), k, h, e)) = Is("v6", h, p, e)
         /\ k = <<2, Len(h)>> => Decode(Request(Before(p), k, h, e)) = Is("domain", h, p, e)
<1> DEFINE f == Before(p)
           data == Request(Before(p), k, h, e)
           at == Len(uuid_) + 4
<1>1. /\ f \in Seq(Nat) /\ Len(f) = at + 1 /\ at \in Nat \ {0} /\ f[at] * 256 + f[at + 1] = p
  <2>1. Len(uuid_) \in Nat /\ Len(uuid_) + 5 = at + 1 /\ at \in Nat \ {0}
    BY Constants
  <2>. QED
    BY <2>1, FrontIs
<1>2. /\ Len(k) \in Nat /\ Len(h) \in Nat
      /\ \A i \in 1 .. Len(f) : data[i] = f[i]
      /\ \A i \in 1 .. Len(k) : data[Len(f) + i] = k[i]
      /\ SubSeq(data, Len(f) + Len(k) + 1, Len(f) + Len(k) + Len(h)) = h
      /\ SubSeq(data, Len(f) + Len(k) + Len(h) + 1, Len(data)) = e
  <2>1. Laid(f, k, h, e)
    BY <1>1, Layout
  <2>2. Len(k) \in Nat /\ Len(h) \in Nat
    BY LenProperties
  <2>. QED
    BY <2>1, <2>2 DEF Laid
<1> DEFINE kind == data[at + 2]
           n == CASE kind = 1 -> 4 [] kind = 2 -> data[at + 3] [] kind = 3 -> 16
           start == IF kind = 2 THEN at + 4 ELSE at + 3
           name == CASE kind = 1 -> "v4" [] kind = 2 -> "domain" [] kind = 3 -> "v6"
<1>3. Decode(data) = [address |-> [kind |-> name, host |-> SubSeq(data, start, start + n - 1),
                                   port |-> data[at] * 256 + data[at + 1]],
                      firstData |-> SubSeq(data, start + n, Len(data))]
  BY DEF Decode
<1> HIDE DEF f, data, at
<1>4. data[at] * 256 + data[at + 1] = p
  <2>1. at \in 1 .. Len(f) /\ at + 1 \in 1 .. Len(f)
    BY <1>1
  <2>. QED
    BY <1>1, <1>2, <2>1
<1>5. 1 <= Len(k) => kind = k[1]
  <2>1. 1 <= Len(k) => 1 \in 1 .. Len(k)
    BY <1>2
  <2>2. Len(f) + 1 = at + 2
    BY <1>1
  <2>. QED
    BY <1>2, <2>1, <2>2
<1>6. 2 <= Len(k) => data[at + 3] = k[2]
  <2>1. 2 <= Len(k) => 2 \in 1 .. Len(k)
    BY <1>2
  <2>2. Len(f) + 2 = at + 3
    BY <1>1
  <2>. QED
    BY <1>2, <2>1, <2>2
<1>7. start = Len(f) + Len(k) + 1 /\ n = Len(h) => Decode(data) = Is(name, h, p, e)
  <2>1. Len(f) + Len(k) + 1 + Len(h) - 1 = Len(f) + Len(k) + Len(h)
        /\ Len(f) + Len(k) + 1 + Len(h) = Len(f) + Len(k) + Len(h) + 1
    BY <1>1, <1>2
  <2> HIDE DEF kind, n, start, name
  <2>2. start = Len(f) + Len(k) + 1 /\ n = Len(h) =>
          /\ SubSeq(data, start, start + n - 1) = h
          /\ SubSeq(data, start + n, Len(data)) = e
    BY <1>2, <2>1
  <2>. QED
    BY <1>3, <1>4, <2>2 DEF Is
<1> HIDE DEF kind
<1>8. k = <<1>> /\ Len(h) = 4 => start = Len(f) + Len(k) + 1 /\ n = Len(h) /\ name = "v4"
  BY <1>1, <1>5
<1>9. k = <<3>> /\ Len(h) = 16 => start = Len(f) + Len(k) + 1 /\ n = Len(h) /\ name = "v6"
  BY <1>1, <1>5
<1>10. k = <<2, Len(h)>> => start = Len(f) + Len(k) + 1 /\ n = Len(h) /\ name = "domain"
  BY <1>1, <1>2, <1>5, <1>6
<1> HIDE DEF n, start, name
<1>. QED
  BY <1>7, <1>8, <1>9, <1>10 DEF data

LEMMA DecodesRequest ==
  ASSUME NEW addr \in Addresses, NEW first \in Seq(Nat)
  PROVE  /\ Len(addr.host) < U8
         /\ addr.kind = "v4" => Len(addr.host) = 4
         /\ addr.kind = "v6" => Len(addr.host) = 16
         => Decode(Before(addr.port) \o hostBytes(addr) \o first)
              = [address |-> addr, firstData |-> first]
<1> DEFINE h == addr.host
           p == addr.port
           k == IF addr.kind = "domain" THEN <<2, Len(h) % U8>>
                ELSE IF addr.kind = "v4" THEN <<1>> ELSE <<3>>
           f == Before(p)
<1>1. /\ h \in Seq(Nat) /\ p \in Ports /\ addr.kind \in {"v4", "v6", "domain"}
      /\ addr = [kind |-> addr.kind, host |-> h, port |-> p]
  BY DEF Addresses
<1>2. Len(h) \in Nat /\ (Len(h) < U8 => Len(h) % U8 = Len(h)) /\ Len(h) % U8 \in Nat
  <2>1. Len(h) \in Nat
    BY <1>1, LenProperties
  <2> HIDE DEF h
  <2>2. Len(h) % U8 \in Nat
    BY <2>1, Constants
  <2>3. Len(h) < U8 => Len(h) % U8 = Len(h)
    BY <2>1, Constants, Narrow
  <2>. QED
    BY <2>1, <2>2, <2>3
<1>3. k \in Seq(Nat) /\ f \in Seq(Nat) /\ hostBytes(addr) = k \o h
  <2>1. k \in Seq(Nat)
    BY <1>2
  <2>2. f \in Seq(Nat)
    BY <1>1, FrontIs
  <2>. QED
    BY <2>1, <2>2 DEF hostBytes
<1>4. /\ addr.kind = "v4" => k = <<1>>
      /\ addr.kind = "v6" => k = <<3>>
      /\ addr.kind = "domain" /\ Len(h) < U8 => k = <<2, Len(h)>>
  BY <1>2
<1>5. [address |-> addr, firstData |-> first] = Is(addr.kind, h, p, first)
  BY <1>1 DEF Is
<1> HIDE DEF h, p, k, f
<1>6. f \o (k \o h) = (f \o k) \o h
  <2>1. Associates(f, k, h)
    BY <1>1, <1>3, Associated
  <2>. QED
    BY <2>1 DEF Associates
<1>7. f \o hostBytes(addr) \o first = Request(f, k, h, first)
  BY <1>3, <1>6 DEF Request
<1>8. /\ k = <<1>> /\ Len(h) = 4 => Decode(Request(f, k, h, first)) = Is("v4", h, p, first)
      /\ k = <<3>> /\ Len(h) = 16 => Decode(Request(f, k, h, first)) = Is("v6", h, p, first)
      /\ k = <<2, Len(h)>> => Decode(Request(f, k, h, first)) = Is("domain", h, p, first)
  BY <1>1, <1>3, DecodeParts DEF f
<1>9. /\ Len(h) < U8 /\ (addr.kind = "v4" => Len(h) = 4) /\ (addr.kind = "v6" => Len(h) = 16)
      => Decode(f \o hostBytes(addr) \o first) = Is(addr.kind, h, p, first)
  BY <1>1, <1>4, <1>7, <1>8
<1>. QED
  BY <1>5, <1>9 DEF h, p, f

-----------------------------------------------------------------------------
(* What is written to a vless server is the request made of the address    *)
(* after sniffing, which is final by then.                                 *)
RequestInv ==
  /\ outbound.transport \in {"tcp", "tls", "ws"}
  /\ session.firstData \in Seq(Nat) /\ Wanted \in Addresses
  /\ Wanted.kind = "v4" => Len(Wanted.host) = 4
  /\ Wanted.kind = "v6" => Len(Wanted.host) = 16
  /\ stage \in {"queued", "connect", "tlsHandshake", "wsHandshake", "request"} => uplink = <<>>
  /\ uplink # <<>> /\ outbound.type = "vless" => uplink[1] = requestData

LEMMA InitRequest == SessionInit => RequestInv
<1> SUFFICES ASSUME SessionInit PROVE RequestInv
  OBVIOUS
<1>1. PICK c \in Cases : session = c.session /\ outbound = c.outbound
  BY DEF SessionInit
<1>2. /\ outbound.transport \in {"tcp", "tls", "ws"}
      /\ session.firstData \in Seq(Nat) /\ session.name \in Seq(Nat)
      /\ session.address \in Addresses
      /\ session.address.kind = "v4" => Len(session.address.host) = 4
      /\ session.address.kind = "v6" => Len(session.address.host) = 16
  BY <1>1, CasesAssumption DEF Addresses
<1>3. /\ Wanted \in Addresses
      /\ Wanted.kind = "v4" => Len(Wanted.host) = 4
      /\ Wanted.kind = "v6" => Len(Wanted.host) = 16
  <2>1. CASE session.name = <<>>
    BY <1>2, <2>1 DEF Wanted
  <2>2. CASE session.name # <<>>
    BY <1>2, <2>2 DEF Wanted, Addresses
  <2>. QED
    BY <2>1, <2>2
<1>4. uplink = <<>>
  BY DEF SessionInit
<1>. QED
  BY <1>2, <1>3, <1>4 DEF RequestInv

LEMMA StepRequest == RequestInv /\ [SessionNext]_sessionVars => RequestInv'
<1> SUFFICES ASSUME RequestInv, [SessionNext]_sessionVars PROVE RequestInv'
  OBVIOUS
<1>1. UNCHANGED <<session, outbound>> /\ Wanted' = Wanted
  BY DEF SessionNext, Proxy, handleSession_, Connect, WriteRequest, Fails, ServerSends,
         StreamResponse, WsResponse, StreamRead, WsRead, fixed, sessionVars, Wanted
<1>2. CASE handleSession_
  BY <1>1, <1>2 DEF handleSession_, RequestInv
<1>3. CASE WriteRequest
  <2>1. /\ uplink' = <<IF outbound.type = "direct" THEN session.firstData ELSE requestData>>
        /\ stage' \in {"relay", "response"} /\ target' = target
    BY <1>3 DEF WriteRequest
  <2>2. requestData' = requestData
    BY <1>1, <2>1 DEF requestData
  <2>3. outbound.type = "vless" => uplink'[1] = requestData
    BY <2>1
  <2>. QED
    BY <1>1, <2>1, <2>2, <2>3 DEF RequestInv
<1>4. CASE UNCHANGED <<target, uplink>> /\ (stage' = stage
           \/ stage' \in {"relay", "failed"} \/ uplink = <<>>)
  <2>1. requestData' = requestData
    BY <1>1, <1>4 DEF requestData
  <2>. QED
    BY <1>1, <1>4, <2>1 DEF RequestInv
<1>5. CASE Connect
  <2>1. PICK i \in 1 .. Len(Steps) : stage = Steps[i] /\ UNCHANGED <<target, uplink>>
    BY <1>5 DEF Connect
  <2>2. Steps[i] \in {"connect", "tlsHandshake", "wsHandshake"}
    BY StepsOf DEF RequestInv
  <2>. QED
    BY <1>4, <2>1, <2>2 DEF RequestInv
<1>. QED
  BY <1>2, <1>3, <1>4, <1>5
     DEF SessionNext, Proxy, Fails, ServerSends, StreamResponse, WsResponse, StreamRead, WsRead,
         Handshake, sessionVars

LEMMA RequestInvariant == SessionSpec => []RequestInv
BY InitRequest, StepRequest, PTL DEF SessionSpec

(* A vless server reads from the request the host the client wants and the *)
(* session's first data, whatever kind of address, user and data they are. *)
THEOREM RequestUnderstood == SessionSpec => []RequestIsUnderstood
<1>1. RequestInv => (HostIsSniffed => RequestIsUnderstood)
  <2> SUFFICES ASSUME RequestInv, HostIsSniffed, uplink # <<>>, outbound.type = "vless",
                      Len(Wanted.host) < U8
               PROVE  Decode(uplink[1]) = [address |-> Wanted, firstData |-> session.firstData]
    BY DEF RequestIsUnderstood
  <2>1. stage # "queued" /\ uplink[1] = requestData
    BY DEF RequestInv
  <2>2. target = Wanted
    BY <2>1 DEF HostIsSniffed
  <2>3. requestData = Before(Wanted.port) \o hostBytes(Wanted) \o session.firstData
    BY <2>2 DEF requestData, Before
  <2>4. /\ Wanted \in Addresses /\ session.firstData \in Seq(Nat)
        /\ Wanted.kind = "v4" => Len(Wanted.host) = 4
        /\ Wanted.kind = "v6" => Len(Wanted.host) = 16
    BY DEF RequestInv
  <2> HIDE DEF HostIsSniffed, Wanted, RequestInv
  <2>5. Decode(Before(Wanted.port) \o hostBytes(Wanted) \o session.firstData)
          = [address |-> Wanted, firstData |-> session.firstData]
    BY <2>4, DecodesRequest
  <2>. QED
    BY <2>1, <2>3, <2>5
<1>. QED
  BY <1>1, RequestInvariant, HostSniffed, PTL
=============================================================================
