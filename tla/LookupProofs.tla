---------------------------- MODULE LookupProofs ----------------------------
(***************************************************************************)
(* Proofs about Lookup: first of the UDP server's client, for every set of *)
(* datagrams and any number of them, then of names, queries and answers of *)
(* any length.                                                             *)
(***************************************************************************)
EXTENDS Lookup, Integers, SequenceLemmas

(* relay() is on its way, and the client on its frame. *)
Running == relay \in {"start", "sending", "getting"}
ClientLives ==
  /\ relay = "start" => client = "none" /\ receive = "none" /\ arrived = <<>>
  /\ relay \in {"sending", "getting"} <=> client = "alive"
  /\ client = "destroyed" => receive # "receiving"
  /\ client = "none" => receive = "none"
  /\ relay = "returned" => client = "destroyed"
  /\ waiter # NoReply /\ Running => relay = "getting"
  /\ relay = "getting" /\ waiter = NoReply => sessions = <<>>

(* While it is, no datagram is lost, and the first one to arrive is ahead  *)
(* of the others: in the waiter, the deque, the coroutine or the socket.   *)
Count(r) == IF r = NoReply THEN 0 ELSE 1
Held == Count(waiter) + Len(sessions) + Count(taken) + Len(sockbuf)
Counted == Running => Len(arrived) = Held
FirstAhead ==
  Running =>
    /\ waiter # NoReply => waiter = arrived[1]
    /\ waiter = NoReply /\ sessions # <<>> => sessions[1] = arrived[1]
    /\ waiter = NoReply /\ sessions = <<>> /\ taken # NoReply => taken = arrived[1]
    /\ waiter = NoReply /\ sessions = <<>> /\ taken = NoReply /\ sockbuf # <<>> =>
         sockbuf[1] = arrived[1]

(* When it is over, a datagram still held is another one. *)
SecondHeld == relay = "returned" /\ receive = "completed" => Len(arrived) > 1

IInv == /\ TypeOK /\ ClientLives /\ Counted /\ FirstAhead
        /\ FirstReplyReturned /\ SecondHeld /\ OneReplyIsSafe

LEMMA Appended ==
  ASSUME NEW s \in Seq(Replies), NEW r \in Replies
  PROVE  /\ Append(s, r) \in Seq(Replies) /\ Len(Append(s, r)) = Len(s) + 1 /\ Len(s) \in Nat
         /\ Append(s, r) # <<>>
         /\ s = <<>> => Append(s, r)[1] = r
         /\ s # <<>> => Append(s, r)[1] = s[1]
<1>1. /\ Append(s, r) \in Seq(Replies) /\ Len(Append(s, r)) = Len(s) + 1 /\ Len(s) \in Nat
      /\ Append(s, r)[Len(s) + 1] = r
      /\ \A i \in 1 .. Len(s) : Append(s, r)[i] = s[i]
  BY AppendProperties, LenProperties
<1>2. s = <<>> => Len(s) = 0
  BY EmptySeq
<1>3. s # <<>> => 1 \in 1 .. Len(s)
  BY EmptySeq, <1>1
<1>. QED
  BY <1>1, <1>2, <1>3, EmptySeq

LEMMA Taken ==
  ASSUME NEW s \in Seq(Replies), s # <<>>
  PROVE  /\ Head(s) \in Replies /\ Head(s) = s[1]
         /\ Tail(s) \in Seq(Replies) /\ Len(Tail(s)) = Len(s) - 1 /\ Len(s) \in Nat \ {0}
BY HeadTailProperties, EmptySeq, LenProperties

(* What the lengths of the buffers say. *)
LEMMA Lengths ==
  ASSUME TypeOK
  PROVE  /\ <<>> \in Seq(Replies) /\ Len(<<>>) = 0
         /\ Len(sessions) \in Nat /\ (Len(sessions) = 0 <=> sessions = <<>>)
         /\ Len(sockbuf) \in Nat /\ (Len(sockbuf) = 0 <=> sockbuf = <<>>)
         /\ Len(arrived) \in Nat /\ (Len(arrived) = 0 <=> arrived = <<>>)
         /\ Count(waiter) \in Nat /\ (Count(waiter) = 0 <=> waiter = NoReply)
         /\ Count(taken) \in Nat /\ (Count(taken) = 0 <=> taken = NoReply)
         /\ Count(NoReply) = 0 /\ \A r \in Replies : Count(r) = 1
<1>1. sessions \in Seq(Replies) /\ sockbuf \in Seq(Replies) /\ arrived \in Seq(Replies)
  BY DEF TypeOK
<1>2. <<>> \in Seq(Replies) /\ \A s \in Seq(Replies) : Len(s) \in Nat /\ (Len(s) = 0 <=> s = <<>>)
  BY EmptySeq, LenProperties
<1>. QED
  BY <1>1, <1>2, ReplyAssumption DEF Count

LEMMA InitIInv == Init => IInv
<1> SUFFICES ASSUME Init PROVE IInv
  OBVIOUS
<1>1. <<>> \in Seq(Replies) /\ Len(<<>>) = 0
  BY EmptySeq
<1>2. TypeOK /\ ClientLives
  BY <1>1, ReplyAssumption DEF Init, TypeOK, ClientLives, Running
<1>3. Counted
  BY <1>1 DEF Init, Counted, Held, Count
<1>. QED
  BY <1>2, <1>3 DEF Init, IInv, FirstAhead, FirstReplyReturned, SecondHeld, OneReplyIsSafe

LEMMA StepIInv == IInv /\ [Next]_vars => IInv'
<1> SUFFICES ASSUME IInv, [Next]_vars PROVE IInv'
  OBVIOUS
<1> USE ReplyAssumption
<1>0. TypeOK /\ ClientLives /\ Counted /\ FirstAhead
  BY DEF IInv
<1> DEFINE Outcome == FirstReplyReturned /\ SecondHeld /\ OneReplyIsSafe
<1>1. CASE Start
  <2>1. TypeOK' /\ ClientLives'
    BY <1>0, <1>1 DEF Start, TypeOK, ClientLives, Running
  <2>2. Counted' /\ FirstAhead' /\ Outcome'
    BY <1>0, <1>1 DEF Start, Counted, Held, FirstAhead, Running, IInv, FirstReplyReturned,
       SecondHeld, OneReplyIsSafe
  <2>. QED
    BY <2>1, <2>2 DEF IInv
<1>2. CASE StartFails
  <2>1. TypeOK' /\ ClientLives'
    BY <1>0, <1>2 DEF StartFails, TypeOK, ClientLives, Running
  <2>2. Counted' /\ FirstAhead' /\ Outcome'
    BY <1>0, <1>2 DEF StartFails, Counted, FirstAhead, Running, IInv, FirstReplyReturned,
       SecondHeld, OneReplyIsSafe
  <2>. QED
    BY <2>1, <2>2 DEF IInv
<1>3. CASE SendFails
  <2>1. TypeOK' /\ ClientLives'
    BY <1>0, <1>3 DEF SendFails, Destroy, TypeOK, ClientLives, Running
  <2>2. Counted' /\ FirstAhead' /\ Outcome'
    BY <1>0, <1>3 DEF SendFails, Counted, FirstAhead, Running, IInv, FirstReplyReturned,
       SecondHeld, OneReplyIsSafe
  <2>. QED
    BY <2>1, <2>2 DEF IInv
<1>4. CASE AwaitSession
  <2>1. TypeOK' /\ ClientLives'
    BY <1>0, <1>4 DEF AwaitSession, TypeOK, ClientLives, Running
  <2>2. Counted' /\ FirstAhead' /\ Outcome'
    BY <1>0, <1>4 DEF AwaitSession, Counted, Held, FirstAhead, Running, IInv, FirstReplyReturned,
       SecondHeld, OneReplyIsSafe
  <2>. QED
    BY <2>1, <2>2 DEF IInv
<1>5. ASSUME NEW r, Return(r), Running, r \in Replies, r = arrived[1], arrived # <<>>,
             taken # NoReply => Len(arrived) > 1,
             sessions' \in Seq(Replies), waiter' \in Replies \cup {NoReply}
      PROVE  IInv'
  <2>1. TypeOK' /\ ClientLives'
    BY <1>0, <1>5 DEF Return, Destroy, TypeOK, ClientLives, Running
  <2>2. Counted' /\ FirstAhead' /\ FirstReplyReturned'
    BY <1>5 DEF Return, Counted, FirstAhead, Running, FirstReplyReturned
  <2>3. SecondHeld'
    BY <1>0, <1>5 DEF Return, Destroy, TypeOK, SecondHeld
  <2>4. OneReplyIsSafe'
    BY <1>5 DEF Return, Running, IInv, OneReplyIsSafe
  <2>. QED
    BY <2>1, <2>2, <2>3, <2>4 DEF IInv
<1>6. CASE SessionQueued
  <2>1. /\ Head(sessions) \in Replies /\ Head(sessions) = sessions[1]
        /\ Tail(sessions) \in Seq(Replies) /\ Len(sessions) \in Nat \ {0}
    BY <1>0, <1>6, Taken DEF SessionQueued, TypeOK
  <2>2. waiter = NoReply /\ Running
    BY <1>0, <1>6 DEF SessionQueued, ClientLives, Running
  <2>3. Head(sessions) = arrived[1]
    BY <1>0, <1>6, <2>1, <2>2 DEF SessionQueued, FirstAhead
  <2>4. arrived # <<>> /\ (taken # NoReply => Len(arrived) > 1)
    BY <1>0, <2>1, <2>2, Lengths DEF Counted, Held
  <2>. QED
    BY <1>0, <1>5, <1>6, <2>1, <2>2, <2>3, <2>4 DEF SessionQueued, TypeOK
<1>7. CASE SessionWoken
  <2>1. Running /\ waiter \in Replies /\ waiter = arrived[1]
    BY <1>0, <1>7 DEF SessionWoken, Running, FirstAhead, TypeOK
  <2>2. arrived # <<>> /\ (taken # NoReply => Len(arrived) > 1)
    BY <1>0, <1>7, <2>1, Lengths DEF SessionWoken, Counted, Held
  <2>. QED
    BY <1>0, <1>5, <1>7, <2>1, <2>2 DEF SessionWoken, TypeOK
<1>8. ASSUME NEW r \in Replies, Arrive(r) PROVE IInv'
  <2>1. /\ arrived' \in Seq(Replies) /\ Len(arrived') = Len(arrived) + 1
        /\ arrived' # <<>>
        /\ arrived = <<>> => arrived'[1] = r
        /\ arrived # <<>> => arrived'[1] = arrived[1]
    BY <1>0, <1>8, Appended DEF Arrive, TypeOK
  <2>2. /\ sockbuf' \in Seq(Replies) /\ Len(sockbuf') = Len(sockbuf) + 1
        /\ sockbuf = <<>> => sockbuf'[1] = r
        /\ sockbuf # <<>> => sockbuf'[1] = sockbuf[1]
    BY <1>0, <1>8, Appended DEF Arrive, TypeOK
  <2>3. TypeOK' /\ ClientLives'
    BY <1>0, <1>8, <2>1, <2>2 DEF Arrive, TypeOK, ClientLives, Running
  <2>4. Counted'
    <3>1. Held' = Held + 1
      <4>1. Held' = Count(waiter) + Len(sessions) + Count(taken) + (Len(sockbuf) + 1)
        BY <1>8, <2>2 DEF Arrive, Held
      <4>. QED
        BY <1>0, <4>1, Lengths DEF Held
    <3>. QED
      BY <1>0, <1>8, <2>1, <3>1 DEF Arrive, Counted, Running
  <2>5. Running /\ arrived = <<>> =>
          waiter = NoReply /\ sessions = <<>> /\ taken = NoReply /\ sockbuf = <<>>
    BY <1>0, Lengths DEF Counted, Held
  <2>6. FirstAhead'
    <3>1. UNCHANGED <<relay, waiter, sessions, taken>>
      BY <1>8 DEF Arrive
    <3>2. CASE arrived = <<>>
      BY <2>1, <2>2, <2>5, <3>1, <3>2 DEF FirstAhead, Running
    <3>3. CASE arrived # <<>>
      <4>1. Running /\ sockbuf = <<>> => waiter # NoReply \/ sessions # <<>> \/ taken # NoReply
        BY <1>0, <3>3, Lengths DEF Counted, Held
      <4>. QED
        BY <1>0, <2>1, <2>2, <3>1, <3>3, <4>1 DEF FirstAhead, Running
    <3>. QED
      BY <3>2, <3>3
  <2>7. Outcome'
    BY <1>0, <1>8, <2>1, Lengths DEF Arrive, IInv, FirstReplyReturned, SecondHeld, OneReplyIsSafe
  <2>. QED
    BY <2>3, <2>4, <2>6, <2>7 DEF IInv
<1>9. CASE Receive
  <2>1. /\ Head(sockbuf) \in Replies /\ Head(sockbuf) = sockbuf[1]
        /\ Tail(sockbuf) \in Seq(Replies) /\ Len(Tail(sockbuf)) = Len(sockbuf) - 1
    BY <1>0, <1>9, Taken DEF Receive, TypeOK
  <2>2. TypeOK' /\ ClientLives'
    BY <1>0, <1>9, <2>1 DEF Receive, TypeOK, ClientLives, Running
  <2>3. taken = NoReply /\ client # "destroyed"
    BY <1>0, <1>9 DEF Receive, TypeOK, ClientLives
  <2>4. Counted'
    <3>1. Held' = Held
      BY <1>0, <1>9, <2>1, <2>3, Lengths DEF Receive, Held
    <3>. QED
      BY <1>0, <1>9, <3>1 DEF Receive, Counted, Running
  <2>5. FirstAhead'
    BY <1>0, <1>9, <2>1, <2>3 DEF Receive, FirstAhead, Running
  <2>6. Outcome'
    BY <1>0, <1>9, <2>3 DEF Receive, ClientLives, IInv, FirstReplyReturned, SecondHeld,
       OneReplyIsSafe
  <2>. QED
    BY <2>2, <2>4, <2>5, <2>6 DEF IInv
<1>10. CASE ReceiveError
  <2>1. TypeOK' /\ ClientLives'
    BY <1>0, <1>10 DEF ReceiveError, TypeOK, ClientLives, Running
  <2>2. Counted' /\ FirstAhead' /\ Outcome'
    BY <1>0, <1>10 DEF ReceiveError, Counted, Held, FirstAhead, Running, IInv,
       FirstReplyReturned, SecondHeld, OneReplyIsSafe
  <2>. QED
    BY <2>1, <2>2 DEF IInv
<1>11. CASE Put
  <2>1. taken \in Replies /\ taken # NoReply /\ relay \in {"sending", "getting"}
    BY <1>0, <1>11 DEF Put, TypeOK, ClientLives
  <2>2. /\ Append(sessions, taken) \in Seq(Replies)
        /\ Len(Append(sessions, taken)) = Len(sessions) + 1
        /\ Append(sessions, taken) # <<>>
        /\ sessions = <<>> => Append(sessions, taken)[1] = taken
        /\ sessions # <<>> => Append(sessions, taken)[1] = sessions[1]
    BY <1>0, <2>1, Appended DEF TypeOK
  <2>3. TypeOK' /\ Outcome'
    BY <1>0, <1>11, <2>1, <2>2 DEF Put, put, TypeOK, IInv, FirstReplyReturned, SecondHeld,
       OneReplyIsSafe
  <2>4. CASE relay = "getting" /\ waiter = NoReply
    <3>1. waiter' = taken /\ UNCHANGED sessions /\ sessions = <<>>
      BY <1>0, <1>11, <2>4 DEF Put, put, ClientLives
    <3>2. ClientLives'
      BY <1>0, <1>11, <2>4, <3>1 DEF Put, ClientLives, Running
    <3>3. Counted'
      BY <1>0, <1>11, <2>1, <2>4, <3>1, Lengths DEF Put, Counted, Held, Running
    <3>4. FirstAhead'
      BY <1>0, <1>11, <2>1, <2>4, <3>1 DEF Put, FirstAhead, Running
    <3>. QED
      BY <2>3, <3>2, <3>3, <3>4 DEF IInv
  <2>5. CASE ~(relay = "getting" /\ waiter = NoReply)
    <3>1. sessions' = Append(sessions, taken) /\ UNCHANGED waiter
      BY <1>11, <2>5 DEF Put, put
    <3>2. ClientLives'
      BY <1>0, <1>11, <2>5, <3>1 DEF Put, ClientLives, Running
    <3>3. Counted'
      BY <1>0, <1>11, <2>1, <2>2, <3>1, Lengths DEF Put, Counted, Held, Running
    <3>4. FirstAhead'
      BY <1>0, <1>11, <2>1, <2>2, <3>1 DEF Put, FirstAhead, Running
    <3>. QED
      BY <2>3, <3>2, <3>3, <3>4 DEF IInv
  <2>. QED
    BY <2>4, <2>5
<1>12. CASE PutAfterDestruction
  <2>1. TypeOK' /\ ClientLives'
    BY <1>0, <1>12 DEF PutAfterDestruction, TypeOK, ClientLives, Running
  <2>2. relay \in {"returned", "threw"} /\ Counted' /\ FirstAhead'
    BY <1>0, <1>12 DEF PutAfterDestruction, TypeOK, ClientLives, Counted, FirstAhead, Running
  <2>3. Outcome'
    BY <1>0, <1>12, <2>2 DEF PutAfterDestruction, IInv, FirstReplyReturned, SecondHeld,
       OneReplyIsSafe
  <2>. QED
    BY <2>1, <2>2, <2>3 DEF IInv
<1>13. CASE EndReceive
  <2>1. TypeOK' /\ ClientLives'
    BY <1>0, <1>13 DEF EndReceive, TypeOK, ClientLives, Running
  <2>2. Counted' /\ FirstAhead' /\ Outcome'
    BY <1>0, <1>13 DEF EndReceive, Counted, Held, FirstAhead, Running, IInv,
       FirstReplyReturned, SecondHeld, OneReplyIsSafe
  <2>. QED
    BY <2>1, <2>2 DEF IInv
<1>14. CASE UNCHANGED vars
  <2>1. TypeOK' /\ ClientLives'
    BY <1>0, <1>14 DEF vars, TypeOK, ClientLives, Running
  <2>2. Counted' /\ FirstAhead' /\ Outcome'
    BY <1>0, <1>14 DEF vars, Counted, Held, FirstAhead, Running, IInv, FirstReplyReturned,
       SecondHeld, OneReplyIsSafe
  <2>. QED
    BY <2>1, <2>2 DEF IInv
<1>. QED
  BY <1>1, <1>2, <1>3, <1>4, <1>6, <1>7, <1>8, <1>9, <1>10, <1>11, <1>12, <1>13, <1>14
     DEF Next, Step, receive_work_

-----------------------------------------------------------------------------
(* The state of a query is well typed for any set of datagrams. *)
THEOREM TypeCorrect == Spec => []TypeOK
<1>1. IInv => TypeOK
  BY DEF IInv
<1>. QED
  BY <1>1, InitIInv, StepIInv, PTL DEF Spec

(* Whichever way it takes, and whatever else arrives, relay() returns the  *)
(* first datagram that reached the socket.                                 *)
THEOREM ReturnsFirst == Spec => []FirstReplyReturned
<1>1. IInv => FirstReplyReturned
  BY DEF IInv
<1>. QED
  BY <1>1, InitIInv, StepIInv, PTL DEF Spec

(* receive_work_ uses a destroyed client only after a second datagram, or  *)
(* a send that failed.                                                     *)
THEOREM SafeWithOneReply == Spec => []OneReplyIsSafe
<1>1. IInv => OneReplyIsSafe
  BY DEF IInv
<1>. QED
  BY <1>1, InitIInv, StepIInv, PTL DEF Spec

(* Until relay() is over every datagram that arrived is still held. *)
THEOREM NoDatagramLost == Spec => []Counted
<1>1. IInv => Counted
  BY DEF IInv
<1>. QED
  BY <1>1, InitIInv, StepIInv, PTL DEF Spec

-----------------------------------------------------------------------------
(* Where the labels of a name are: b[i] characters before label i, a dot   *)
(* after every label but the last, and at most one after that.             *)
Segments(b, name, labels) ==
  LET n == Len(labels)
      end == b[n] + Len(labels[n])
  IN  /\ b \in [1 .. n -> Nat] /\ b[1] = 0
      /\ \A i \in 1 .. n - 1 : b[i + 1] = b[i] + Len(labels[i]) + 1 /\ name[b[i + 1]] = Dot
      /\ \A i \in 1 .. n : b[i] + Len(labels[i]) <= Len(name)
      /\ \A i \in 1 .. n : \A k \in 1 .. Len(labels[i]) : name[b[i] + k] = labels[i][k]
      /\ \/ end = Len(name) /\ labels[n] # <<>>
         \/ end + 1 = Len(name) /\ name[end + 1] = Dot

(* A name with this layout has these labels.                               *)
LEMMA LabelsAre ==
  ASSUME NEW name \in Seq(Nat), NEW labels \in Seq(Seq(Nat)), labels # <<>>,
         \A i \in 1 .. Len(labels) : Dot \notin Range(labels[i]),
         NEW b, Segments(b, name, labels)
  PROVE  LabelsOf(name) = labels
<1> DEFINE L == Len(name)
           n == Len(labels)
           V == Seq(Seq(Nat))
           dots(start) == {i \in start .. L - 1 : name[i + 1] = Dot}
           end(start) == CHOOSE i \in dots(start) : \A j \in dots(start) : i <= j
           Def(h, start) == IF start = L THEN <<>>
                            ELSE IF dots(start) = {} THEN <<SubSeq(name, start + 1, L)>>
                            ELSE <<SubSeq(name, start + 1, end(start))>> \o h[end(start) + 1]
           Rec(h) == h = [start \in 0 .. L |-> Def(h, start)]
           from == CHOOSE h : Rec(h)
<1>1. L \in Nat /\ n \in Nat \ {0}
  BY EmptySeq, LenProperties
<1>2. ASSUME NEW start \in 0 .. L, dots(start) # {}
      PROVE  /\ end(start) \in start .. L - 1 /\ name[end(start) + 1] = Dot
             /\ \A j \in start .. end(start) - 1 : name[j + 1] # Dot
  <2> DEFINE D == dots(start)
             e == end(start)
  <2>1. D \in SUBSET Nat /\ \A j : j \in D <=> j \in start .. L - 1 /\ name[j + 1] = Dot
    OBVIOUS
  <2>2. e \in D /\ \A j \in D : e <= j
    <3> HIDE DEF D
    <3>. QED
      BY <1>2, <2>1, FirstIs DEF D
  <2> HIDE DEF D, e
  <2>3. e \in start .. L - 1 /\ name[e + 1] = Dot
    BY <2>1, <2>2
  <2>4. ASSUME NEW j \in start .. e - 1 PROVE name[j + 1] # Dot
    <3>1. j \in start .. L - 1 /\ ~(e <= j)
      BY <1>1, <2>3
    <3>. QED
      BY <2>1, <2>2, <3>1
  <2>. QED
    BY <2>3, <2>4 DEF e
<1>3. ASSUME NEW a \in 0 .. L, NEW c \in 0 .. L PROVE SubSeq(name, a + 1, c) \in Seq(Nat)
  <2>1. CASE a + 1 <= c
    <3>1. \A i \in a + 1 .. c : name[i] \in Nat
      BY <1>1, ElementOfSeq
    <3>. QED
      BY <3>1, SubSeqProperties
  <2>2. CASE ~(a + 1 <= c)
    <3>1. a + 1 > c
      BY <2>2
    <3>2. SubSeq(name, a + 1, c) = <<>>
      BY <3>1, SubSeqEmpty
    <3>. QED
      BY <3>2, EmptySeq
  <2>. QED
    BY <2>1, <2>2
<1>4. \E h : Rec(h)
  <2> DEFINE S == 0 .. L
             m == [x \in S |-> L - x]
             F == [x \in S |-> [h \in [S -> V] |-> Def(h, x)]]
  <2>1. m \in [S -> Nat] /\ \A x \in S : m[x] <= L
    BY <1>1
  <2>2. ASSUME NEW x \in S, NEW h \in [S -> V] PROVE Def(h, x) \in V
    <3>1. CASE x = L
      BY <3>1, EmptySeq
    <3>2. CASE x # L /\ dots(x) = {}
      <4>1. SubSeq(name, x + 1, L) \in Seq(Nat)
        BY <1>1, <1>3
      <4>2. <<SubSeq(name, x + 1, L)>> \in V
        <5> DEFINE one == SubSeq(name, x + 1, L)
        <5> HIDE DEF one
        <5>1. one \in Seq(Nat)
          BY <4>1 DEF one
        <5>2. <<one>> \in V
          BY <5>1
        <5>. QED
          BY <5>2 DEF one
      <4>. QED
        BY <3>2, <4>2
    <3>3. CASE x # L /\ dots(x) # {}
      <4> DEFINE e == end(x)
                 one == SubSeq(name, x + 1, e)
      <4>1. e \in x .. L - 1
        BY <1>2, <3>3
      <4> HIDE DEF e
      <4>2. e \in 0 .. L /\ e + 1 \in S
        BY <1>1, <4>1
      <4>3. one \in Seq(Nat) /\ h[e + 1] \in V
        BY <1>3, <4>2
      <4> HIDE DEF one
      <4>4. <<one>> \in V
        BY <4>3
      <4>5. <<one>> \o h[e + 1] \in V
        BY <4>3, <4>4, ConcatProperties
      <4>. QED
        BY <3>3, <4>5 DEF one, e
    <3>. QED
      BY <3>1, <3>2, <3>3
  <2>3. \A x \in S : \A h \in [S -> V] : F[x][h] = Def(h, x)
    OBVIOUS
  <2>4. ASSUME NEW x \in S, NEW f \in [S -> V], NEW g \in [S -> V],
               \A y \in S : m[y] < m[x] => f[y] = g[y]
        PROVE  Def(f, x) = Def(g, x)
    <3>1. CASE x # L /\ dots(x) # {}
      <4>1. end(x) \in x .. L - 1
        BY <1>2, <3>1
      <4>2. end(x) + 1 \in S /\ m[end(x) + 1] < m[x]
        BY <1>1, <4>1
      <4>3. f[end(x) + 1] = g[end(x) + 1]
        BY <2>4, <4>2
      <4>. QED
        BY <4>3
    <3>. QED
      BY <3>1
  <2>5. F \in [S -> [[S -> V] -> V]]
    <3> HIDE DEF Def
    <3>. QED
      BY <2>2
  <2>6. V # {}
    BY EmptySeq
  <2> HIDE DEF F, m, V, Def, S
  <2>7. ASSUME NEW x \in S, NEW f \in [S -> V], NEW g \in [S -> V],
               \A y \in S : m[y] < m[x] => f[y] = g[y]
        PROVE  F[x][f] = F[x][g]
    <3>1. Def(f, x) = Def(g, x)
      BY <2>4, <2>7
    <3>. QED
      BY <2>3, <3>1
  <2>8. Recursive(S, V, m, L, F)
    BY <1>1, <2>1, <2>5, <2>6, <2>7 DEF Recursive
  <2>9. PICK h \in [S -> V] : \A x \in S : h[x] = F[x][h]
    <3>1. Solvable(S, V, F)
      BY <2>8, Recursion
    <3>. QED
      BY <3>1 DEF Solvable
  <2>10. \A x \in S : h[x] = Def(h, x)
    BY <2>3, <2>9
  <2>. QED
    BY <2>10 DEF S
<1>5. Rec(from)
  BY <1>4
<1>6. LabelsOf(name) = from[0]
  BY DEF LabelsOf
<1> HIDE DEF from
<1>7. \A start \in 0 .. L : from[start] = Def(from, start)
  BY <1>5
<1> HIDE DEF Rec, Def, from
(* At the start of a label the rest are read. *)
<1>8. /\ b \in [1 .. n -> Nat] /\ b[1] = 0
      /\ \A i \in 1 .. n - 1 : b[i + 1] = b[i] + Len(labels[i]) + 1 /\ name[b[i + 1]] = Dot
      /\ \A i \in 1 .. n : b[i] + Len(labels[i]) <= L
      /\ \A i \in 1 .. n : \A k \in 1 .. Len(labels[i]) : name[b[i] + k] = labels[i][k]
      /\ \/ b[n] + Len(labels[n]) = L /\ labels[n] # <<>>
         \/ b[n] + Len(labels[n]) + 1 = L /\ name[b[n] + Len(labels[n]) + 1] = Dot
  BY DEF Segments
<1>9. \A i \in 1 .. n : b[i] \in Nat /\ labels[i] \in Seq(Nat) /\ Len(labels[i]) \in Nat
  BY <1>8, ElementOfSeq, LenProperties
<1> HIDE DEF L, n
<1>10. ASSUME NEW i \in 1 .. n
       PROVE  /\ b[i] \in 0 .. L
              /\ \A j \in b[i] .. b[i] + Len(labels[i]) - 1 : name[j + 1] # Dot
              /\ SubSeq(name, b[i] + 1, b[i] + Len(labels[i])) = labels[i]
  <2> DEFINE a == b[i]
             l == labels[i]
             m == Len(l)
  <2>1. a \in Nat /\ l \in Seq(Nat) /\ m \in Nat /\ a + m <= L /\ a \in 0 .. L
        /\ (\A k \in 1 .. m : name[a + k] = l[k]) /\ DOMAIN l = 1 .. m
    <3>1. a \in Nat /\ l \in Seq(Nat) /\ m \in Nat /\ a + m <= L
      BY <1>8, <1>9
    <3>2. a \in 0 .. L
      BY <1>1, <3>1
    <3>3. \A k \in 1 .. m : name[a + k] = l[k]
      BY <1>8
    <3>4. DOMAIN l = 1 .. m
      BY <3>1, LenProperties
    <3>. QED
      BY <3>1, <3>2, <3>3, <3>4
  <2>2. \A k \in 1 .. m : l[k] # Dot
    BY <2>1 DEF Range, n
  <2> HIDE DEF a, l, m
  <2>3. ASSUME NEW j \in a .. a + m - 1 PROVE name[j + 1] # Dot
    <3>1. j - a + 1 \in 1 .. m /\ a + (j - a + 1) = j + 1
      BY <2>1, SMTT(60)
    <3>. QED
      BY <2>1, <2>2, <3>1
  <2>4. SubSeq(name, a + 1, a + m) = l
    BY <2>1, Slice DEF L, m
  <2>. QED
    BY <2>1, <2>3, <2>4 DEF a, l, m
<1>11. ASSUME NEW i \in 1 .. n, NEW e \in 0 .. L - 1, e = b[i] + Len(labels[i]), name[e + 1] = Dot
       PROVE  from[b[i]] = <<labels[i]>> \o from[e + 1]
  <2> DEFINE a == b[i]
             m == Len(labels[i])
  <2>0. /\ a \in 0 .. L /\ m \in Nat /\ e = a + m
        /\ \A j \in a .. a + m - 1 : name[j + 1] # Dot
        /\ SubSeq(name, a + 1, a + m) = labels[i]
    BY <1>9, <1>10, <1>11
  <2> HIDE DEF a, m
  <2>1. a \in 0 .. L /\ (\A j \in a .. e - 1 : name[j + 1] # Dot) /\ a <= e
        /\ SubSeq(name, a + 1, e) = labels[i]
    <3>1. a <= e
      BY <1>1, <2>0
    <3>. QED
      BY <2>0, <3>1
  <2> HIDE DEF a
  <2>2. e \in dots(a) /\ a # L
    BY <1>1, <1>11, <2>1
  <2>3. dots(a) # {}
    BY <2>2
  <2>4. end(a) = e
    <3> DEFINE x == end(a)
    <3>1. x \in a .. L - 1 /\ name[x + 1] = Dot /\ \A j \in a .. x - 1 : name[j + 1] # Dot
      BY <1>2, <2>1, <2>3
    <3> HIDE DEF x
    <3>2. a \in Nat /\ e \in Nat /\ x \in Nat /\ a <= e
      BY <1>1, <2>1, <3>1
    <3>3. ~(x < e)
      <4>1. x < e => x \in a .. e - 1
        BY <3>1, <3>2
      <4>. QED
        BY <2>1, <3>1, <4>1
    <3>4. ~(e < x)
      <4>1. e < x => e \in a .. x - 1
        BY <3>2
      <4>. QED
        BY <1>11, <3>1, <4>1
    <3>5. x = e
      BY <3>2, <3>3, <3>4
    <3>. QED
      BY <3>5 DEF x
  <2> HIDE DEF dots, end
  <2>. QED
    BY <1>7, <2>1, <2>2, <2>3, <2>4 DEF Def, a
<1>12. from[L] = <<>>
  <2>1. L \in 0 .. L
    BY <1>1
  <2>2. from[L] = Def(from, L)
    BY <1>7, <2>1
  <2>. QED
    BY <2>2 DEF Def
<1>13. ASSUME b[n] + Len(labels[n]) = L, labels[n] # <<>>
       PROVE  from[b[n]] = <<labels[n]>>
  <2> DEFINE a == b[n]
  <2>1. n \in 1 .. n /\ a + Len(labels[n]) = L /\ a \in Nat /\ a \in 0 .. L
        /\ Len(labels[n]) \in Nat /\ labels[n] \in Seq(Nat)
    BY <1>1, <1>9, <1>10, <1>13
  <2>2. (\A j \in a .. L - 1 : name[j + 1] # Dot) /\ SubSeq(name, a + 1, L) = labels[n]
    <3> DEFINE m == Len(labels[n])
    <3>1. SubSeq(name, a + 1, a + m) = labels[n]
      BY <1>10, <2>1
    <3>2. \A j \in a .. a + m - 1 : name[j + 1] # Dot
      BY <1>10, <2>1
    <3>3. a + m = L /\ a \in Nat /\ m \in Nat
      BY <1>13, <2>1
    <3> HIDE DEF a, m
    <3>4. a + m - 1 = L - 1
      BY <1>1, <3>3
    <3>5. SubSeq(name, a + 1, L) = labels[n]
      BY <3>1, <3>3
    <3>6. \A j \in a .. L - 1 : name[j + 1] # Dot
      BY <3>2, <3>4
    <3>. QED
      BY <3>5, <3>6
  <2>3. a # L
    <3>1. Len(labels[n]) # 0
      BY <1>13, <2>1, EmptySeq
    <3>. QED
      BY <1>1, <2>1, <3>1
  <2> HIDE DEF a
  <2>4. dots(a) = {}
    BY <2>2
  <2> HIDE DEF dots, end
  <2>. QED
    BY <1>7, <2>1, <2>2, <2>3, <2>4 DEF Def, a
<1> HIDE DEF dots, end
(* From the last label to the first. *)
<1> DEFINE rest(i) == SubSeq(labels, i, n)
           P(d) == d < n => from[b[n - d]] = rest(n - d)
           G == {d \in Nat : P(d)}
<1>14. /\ rest(n) = <<labels[n]>> /\ rest(n) \in V /\ rest(1) = labels
       /\ \A i \in 1 .. n - 1 : rest(i) = <<labels[i]>> \o rest(i + 1)
  <2>1. /\ rest(1) = labels /\ rest(n + 1) = <<>>
        /\ \A i \in 1 .. n + 1 : rest(i) \in V
        /\ \A i \in 1 .. n : rest(i) = <<labels[i]>> \o rest(i + 1)
    BY Suffix DEF n
  <2>2. n \in 1 .. n /\ n \in 1 .. n + 1 /\ \A i \in 1 .. n - 1 : i \in 1 .. n
    BY <1>1
  <2>3. rest(n) = <<labels[n]>> \o <<>>
    BY <2>1, <2>2
  <2>4. <<labels[n]>> \in V
    BY <1>9, <2>2
  <2>5. <<labels[n]>> \o <<>> = <<labels[n]>>
    BY <2>4, ConcatEmptySeq
  <2>. QED
    BY <2>1, <2>2, <2>3, <2>5
<1>15. P(0)
  <2>1. n - 0 = n /\ n \in 1 .. n
    BY <1>1
  <2>2. CASE b[n] + Len(labels[n]) = L /\ labels[n] # <<>>
    BY <1>13, <1>14, <2>1, <2>2
  <2>3. CASE b[n] + Len(labels[n]) + 1 = L /\ name[b[n] + Len(labels[n]) + 1] = Dot
    <3> DEFINE e == b[n] + Len(labels[n])
    <3>4. e \in Nat
      BY <1>9, <2>1
    <3>5. e + 1 = L /\ name[e + 1] = Dot
      BY <2>3
    <3> HIDE DEF e
    <3>1. e \in 0 .. L - 1 /\ e + 1 = L /\ name[e + 1] = Dot
      BY <1>1, <3>4, <3>5
    <3>2. from[b[n]] = <<labels[n]>> \o from[e + 1]
      BY <1>11, <2>1, <3>1 DEF e
    <3>3. <<labels[n]>> \o <<>> = <<labels[n]>>
      BY <1>14, ConcatEmptySeq
    <3>. QED
      BY <1>12, <1>14, <2>1, <3>1, <3>2, <3>3
  <2>. QED
    BY <1>8, <2>2, <2>3
<1>16. ASSUME NEW d \in Nat, P(d) PROVE P(d + 1)
  <2> SUFFICES ASSUME d + 1 < n PROVE from[b[n - (d + 1)]] = rest(n - (d + 1))
    OBVIOUS
  <2> DEFINE i == n - (d + 1)
             e == b[i] + Len(labels[i])
  <2>1. i \in 1 .. n - 1 /\ i \in 1 .. n /\ i + 1 = n - d /\ i + 1 \in 1 .. n /\ d < n
    BY <1>1
  <2> HIDE DEF i
  <2>2. e + 1 = b[i + 1] /\ name[e + 1] = Dot /\ b[i + 1] \in 0 .. L /\ e \in Nat
    <3>1. b[i + 1] = b[i] + Len(labels[i]) + 1 /\ name[b[i + 1]] = Dot
      BY <1>8, <2>1
    <3>2. b[i] \in Nat /\ Len(labels[i]) \in Nat /\ b[i + 1] \in 0 .. L
      BY <1>9, <1>10, <2>1
    <3>3. e \in Nat
      BY <3>2
    <3> HIDE DEF i
    <3>4. e + 1 = b[i + 1]
      BY <3>1
    <3>. QED
      BY <3>1, <3>2, <3>3, <3>4
  <2> HIDE DEF e
  <2>3. e \in 0 .. L - 1
    BY <1>1, <2>2
  <2>4. from[b[i]] = <<labels[i]>> \o from[b[i + 1]]
    BY <1>11, <2>1, <2>2, <2>3 DEF e
  <2>5. from[b[i + 1]] = rest(i + 1)
    BY <1>16, <2>1
  <2>6. rest(i) = <<labels[i]>> \o rest(i + 1)
    BY <1>14, <2>1
  <2>7. from[b[i]] = rest(i)
    BY <2>4, <2>5, <2>6
  <2>. QED
    BY <2>7 DEF i
<1>17. P(n - 1)
  <2> HIDE DEF P
  <2>1. 0 \in G /\ \A d \in Nat : d \in G => d + 1 \in G
    BY <1>15, <1>16
  <2>2. Nat \subseteq G
    BY <2>1, SetInduction
  <2>. QED
    BY <1>1, <2>2
<1>18. from[b[1]] = rest(1)
  <2>1. n - 1 < n /\ n - (n - 1) = 1
    BY <1>1
  <2>. QED
    BY <1>17, <2>1
<1>. QED
  BY <1>6, <1>8, <1>14, <1>18

(* A name with dots has the layout, with a dot more at its end as well.    *)
LEMMA DottedSegments ==
  ASSUME NEW labels \in Seq(Seq(Nat)), labels # <<>>,
         NEW tail \in {<<>>, <<Dot>>}, tail # <<>> \/ labels[Len(labels)] # <<>>
  PROVE  \E b : /\ Segments(b, Dotted(labels) \o tail, labels)
                /\ tail = <<>> => b[Len(labels)] + Len(labels[Len(labels)])
                                    = Len(Dotted(labels) \o tail)
<1> DEFINE n == Len(labels)
           ss == [i \in 1 .. n |-> IF i = 1 THEN labels[i] ELSE <<Dot>> \o labels[i]]
           flat == FlattenSeq(ss)
           name == flat \o tail
<1>1. n \in Nat \ {0} /\ DOMAIN labels = 1 .. n
  BY EmptySeq, LenProperties
<1>2. \A i \in 1 .. n : labels[i] \in Seq(Nat) /\ Len(labels[i]) \in Nat
  BY ElementOfSeq, LenProperties
<1>3. Dotted(labels) = flat
  BY <1>1 DEF Dotted
<1>4. /\ <<Dot>> \in Seq(Nat) /\ Len(<<Dot>>) = 1 /\ <<Dot>>[1] = Dot
      /\ tail \in Seq(Nat)
  <2>1. Dot \in Nat
    BY DEF Dot
  <2>2. <<Dot>> \in Seq(Nat) /\ Len(<<Dot>>) = 1 /\ <<Dot>>[1] = Dot
    BY <2>1
  <2>. QED
    BY <2>2, EmptySeq
<1>5. ASSUME NEW i \in 1 .. n, i # 1
      PROVE  /\ ss[i] \in Seq(Nat) /\ Len(ss[i]) = Len(labels[i]) + 1 /\ ss[i][1] = Dot
             /\ \A k \in 1 .. Len(labels[i]) : ss[i][k + 1] = labels[i][k]
  <2> DEFINE l == labels[i]
             s == <<Dot>> \o l
  <2>1. l \in Seq(Nat) /\ Len(l) \in Nat /\ ss[i] = s
    BY <1>2, <1>5
  <2> HIDE DEF l
  <2>2. /\ s \in Seq(Nat) /\ Len(s) = 1 + Len(l)
        /\ \A k \in 1 .. 1 + Len(l) : s[k] = IF k <= 1 THEN <<Dot>>[k] ELSE l[k - 1]
    BY <1>4, <2>1, ConcatProperties
  <2> HIDE DEF s
  <2>3. s[1] = Dot /\ \A k \in 1 .. Len(l) : s[k + 1] = l[k]
    <3>1. 1 \in 1 .. 1 + Len(l)
      BY <2>1
    <3>2. ASSUME NEW k \in 1 .. Len(l) PROVE s[k + 1] = l[k]
      <4>1. k + 1 \in 1 .. 1 + Len(l) /\ ~(k + 1 <= 1) /\ (k + 1) - 1 = k
        BY <2>1
      <4>. QED
        BY <2>2, <4>1
    <3>. QED
      BY <1>4, <2>2, <3>1, <3>2
  <2>. QED
    BY <2>1, <2>2, <2>3 DEF l
<1>6. ss[1] = labels[1] /\ 1 \in 1 .. n
  BY <1>1
<1>7. ss \in Seq(Seq(Nat)) /\ Len(ss) = n
  <2>1. \A i \in 1 .. n : ss[i] \in Seq(Nat)
    BY <1>2, <1>5, <1>6
  <2>2. ss \in [1 .. n -> Seq(Nat)]
    BY <2>1
  <2>. QED
    BY <1>1, <2>1, <2>2
<1>8. PICK st : Offsets(st, ss)
  BY <1>7, FlattenOffsets
<1>9. flat \in Seq(Nat) /\ Len(flat) \in Nat
  BY <1>7, FlattenAppend, EmptySeq, LenProperties
<1> HIDE DEF ss
<1>10. /\ st \in [1 .. n + 1 -> Nat] /\ st[1] = 0 /\ st[n + 1] = Len(flat)
       /\ \A i \in 1 .. n : st[i + 1] = st[i] + Len(ss[i])
       /\ \A i \in 1 .. n : \A k \in 1 .. Len(ss[i]) : flat[st[i] + k] = ss[i][k]
       /\ \A i \in 1 .. n : st[i + 1] <= Len(flat)
  BY <1>7, <1>8 DEF Offsets
<1> HIDE DEF flat, n
<1>11. /\ name \in Seq(Nat) /\ Len(name) = Len(flat) + Len(tail)
       /\ \A k \in 1 .. Len(flat) : name[k] = flat[k]
       /\ \A k \in Len(flat) + 1 .. Len(flat) + Len(tail) : name[k] = tail[k - Len(flat)]
  <2>1. Len(tail) \in Nat
    BY <1>4, LenProperties
  <2>2. /\ name \in Seq(Nat) /\ Len(name) = Len(flat) + Len(tail)
        /\ \A k \in 1 .. Len(flat) + Len(tail) :
             name[k] = IF k <= Len(flat) THEN flat[k] ELSE tail[k - Len(flat)]
    BY <1>4, <1>9, ConcatProperties
  <2> DEFINE f == Len(flat)
             t == Len(tail)
  <2> HIDE DEF name, f, t
  <2>3. \A k \in 1 .. f : k \in 1 .. f + t /\ k <= f
    BY <1>9, <2>1 DEF f, t
  <2>4. \A k \in f + 1 .. f + t : k \in 1 .. f + t /\ ~(k <= f)
    BY <1>9, <2>1 DEF f, t
  <2>5. \A k \in 1 .. f : name[k] = flat[k]
    BY <2>2, <2>3 DEF f, t
  <2>6. \A k \in f + 1 .. f + t : name[k] = tail[k - f]
    BY <2>2, <2>4 DEF f, t
  <2>. QED
    BY <2>2, <2>5, <2>6 DEF f, t
<1> HIDE DEF name
<1> DEFINE b == [i \in 1 .. n |-> IF i = 1 THEN 0 ELSE st[i] + 1]
<1>12. \A i \in 1 .. n + 1 : st[i] \in Nat
  BY <1>10
<1>13. ASSUME NEW i \in 1 .. n
       PROVE  /\ b[i] \in Nat /\ b[i] + Len(labels[i]) = st[i + 1]
              /\ \A k \in 1 .. Len(labels[i]) : flat[b[i] + k] = labels[i][k]
  <2>1. CASE i = 1
    <3>1. b[i] = 0 /\ st[i] = 0 /\ st[i + 1] = st[i] + Len(ss[i]) /\ ss[i] = labels[i]
      BY <1>6, <1>10, <2>1
    <3>2. Len(labels[i]) \in Nat /\ \A k \in 1 .. Len(ss[i]) : flat[st[i] + k] = ss[i][k]
      BY <1>2, <1>10
    <3> HIDE DEF b
    <3>. QED
      BY <3>1, <3>2
  <2>2. CASE i # 1
    <3> DEFINE a == b[i]
    <3>8. a = st[i] + 1 /\ i \in 1 .. n + 1
      BY <1>1, <2>2
    <3>9. st[i + 1] = st[i] + Len(ss[i]) /\ Len(ss[i]) = Len(labels[i]) + 1
      BY <1>5, <1>10, <2>2
    <3> HIDE DEF a
    <3>1. a = st[i] + 1 /\ st[i + 1] = st[i] + (Len(labels[i]) + 1) /\ st[i] \in Nat
      BY <1>12, <3>8, <3>9
    <3> USE DEF a
    <3> HIDE DEF a
    <3> DEFINE c == Len(labels[i])
               s == st[i]
    <3>4. a = s + 1 /\ st[i + 1] = s + (c + 1) /\ s \in Nat /\ c \in Nat
      BY <1>2, <3>1
    <3>5. \A k \in 1 .. c : ss[i][k + 1] = labels[i][k]
      BY <1>5, <2>2
    <3>6. Len(ss[i]) = c + 1
      BY <1>5, <2>2
    <3>7. \A k \in 1 .. Len(ss[i]) : flat[s + k] = ss[i][k]
      BY <1>10
    <3> HIDE DEF c, s
    <3>2. ASSUME NEW k \in 1 .. c PROVE flat[a + k] = labels[i][k]
      <4>1. k + 1 \in 1 .. Len(ss[i]) /\ a + k = s + (k + 1)
        BY <3>4, <3>6
      <4>. QED
        BY <3>5, <3>7, <4>1
    <3>3. a \in Nat /\ a + c = st[i + 1]
      BY <3>4
    <3>. QED
      BY <3>2, <3>3 DEF a, c
  <2>. QED
    BY <2>1, <2>2
<1>14. \A i \in 1 .. n - 1 : b[i + 1] = st[i + 1] + 1
  BY <1>1
<1>15. b[1] = 0 /\ b \in [1 .. n -> Nat]
  BY <1>6, <1>13
<1> HIDE DEF b
<1>16. ASSUME NEW i \in 1 .. n - 1
       PROVE  b[i + 1] = b[i] + Len(labels[i]) + 1 /\ name[b[i + 1]] = Dot
  <2>1. i \in 1 .. n /\ i + 1 \in 1 .. n /\ i + 1 # 1 /\ i + 1 \in 1 .. n + 1 /\ i + 1 + 1 = i + 2
    BY <1>1
  <2>2. b[i] \in Nat /\ b[i] + Len(labels[i]) = st[i + 1] /\ b[i + 1] = st[i + 1] + 1
        /\ st[i + 1] \in Nat
    BY <1>12, <1>13, <1>14, <2>1
  <2>3. Len(ss[i + 1]) = Len(labels[i + 1]) + 1 /\ ss[i + 1][1] = Dot /\ Len(labels[i + 1]) \in Nat
    BY <1>2, <1>5, <2>1
  <2>4. 1 \in 1 .. Len(ss[i + 1])
    BY <2>3
  <2>5. flat[st[i + 1] + 1] = Dot
    BY <1>10, <2>1, <2>3, <2>4
  <2>6. st[i + 1] + 1 <= Len(flat)
    <3> DEFINE j == i + 1
    <3>1. j \in 1 .. n /\ st[j] \in Nat /\ Len(ss[j]) = Len(labels[j]) + 1 /\ Len(labels[j]) \in Nat
      BY <2>1, <2>2, <2>3
    <3> HIDE DEF j
    <3>2. st[j + 1] = st[j] + Len(ss[j]) /\ st[j + 1] <= Len(flat)
      BY <1>10, <3>1
    <3>3. st[j] + 1 <= Len(flat)
      BY <1>9, <3>1, <3>2
    <3>. QED
      BY <3>3 DEF j
  <2>7. st[i + 1] + 1 \in 1 .. Len(flat)
    <3> DEFINE u == st[i + 1]
    <3>1. u \in Nat /\ u + 1 <= Len(flat)
      BY <2>2, <2>6
    <3> HIDE DEF u
    <3>2. u + 1 \in 1 .. Len(flat)
      BY <1>9, <3>1
    <3>. QED
      BY <3>2 DEF u
  <2>8. name[st[i + 1] + 1] = Dot
    BY <1>11, <2>5, <2>7
  <2>. QED
    BY <1>2, <2>1, <2>2, <2>8
<1>17. ASSUME NEW i \in 1 .. n
       PROVE  /\ b[i] + Len(labels[i]) <= Len(name)
              /\ \A k \in 1 .. Len(labels[i]) : name[b[i] + k] = labels[i][k]
  <2>1. st[i + 1] <= Len(flat) /\ b[i] \in Nat /\ Len(labels[i]) \in Nat
        /\ b[i] + Len(labels[i]) = st[i + 1]
    BY <1>2, <1>10, <1>13
  <2>2. Len(tail) \in Nat
    BY <1>4, LenProperties
  <2>3. \A k \in 1 .. Len(labels[i]) : flat[b[i] + k] = labels[i][k]
    BY <1>13
  <2> DEFINE c == Len(labels[i])
             a == b[i]
             f == Len(flat)
  <2>4. a \in Nat /\ c \in Nat /\ f \in Nat /\ a + c <= f
    BY <1>9, <2>1
  <2> HIDE DEF a, c, f
  <2>5. \A k \in 1 .. c : a + k \in 1 .. f
    BY <2>4
  <2>6. \A k \in 1 .. c : name[a + k] = labels[i][k]
    BY <1>11, <2>3, <2>5 DEF a, c, f
  <2>7. a + c <= Len(name)
    BY <1>11, <2>2, <2>4 DEF f
  <2>. QED
    BY <2>6, <2>7 DEF a, c
<1>18. /\ \/ b[n] + Len(labels[n]) = Len(name) /\ labels[n] # <<>>
          \/ b[n] + Len(labels[n]) + 1 = Len(name) /\ name[b[n] + Len(labels[n]) + 1] = Dot
       /\ tail = <<>> => b[n] + Len(labels[n]) = Len(name)
  <2>1. b[n] + Len(labels[n]) = Len(flat)
    <3>1. n \in 1 .. n
      BY <1>1
    <3>. QED
      BY <1>10, <1>13, <3>1
  <2>2. CASE tail = <<>>
    <3>1. Len(tail) = 0 /\ labels[n] # <<>>
      BY <2>2, EmptySeq DEF n
    <3>. QED
      BY <1>9, <1>11, <2>1, <2>2, <3>1
  <2>3. CASE tail = <<Dot>>
    <3>1. Len(tail) = 1 /\ tail[1] = Dot
      BY <2>3, <1>4
    <3>2. Len(flat) + 1 \in Len(flat) + 1 .. Len(flat) + Len(tail) /\ Len(flat) + 1 - Len(flat) = 1
      BY <1>9, <3>1
    <3>3. name[Len(flat) + 1] = Dot
      BY <1>11, <3>1, <3>2
    <3>4. tail # <<>>
      <4>1. Len(<<>>) = 0 /\ 1 # 0
        BY EmptySeq
      <4>. QED
        BY <3>1, <4>1, Zenon
    <3>. QED
      BY <1>11, <2>1, <3>1, <3>3, <3>4
  <2>. QED
    BY <2>2, <2>3
<1>19. Segments(b, name, labels)
  BY <1>15, <1>16, <1>17, <1>18 DEF Segments, n
<1>. QED
  BY <1>3, <1>18, <1>19 DEF name, n

-----------------------------------------------------------------------------
(* A name on the wire is made of bytes, and so is a name with dots. *)
LEMMA WireType ==
  ASSUME NEW labels \in Seq(Seq(Nat))
  PROVE  /\ WireName(labels) \in Seq(Nat) /\ WireName(labels) # Throws
         /\ Dotted(labels) \in Seq(Nat) /\ Dotted(labels) # Throws
<1> DEFINE n == Len(labels)
           pp == [i \in 1 .. n |-> <<Len(labels[i])>> \o labels[i]]
           ss == [i \in 1 .. n |-> IF i = 1 THEN labels[i] ELSE <<Dot>> \o labels[i]]
<1>1. n \in Nat /\ DOMAIN labels = 1 .. n
  BY LenProperties
<1>2. \A i \in 1 .. n : labels[i] \in Seq(Nat) /\ Len(labels[i]) \in Nat
  BY ElementOfSeq, LenProperties
<1>3. \A i \in 1 .. n : pp[i] \in Seq(Nat)
  <2>1. \A i \in 1 .. n : <<Len(labels[i])>> \in Seq(Nat)
    BY <1>2
  <2>. QED
    BY <1>2, <2>1, ConcatProperties
<1>4. \A i \in 1 .. n : ss[i] \in Seq(Nat)
  <2>1. <<Dot>> \in Seq(Nat)
    BY DEF Dot
  <2>. QED
    BY <1>2, <2>1, ConcatProperties
<1>5. pp \in Seq(Seq(Nat))
  <2>1. pp \in [1 .. n -> Seq(Nat)]
    BY <1>3
  <2>. QED
    BY <1>1, <1>3, <2>1
<1>6. ss \in Seq(Seq(Nat))
  <2>1. ss \in [1 .. n -> Seq(Nat)]
    BY <1>4
  <2>. QED
    BY <1>1, <1>4, <2>1
<1>7. WireName(labels) = FlattenSeq(pp) \o <<0>> /\ Dotted(labels) = FlattenSeq(ss)
  BY <1>1 DEF WireName, Labels, ShortField, Dotted
<1> HIDE DEF pp, ss
<1>8. FlattenSeq(pp) \in Seq(Nat) /\ FlattenSeq(ss) \in Seq(Nat)
  BY <1>5, <1>6, FlattenAppend, EmptySeq
<1>9. <<0>> \in Seq(Nat)
  OBVIOUS
<1>10. WireName(labels) \in Seq(Nat) /\ Dotted(labels) \in Seq(Nat)
  BY <1>7, <1>8, <1>9, ConcatProperties
<1>. QED
  BY <1>10, ThrowsAssumption

(* What a name of these labels is on the wire, once a dot is dropped.      *)
Fits(domain, labels) == Len(domain) <= 255 /\ \A i \in DOMAIN labels : Len(labels[i]) \in 1 .. 63

(* Where LabelsOf has been settled, encodeQname does what the limits say.  *)
LEMMA Encodes ==
  ASSUME NEW domain \in Seq(Nat), NEW name \in Seq(Nat), name # <<>>,
         name = IF domain # <<>> /\ Last(domain) = Dot THEN Front(domain) ELSE domain,
         NEW labels \in Seq(Seq(Nat)), LabelsOf(name) = labels
  PROVE  encodeQname(domain) = IF Fits(domain, labels) THEN WireName(labels) ELSE Throws
<1>1. encodeQname(domain) =
        IF Len(domain) > 255 \/ \E i \in DOMAIN labels : ~LabelFits(labels[i]) THEN Throws
        ELSE WireName(labels)
  BY DEF encodeQname, WireName, Labels, ShortField
<1>2. Len(domain) \in Nat
  BY LenProperties
<1>3. Fits(domain, labels) <=>
        ~(Len(domain) > 255 \/ \E i \in DOMAIN labels : ~LabelFits(labels[i]))
  BY <1>2 DEF Fits, LabelFits
<1>. QED
  BY <1>1, <1>3

(* Dropping a dot. *)
LEMMA DropsDot ==
  ASSUME NEW name \in Seq(Nat)
  PROVE  LET d == name \o <<Dot>>
         IN  d \in Seq(Nat) /\ d # <<>> /\ Last(d) = Dot /\ Front(d) = name
<1> DEFINE d == name \o <<Dot>>
           n == Len(name)
<1>1. n \in Nat /\ <<Dot>> \in Seq(Nat) /\ Len(<<Dot>>) = 1 /\ <<Dot>>[1] = Dot
  <2>1. Dot \in Nat
    BY DEF Dot
  <2>. QED
    BY <2>1, LenProperties
<1>2. /\ d \in Seq(Nat) /\ Len(d) = n + 1
      /\ \A i \in 1 .. n + 1 : d[i] = IF i <= n THEN name[i] ELSE <<Dot>>[i - n]
  BY <1>1, ConcatProperties
<1> HIDE DEF d, n
<1>3. d[n + 1] = Dot /\ \A i \in 1 .. n : d[i] = name[i]
  <2>1. n + 1 \in 1 .. n + 1 /\ ~(n + 1 <= n) /\ (n + 1) - n = 1
        /\ \A i \in 1 .. n : i \in 1 .. n + 1 /\ i <= n
    BY <1>1
  <2>. QED
    BY <1>1, <1>2, <2>1
<1>4. d # <<>>
  BY <1>1, <1>2, EmptySeq
<1>5. Last(d) = Dot
  BY <1>2, <1>3 DEF Last
<1>6. Front(d) = SubSeq(d, 1, n)
  BY <1>1, <1>2 DEF Front
<1>7. SubSeq(d, 1, n) = name
  <2> DEFINE x == SubSeq(d, 1, n)
  <2>1. \A i \in 1 .. n : d[i] \in Nat
    BY <1>3, ElementOfSeq DEF n
  <2>2. x \in Seq(Nat) /\ Len(x) = (IF 1 <= n THEN n - 1 + 1 ELSE 0)
        /\ \A i \in 1 .. n - 1 + 1 : x[i] = d[1 + i - 1]
    BY <1>1, <2>1, SubSeqProperties
  <2> HIDE DEF x
  <2>3. Len(x) = n
    BY <1>1, <2>2
  <2>4. \A i \in 1 .. n : x[i] = name[i]
    <3>1. ASSUME NEW i \in 1 .. n PROVE x[i] = name[i]
      <4>1. i \in 1 .. n - 1 + 1 /\ 1 + i - 1 = i
        BY <1>1
      <4>. QED
        BY <1>3, <2>2, <4>1
    <3>. QED
      BY <3>1
  <2>5. x = name
    BY <2>2, <2>3, <2>4, SeqEqual DEF n
  <2>. QED
    BY <2>5 DEF x
<1>. QED
  BY <1>2, <1>4, <1>5, <1>6, <1>7 DEF d

(* A name that ends in a label does not end in a dot. *)
LEMMA EndsInLabel ==
  ASSUME NEW labels \in Seq(Seq(Nat)), labels # <<>>, labels[Len(labels)] # <<>>,
         \A i \in 1 .. Len(labels) : Dot \notin Range(labels[i])
  PROVE  LET d == Dotted(labels) IN d # <<>> /\ Last(d) # Dot /\ LabelsOf(d) = labels
<1> DEFINE d == Dotted(labels)
           n == Len(labels)
           l == labels[n]
<1>1. d \in Seq(Nat) /\ Len(d) \in Nat /\ d \o <<>> = d
  BY WireType, LenProperties, ConcatEmptySeq
<1>2. n \in Nat \ {0} /\ n \in 1 .. n
  BY EmptySeq
<1>3. l \in Seq(Nat) /\ Len(l) \in Nat \ {0} /\ DOMAIN l = 1 .. Len(l)
  BY <1>2, ElementOfSeq, EmptySeq, LenProperties
<1>4. PICK b : Segments(b, d, labels) /\ b[n] + Len(labels[n]) = Len(d)
  <2>1. PICK b : Segments(b, d \o <<>>, labels) /\ b[n] + Len(labels[n]) = Len(d \o <<>>)
    BY DottedSegments
  <2>. QED
    BY <1>1, <2>1
<1>5. LabelsOf(d) = labels
  BY <1>1, <1>4, LabelsAre
<1>6. l[Len(l)] # Dot
  <2>1. Len(l) \in DOMAIN l /\ Dot \notin Range(l)
    BY <1>2, <1>3
  <2>. QED
    BY <2>1 DEF Range
<1>7. /\ b[n] \in Nat /\ b[n] + Len(l) = Len(d)
      /\ \A k \in 1 .. Len(l) : d[b[n] + k] = l[k]
  BY <1>2, <1>4 DEF Segments
<1> HIDE DEF d, n, l
<1>8. Len(l) \in 1 .. Len(l) /\ Len(d) # 0
  <2> DEFINE k == Len(l)
             e == Len(d)
             q == b[n]
  <2>1. k \in Nat \ {0} /\ q \in Nat /\ q + k = e
    BY <1>3, <1>7
  <2> HIDE DEF k, e, q
  <2>2. k \in 1 .. k /\ e # 0
    BY <2>1
  <2>. QED
    BY <2>2 DEF k, e
<1>9. d[Len(d)] # Dot
  BY <1>6, <1>7, <1>8
<1>10. d # <<>>
  BY <1>8, EmptySeq
<1>. QED
  BY <1>5, <1>9, <1>10 DEF Last, d

(* A dot alone is one label with nothing in it. *)
LEMMA DotAlone ==
  LET none == << <<>> >>
  IN  none \in Seq(Seq(Nat)) /\ Len(none) = 1 /\ none[1] = <<>> /\ LabelsOf(<<Dot>>) = none
<1> DEFINE none == << <<>> >>
           b == [i \in 1 .. 1 |-> 0]
           e == <<>>
           name == <<Dot>>
<1>1. e \in Seq(Nat) /\ Len(e) = 0 /\ Range(e) = {}
  BY EmptySeq DEF Range
<1>2. name \in Seq(Nat) /\ Len(name) = 1 /\ name[1] = Dot
  <2>1. Dot \in Nat
    BY DEF Dot
  <2>. QED
    BY <2>1
<1> HIDE DEF e
<1>3. <<e>> \in Seq(Seq(Nat)) /\ Len(<<e>>) = 1 /\ <<e>>[1] = e
  BY <1>1
<1> DEFINE one == <<e>>
<1>4. one \in Seq(Seq(Nat)) /\ Len(one) = 1 /\ one[1] = e
  BY <1>3
<1> HIDE DEF one, name
<1>5. one # <<>>
  <2>1. Len(<<>>) = 0 /\ 1 # 0
    BY EmptySeq
  <2>. QED
    BY <1>4, <2>1, Zenon
<1>6. \A i \in 1 .. Len(one) : Dot \notin Range(one[i])
  BY <1>1, <1>4
<1>7. Segments(b, name, one)
  BY <1>1, <1>2, <1>4 DEF Segments
<1> HIDE DEF b
<1>8. LabelsOf(name) = one
  BY <1>2, <1>4, <1>5, <1>6, <1>7, LabelsAre
<1>. QED
  BY <1>4, <1>8 DEF one, name, e

(* What encodeQname makes of the name that is asked for.                   *)
LEMMA NamedByLabels ==
  ASSUME NEW ask, Asks(ask), ask.caller = "resolve"
  PROVE  encodeQname(ask.domain) = IF ask.valid THEN WireName(ask.labels) ELSE Throws
<1> DEFINE labels == ask.labels
           domain == ask.domain
           n == Len(labels)
           d == Dotted(labels)
<1>1. /\ labels \in Seq(Seq(Nat))
      /\ \A i \in DOMAIN labels : Dot \notin Range(labels[i])
      /\ \E dots \in {<<>>, <<Dot>>, <<Dot, Dot>>} :
           /\ domain = d \o dots
           /\ dots # <<Dot, Dot>> => labels = <<>> \/ Last(labels) # <<>>
      /\ ask.valid <=> labels # <<>> /\ Fits(domain, labels)
  BY DEF Asks, Fits
<1>2. /\ n \in Nat /\ DOMAIN labels = 1 .. n /\ Last(labels) = labels[n]
      /\ d \in Seq(Nat) /\ d \o <<>> = d
      /\ <<>> \in Seq(Nat) /\ <<>> \o <<Dot>> = <<Dot>>
  <2>1. Dot \in Nat
    BY DEF Dot
  <2>2. <<Dot>> \in Seq(Nat) /\ <<>> \in Seq(Nat)
    BY <2>1
  <2>. QED
    BY <1>1, <2>2, WireType, LenProperties, ConcatEmptySeq DEF Last
<1>3. \A i \in 1 .. n : Dot \notin Range(labels[i])
  BY <1>1, <1>2
<1>4. (d \o <<Dot>>) \o <<Dot>> = d \o <<Dot, Dot>>
  <2>1. Dot \in Nat
    BY DEF Dot
  <2> DEFINE x == <<Dot>>
             y == <<Dot, Dot>>
             z == x \o x
  <2>4. x \in Seq(Nat) /\ Len(x) = 1 /\ x[1] = Dot
        /\ y \in Seq(Nat) /\ Len(y) = 2 /\ y[1] = Dot /\ y[2] = Dot
    BY <2>1
  <2> HIDE DEF x, y
  <2>5. z \in Seq(Nat) /\ Len(z) = 2 /\ z[1] = Dot /\ z[2] = Dot
    <3>1. /\ z \in Seq(Nat) /\ Len(z) = Len(x) + Len(x)
          /\ \A i \in 1 .. Len(x) + Len(x) : z[i] = IF i <= Len(x) THEN x[i] ELSE x[i - Len(x)]
      BY <2>4, ConcatProperties
    <3> HIDE DEF z
    <3>. QED
      BY <2>4, <3>1
  <2> HIDE DEF z
  <2>6. z = y
    <3>1. \A i \in 1 .. Len(z) : z[i] = y[i]
      BY <2>4, <2>5
    <3>. QED
      BY <2>4, <2>5, <3>1, SeqEqual
  <2>2. <<Dot>> \in Seq(Nat) /\ <<Dot>> \o <<Dot>> = <<Dot, Dot>>
    BY <2>4, <2>6 DEF x, y, z
  <2>3. (d \o <<Dot>>) \o <<Dot>> = d \o (<<Dot>> \o <<Dot>>)
    BY <1>2, <2>2, ConcatAssociative
  <2>. QED
    BY <2>2, <2>3
<1> DEFINE stripped(x) == IF x # <<>> /\ Last(x) = Dot THEN Front(x) ELSE x
<1>5. ASSUME NEW name \in Seq(Nat)
      PROVE  /\ name \o <<Dot>> \in Seq(Nat) /\ name \o <<Dot>> # <<>>
             /\ stripped(name \o <<Dot>>) = name
  BY DropsDot
<1> HIDE DEF stripped
<1>6. CASE labels = <<>>
  <2>1. d = <<>>
    <3>1. [i \in DOMAIN labels |-> IF i = 1 THEN labels[i] ELSE <<Dot>> \o labels[i]] = <<>>
      BY <1>6
    <3>2. FlattenSeq(<<>>) = <<>>
      BY EmptySeq DEF FlattenSeq
    <3>. QED
      BY <3>1, <3>2 DEF Dotted
  <2>2. ~ask.valid
    BY <1>1, <1>6
  <2>3. stripped(<<>>) = <<>> /\ stripped(<<Dot>>) = <<>>
    <3>1. stripped(<<>> \o <<Dot>>) = <<>>
      BY <1>2, <1>5
    <3>. QED
      BY <1>2, <3>1 DEF stripped
  <2>4. stripped(<<Dot, Dot>>) = <<Dot>> /\ <<Dot>> # <<>> /\ <<Dot>> \in Seq(Nat)
        /\ <<Dot, Dot>> \in Seq(Nat)
    <3>1. <<>> \o <<Dot>> \in Seq(Nat) /\ <<>> \o <<Dot>> # <<>>
      BY <1>2, <1>5
    <3>2. stripped(<<Dot>> \o <<Dot>>) = <<Dot>> /\ <<Dot>> \o <<Dot>> \in Seq(Nat)
      BY <1>2, <1>5, <3>1
    <3>3. <<Dot>> \o <<Dot>> = <<Dot, Dot>>
      BY <1>2, <1>4, <2>1
    <3>. QED
      BY <1>2, <3>1, <3>2, <3>3
  <2>5. encodeQname(<<Dot, Dot>>) = Throws
    <3> DEFINE none == << <<>> >>
    <3>1. none \in Seq(Seq(Nat)) /\ Len(none) = 1 /\ none[1] = <<>> /\ LabelsOf(<<Dot>>) = none
      BY DotAlone
    <3> HIDE DEF none
    <3>2. encodeQname(<<Dot, Dot>>) = IF Fits(<<Dot, Dot>>, none) THEN WireName(none) ELSE Throws
      BY <2>4, <3>1, Encodes DEF stripped
    <3>3. DOMAIN none = 1 .. 1 /\ Len(<<>>) = 0
      BY <3>1, LenProperties, EmptySeq
    <3>4. ~(Len(none[1]) \in 1 .. 63)
      BY <3>1, <3>3
    <3>5. ~Fits(<<Dot, Dot>>, none)
      BY <3>3, <3>4 DEF Fits
    <3>. QED
      BY <3>2, <3>5
  <2>6. encodeQname(<<>>) = Throws /\ encodeQname(<<Dot>>) = Throws
    BY <2>3 DEF stripped, encodeQname
  <2>7. domain \in {<<>>, <<Dot>>, <<Dot, Dot>>}
    <3>1. \A x \in {<<>>, <<Dot>>, <<Dot, Dot>>} : <<>> \o x = x
      BY <1>2, <2>4, ConcatEmptySeq
    <3>. QED
      BY <1>1, <2>1, <3>1
  <2>8. encodeQname(domain) = Throws
    BY <2>5, <2>6, <2>7
  <2>. QED
    BY <2>2, <2>8
<1>7. CASE labels # <<>>
  <2>1. ASSUME NEW name \in Seq(Nat), name # <<>>, LabelsOf(name) = labels, domain \in Seq(Nat),
               stripped(domain) = name
        PROVE  encodeQname(domain) = IF ask.valid THEN WireName(labels) ELSE Throws
    BY <1>1, <1>7, <2>1, Encodes DEF stripped
  <2>3. ASSUME domain = d \o <<Dot, Dot>>
        PROVE  encodeQname(domain) = IF ask.valid THEN WireName(labels) ELSE Throws
    <3> DEFINE name == d \o <<Dot>>
    <3>1. name \in Seq(Nat) /\ name # <<>> /\ domain = name \o <<Dot>>
      BY <1>2, <1>4, <1>5, <2>3
    <3>2. PICK b : Segments(b, name, labels)
      BY <1>1, <1>7, DottedSegments
    <3>3. LabelsOf(name) = labels
      BY <1>1, <1>3, <1>7, <3>1, <3>2, LabelsAre
    <3>. QED
      BY <1>5, <2>1, <3>1, <3>3
  <2>2. CASE labels[n] # <<>>
    <3>1. d # <<>> /\ Last(d) # Dot /\ LabelsOf(d) = labels
      BY <1>1, <1>3, <1>7, <2>2, EndsInLabel
    <3>2. stripped(d) = d
      BY <3>1 DEF stripped
    <3>3. stripped(d \o <<Dot>>) = d /\ d \o <<Dot>> \in Seq(Nat)
      BY <1>2, <1>5
    <3>4. domain = d \/ domain = d \o <<Dot>> \/ domain = d \o <<Dot, Dot>>
      BY <1>1, <1>2
    <3>. QED
      BY <1>2, <2>1, <2>3, <3>1, <3>2, <3>3, <3>4
  <2>4. CASE labels[n] = <<>>
    <3>1. domain = d \o <<Dot, Dot>>
      BY <1>1, <1>2, <1>7, <2>4
    <3>. QED
      BY <2>3, <3>1
  <2>. QED
    BY <2>2, <2>4
<1>. QED
  BY <1>6, <1>7

-----------------------------------------------------------------------------
(* A message with a name after its header, and what follows.               *)
Carries(data, wire) ==
  /\ data \in Seq(Nat) /\ Len(data) >= 12 + Len(wire)
  /\ \A k \in 1 .. Len(wire) : data[12 + k] = wire[k]

(* build_dns_query puts the name after the twelve bytes of its header.     *)
LEMMA QueryLayout ==
  ASSUME NEW id \in Nat, NEW domain, NEW wire \in Seq(Nat), encodeQname(domain) = wire
  PROVE  Carries(build_dns_query(id, domain, FALSE), wire)
<1>1. ASSUME NEW x \in Nat PROVE write_u16(x) \in Seq(Nat) /\ Len(write_u16(x)) = 2
  <2>1. x \div 256 \in Nat /\ x % 256 \in Nat
    BY SMT
  <2> DEFINE a == x \div 256
             c == x % 256
  <2> HIDE DEF a, c
  <2>2. <<a, c>> \in Seq(Nat) /\ Len(<<a, c>>) = 2
    BY <2>1 DEF a, c
  <2>. QED
    BY <2>2 DEF write_u16, a, c
<1> DEFINE flags == <<1, 0>>
           i == write_u16(id)
           one == write_u16(1)
           zero == write_u16(0)
           type == write_u16(A)
           head == i \o flags \o one \o zero \o zero \o zero
           data == head \o wire \o type \o one
<1>2. wire # Throws
  BY ThrowsAssumption
<1>3. build_dns_query(id, domain, FALSE) = data
  BY <1>2 DEF build_dns_query
<1>4. /\ i \in Seq(Nat) /\ flags \in Seq(Nat) /\ one \in Seq(Nat) /\ zero \in Seq(Nat)
      /\ type \in Seq(Nat)
      /\ Len(i) = 2 /\ Len(flags) = 2 /\ Len(one) = 2 /\ Len(zero) = 2 /\ Len(type) = 2
  BY <1>1 DEF A
<1> HIDE DEF i, flags, one, zero, type
<1>5. ASSUME NEW s \in Seq(Nat), NEW t \in Seq(Nat), Len(t) = 2
      PROVE  s \o t \in Seq(Nat) /\ Len(s \o t) = Len(s) + 2
  <2>1. s \o t \in Seq(Nat) /\ Len(s \o t) = Len(s) + Len(t)
    BY ConcatProperties
  <2>. QED
    BY <1>5, <2>1
<1>6. head \in Seq(Nat) /\ Len(head) = 12
  <2> DEFINE h2 == i \o flags
             h3 == h2 \o one
             h4 == h3 \o zero
             h5 == h4 \o zero
  <2>1. h2 \in Seq(Nat) /\ Len(h2) = 4
    <3>1. h2 \in Seq(Nat) /\ Len(h2) = Len(i) + 2
      BY <1>4, <1>5
    <3>. QED
      BY <1>4, <3>1
  <2> HIDE DEF h2
  <2>2. h3 \in Seq(Nat) /\ Len(h3) = 6
    <3>1. h3 \in Seq(Nat) /\ Len(h3) = Len(h2) + 2
      BY <1>4, <1>5, <2>1
    <3>. QED
      BY <2>1, <3>1
  <2> HIDE DEF h3
  <2>3. h4 \in Seq(Nat) /\ Len(h4) = 8
    <3>1. h4 \in Seq(Nat) /\ Len(h4) = Len(h3) + 2
      BY <1>4, <1>5, <2>2
    <3>. QED
      BY <2>2, <3>1
  <2> HIDE DEF h4
  <2>4. h5 \in Seq(Nat) /\ Len(h5) = 10
    <3>1. h5 \in Seq(Nat) /\ Len(h5) = Len(h4) + 2
      BY <1>4, <1>5, <2>3
    <3>. QED
      BY <2>3, <3>1
  <2> HIDE DEF h5
  <2>5. h5 \o zero \in Seq(Nat) /\ Len(h5 \o zero) = 12
    <3>1. h5 \o zero \in Seq(Nat) /\ Len(h5 \o zero) = Len(h5) + 2
      BY <1>4, <1>5, <2>4
    <3>. QED
      BY <2>4, <3>1
  <2>. QED
    BY <2>5 DEF h2, h3, h4, h5
<1> HIDE DEF head
<1> DEFINE named == head \o wire
           typed == named \o type
<1>7. named \in Seq(Nat) /\ Len(named) = 12 + Len(wire) /\ Len(wire) \in Nat
      /\ \A k \in 1 .. Len(wire) : named[12 + k] = wire[k]
  <2>1. /\ named \in Seq(Nat) /\ Len(named) = 12 + Len(wire) /\ Len(wire) \in Nat
        /\ \A j \in 1 .. 12 + Len(wire) : named[j] = IF j <= 12 THEN head[j] ELSE wire[j - 12]
    <3>1. /\ named \in Seq(Nat) /\ Len(named) = Len(head) + Len(wire) /\ Len(wire) \in Nat
          /\ \A j \in 1 .. Len(head) + Len(wire) :
               named[j] = IF j <= Len(head) THEN head[j] ELSE wire[j - Len(head)]
      BY <1>6, ConcatProperties, LenProperties
    <3> HIDE DEF named
    <3>. QED
      BY <1>6, <3>1
  <2> HIDE DEF named
  <2>2. ASSUME NEW k \in 1 .. Len(wire) PROVE named[12 + k] = wire[k]
    <3> DEFINE j == 12 + k
    <3>1. j \in 1 .. 12 + Len(wire) /\ ~(j <= 12) /\ j - 12 = k
      BY <2>1
    <3> HIDE DEF j
    <3>2. named[j] = wire[k]
      BY <2>1, <3>1
    <3>. QED
      BY <3>2 DEF j
  <2>. QED
    BY <2>1, <2>2
<1> HIDE DEF named
<1>8. ASSUME NEW s \in Seq(Nat), Carries(s, wire), NEW t \in Seq(Nat) PROVE Carries(s \o t, wire)
  <2> DEFINE x == s \o t
             w == Len(wire)
             n == Len(s)
             m == Len(t)
  <2>1. n \in Nat /\ m \in Nat /\ w \in Nat /\ n >= 12 + w
    BY <1>8, LenProperties DEF Carries
  <2>2. /\ x \in Seq(Nat) /\ Len(x) = n + m
        /\ \A j \in 1 .. n + m : x[j] = IF j <= n THEN s[j] ELSE t[j - n]
    BY ConcatProperties
  <2>3. \A k \in 1 .. w : s[12 + k] = wire[k]
    BY <1>8 DEF Carries
  <2> HIDE DEF x, w, n, m
  <2>4. ASSUME NEW k \in 1 .. w PROVE x[12 + k] = wire[k]
    <3>3. k \in Nat /\ 1 <= k /\ k <= w
      BY <2>1
    <3>1. 12 + k \in 1 .. n + m /\ 12 + k <= n
      BY <2>1, <3>3
    <3>2. x[12 + k] = s[12 + k]
      BY <2>2, <3>1
    <3>. QED
      BY <2>3, <3>2
  <2>5. Len(x) >= 12 + w
    BY <2>1, <2>2
  <2>. QED
    BY <2>2, <2>4, <2>5 DEF Carries, x, w
<1>9. Carries(named, wire)
  BY <1>7 DEF Carries
<1>10. Carries(typed, wire) /\ typed \in Seq(Nat)
  BY <1>4, <1>7, <1>8, <1>9, ConcatProperties
<1> HIDE DEF typed
<1>11. Carries(typed \o one, wire)
  BY <1>4, <1>8, <1>10
<1>. QED
  BY <1>3, <1>11 DEF typed, named

(* Where the labels of a name on the wire are: P[i] bytes before the       *)
(* length of label i, P[n + 1] before the length 0.                        *)
Wired(P, wire, labels) ==
  LET n == Len(labels)
  IN  /\ P \in [1 .. n + 1 -> Nat] /\ P[1] = 0
      /\ Len(wire) = P[n + 1] + 1 /\ wire[P[n + 1] + 1] = 0
      /\ \A i \in 1 .. n :
           /\ P[i + 1] = P[i] + 1 + Len(labels[i]) /\ P[i + 1] <= P[n + 1]
           /\ wire[P[i] + 1] = Len(labels[i])
           /\ \A k \in 1 .. Len(labels[i]) : wire[P[i] + 1 + k] = labels[i][k]

(* A name on the wire has this layout.                                     *)
LEMMA WireLayout ==
  ASSUME NEW labels \in Seq(Seq(Nat))
  PROVE  \E P : Wired(P, WireName(labels), labels)
<1> DEFINE n == Len(labels)
           pp == [i \in 1 .. n |-> <<Len(labels[i])>> \o labels[i]]
           flat == FlattenSeq(pp)
           wire == flat \o <<0>>
<1>1. n \in Nat /\ DOMAIN labels = 1 .. n
  BY LenProperties
<1>2. \A i \in 1 .. n : labels[i] \in Seq(Nat) /\ Len(labels[i]) \in Nat
  BY ElementOfSeq, LenProperties
<1>3. WireName(labels) = wire
  BY <1>1 DEF WireName, Labels, ShortField
<1>4. ASSUME NEW i \in 1 .. n
      PROVE  /\ pp[i] \in Seq(Nat) /\ Len(pp[i]) = 1 + Len(labels[i]) /\ pp[i][1] = Len(labels[i])
             /\ \A k \in 1 .. Len(labels[i]) : pp[i][1 + k] = labels[i][k]
  <2> DEFINE l == labels[i]
             c == Len(l)
             x == <<c>>
             s == x \o l
  <2>1. l \in Seq(Nat) /\ c \in Nat /\ pp[i] = s
    BY <1>2
  <2> HIDE DEF c
  <2>2. x \in Seq(Nat) /\ Len(x) = 1 /\ x[1] = c
    BY <2>1
  <2> HIDE DEF l, x
  <2>3. /\ s \in Seq(Nat) /\ Len(s) = 1 + c
        /\ \A k \in 1 .. 1 + c : s[k] = IF k <= 1 THEN x[k] ELSE l[k - 1]
    <3>1. /\ s \in Seq(Nat) /\ Len(s) = Len(x) + c
          /\ \A k \in 1 .. Len(x) + c : s[k] = IF k <= Len(x) THEN x[k] ELSE l[k - Len(x)]
      BY <2>1, <2>2, ConcatProperties DEF c
    <3> HIDE DEF s
    <3>. QED
      BY <2>2, <3>1
  <2> HIDE DEF s
  <2>4. s[1] = c /\ \A k \in 1 .. c : s[1 + k] = l[k]
    <3>1. 1 \in 1 .. 1 + c
      BY <2>1
    <3>2. ASSUME NEW k \in 1 .. c PROVE s[1 + k] = l[k]
      <4>1. 1 + k \in 1 .. 1 + c /\ ~(1 + k <= 1) /\ (1 + k) - 1 = k
        BY <2>1
      <4>. QED
        BY <2>3, <4>1
    <3>. QED
      BY <2>2, <2>3, <3>1, <3>2
  <2>. QED
    BY <2>1, <2>3, <2>4 DEF l, c
<1>5. pp \in Seq(Seq(Nat)) /\ Len(pp) = n
  <2>1. \A i \in 1 .. n : pp[i] \in Seq(Nat)
    BY <1>4
  <2>2. pp \in [1 .. n -> Seq(Nat)]
    BY <2>1
  <2>. QED
    BY <1>1, <2>1, <2>2
<1> HIDE DEF pp
<1>6. PICK P : Offsets(P, pp)
  BY <1>5, FlattenOffsets
<1>7. flat \in Seq(Nat) /\ Len(flat) \in Nat
  BY <1>5, FlattenAppend, EmptySeq, LenProperties
<1>8. /\ P \in [1 .. n + 1 -> Nat] /\ P[1] = 0 /\ P[n + 1] = Len(flat)
      /\ \A i \in 1 .. n : P[i + 1] = P[i] + Len(pp[i])
      /\ \A i \in 1 .. n : \A k \in 1 .. Len(pp[i]) : flat[P[i] + k] = pp[i][k]
      /\ \A i \in 1 .. n : P[i + 1] <= Len(flat)
  BY <1>5, <1>6 DEF Offsets
<1> HIDE DEF flat, n
<1>9. /\ Len(wire) = Len(flat) + 1 /\ wire[Len(flat) + 1] = 0
      /\ \A k \in 1 .. Len(flat) : wire[k] = flat[k]
  <2> DEFINE f == Len(flat)
             z == <<0>>
  <2>1. z \in Seq(Nat) /\ Len(z) = 1 /\ z[1] = 0
    OBVIOUS
  <2> HIDE DEF z
  <2>2. /\ Len(flat \o z) = f + 1
        /\ \A k \in 1 .. f + 1 : (flat \o z)[k] = IF k <= f THEN flat[k] ELSE z[k - f]
    <3> DEFINE s == flat \o z
    <3>1. /\ Len(s) = f + Len(z)
          /\ \A k \in 1 .. f + Len(z) : s[k] = IF k <= f THEN flat[k] ELSE z[k - f]
      BY <1>7, <2>1, ConcatProperties
    <3> HIDE DEF s
    <3>. QED
      BY <2>1, <3>1 DEF s
  <2> HIDE DEF f
  <2>3. f \in Nat
    BY <1>7 DEF f
  <2>4. /\ f + 1 \in 1 .. f + 1 /\ ~(f + 1 <= f) /\ (f + 1) - f = 1
        /\ \A k \in 1 .. f : k \in 1 .. f + 1 /\ k <= f
    BY <2>3
  <2>5. (flat \o z)[f + 1] = 0
    BY <2>1, <2>2, <2>4
  <2>. QED
    BY <2>2, <2>4, <2>5 DEF f, z
<1> HIDE DEF wire
<1>10. ASSUME NEW i \in 1 .. n
       PROVE  /\ P[i + 1] = P[i] + 1 + Len(labels[i]) /\ P[i + 1] <= P[n + 1]
              /\ wire[P[i] + 1] = Len(labels[i])
              /\ \A k \in 1 .. Len(labels[i]) : wire[P[i] + 1 + k] = labels[i][k]
  <2> DEFINE p == P[i]
             q == P[i + 1]
             c == Len(labels[i])
             f == Len(flat)
             s == pp[i]
  <2>1. i \in 1 .. n + 1
    BY <1>1
  <2>2. p \in Nat /\ c \in Nat /\ f \in Nat /\ Len(s) = 1 + c /\ q = p + Len(s) /\ q <= f
    BY <1>2, <1>4, <1>7, <1>8, <2>1
  <2>3. s[1] = c /\ \A k \in 1 .. c : s[1 + k] = labels[i][k]
    BY <1>4
  <2>4. \A k \in 1 .. Len(s) : flat[p + k] = s[k]
    BY <1>8
  <2>5. \A k \in 1 .. f : wire[k] = flat[k]
    BY <1>9
  <2> HIDE DEF p, q, c, f, s
  <2>6. ASSUME NEW k \in 1 .. 1 + c PROVE wire[p + k] = s[k]
    <3>1. p + k \in 1 .. f /\ k \in 1 .. Len(s)
      BY <2>2
    <3>. QED
      BY <2>4, <2>5, <3>1
  <2>7. wire[p + 1] = c
    <3>1. 1 \in 1 .. 1 + c
      BY <2>2
    <3>. QED
      BY <2>3, <2>6, <3>1
  <2>8. ASSUME NEW k \in 1 .. c PROVE wire[p + 1 + k] = labels[i][k]
    <3>1. 1 + k \in 1 .. 1 + c /\ p + 1 + k = p + (1 + k)
      BY <2>2
    <3>. QED
      BY <2>3, <2>6, <3>1
  <2>9. q = p + 1 + c
    BY <2>2
  <2>. QED
    BY <1>8, <2>2, <2>7, <2>8, <2>9 DEF p, q, c, f
<1>11. Wired(P, wire, labels)
  BY <1>8, <1>9, <1>10 DEF Wired, n
<1>. QED
  BY <1>3, <1>11 DEF wire

(* What parse_dns_query makes of a name it is given whole or cut. *)
LEMMA ParsesLabels ==
  ASSUME NEW labels \in Seq(Seq(Nat)), \A i \in 1 .. Len(labels) : labels[i] # <<>>,
         NEW data \in Seq(Nat), NEW wire, NEW P, Wired(P, wire, labels),
         \A k \in 13 .. Len(data) : k - 12 <= Len(wire) => data[k] = wire[k - 12],
         Dotted(labels) \in Seq(Nat)
  PROVE  parse_dns_query(data) = IF Len(data) >= 12 + Len(wire) THEN Dotted(labels) ELSE Throws
<1> DEFINE D == Len(data)
           n == Len(labels)
           W == Len(wire)
           whole == D >= 12 + W
           V == Seq(Seq(Nat)) \cup {Throws}
           label(pos) == SubSeq(data, pos + 2, pos + 1 + data[pos + 1])
           Def(h, pos) == LET len == data[pos + 1]
                              rest == h[pos + 1 + len]
                          IN  IF pos = D \/ pos + 1 + len > D THEN Throws
                              ELSE IF len = 0 THEN <<>>
                              ELSE IF rest = Throws THEN Throws
                              ELSE <<SubSeq(data, pos + 2, pos + 1 + len)>> \o rest
           Rec(h) == h = [pos \in 12 .. D |-> Def(h, pos)]
           from == CHOOSE h : Rec(h)
<1>1. D \in Nat /\ n \in Nat
  BY LenProperties
<1>2. /\ P \in [1 .. n + 1 -> Nat] /\ P[1] = 0
      /\ W = P[n + 1] + 1 /\ wire[P[n + 1] + 1] = 0
      /\ \A i \in 1 .. n :
           /\ P[i + 1] = P[i] + 1 + Len(labels[i]) /\ P[i + 1] <= P[n + 1]
           /\ wire[P[i] + 1] = Len(labels[i])
           /\ \A k \in 1 .. Len(labels[i]) : wire[P[i] + 1 + k] = labels[i][k]
  BY DEF Wired
<1>3. W \in Nat /\ P[n + 1] \in Nat
  <2>1. n + 1 \in 1 .. n + 1
    BY <1>1
  <2>2. P[n + 1] \in Nat
    BY <1>2, <2>1
  <2>3. W = P[n + 1] + 1
    BY <1>2
  <2> HIDE DEF W
  <2>. QED
    BY <2>2, <2>3
<1>4. CASE D < 12
  <2>1. parse_dns_query(data) = Throws
    BY <1>4 DEF parse_dns_query
  <2>2. ~whole
    BY <1>1, <1>3, <1>4
  <2>. QED
    BY <2>1, <2>2
<1>5. CASE D >= 12
  <2>1. ASSUME NEW pos \in 12 .. D, pos # D
        PROVE  data[pos + 1] \in Nat
    <3>1. pos + 1 \in 1 .. D
      BY <1>1, <2>1
    <3>. QED
      BY <3>1, ElementOfSeq
  <2>2. ASSUME NEW pos \in 12 .. D, pos # D, ~(pos + 1 + data[pos + 1] > D)
        PROVE  label(pos) \in Seq(Nat)
    <3> DEFINE a == pos + 2
               c == pos + 1 + data[pos + 1]
    <3>1. a \in Nat /\ c \in Nat /\ a >= 1 /\ c <= D
      BY <1>1, <2>1, <2>2
    <3> HIDE DEF a, c
    <3>2. \A i \in a .. c : data[i] \in Nat
      <4>1. \A i \in a .. c : i \in 1 .. D
        BY <1>1, <3>1
      <4>. QED
        BY <4>1, ElementOfSeq
    <3>3. SubSeq(data, a, c) \in Seq(Nat)
      BY <3>1, <3>2, SubSeqProperties
    <3>. QED
      BY <3>3 DEF a, c
  <2>3. \E h : Rec(h)
    <3> DEFINE S == 12 .. D
               m == [x \in S |-> D - x]
               F == [x \in S |-> [h \in [S -> V] |-> Def(h, x)]]
    <3>1. m \in [S -> Nat] /\ \A x \in S : m[x] <= D
      BY <1>1
    <3>2. ASSUME NEW x \in S, NEW h \in [S -> V] PROVE Def(h, x) \in V
      <4>1. CASE x = D \/ x + 1 + data[x + 1] > D
        BY <4>1
      <4>2. CASE ~(x = D \/ x + 1 + data[x + 1] > D)
        <5> DEFINE len == data[x + 1]
                   rest == h[x + 1 + len]
                   one == label(x)
        <5>1. len \in Nat /\ x + 1 + len \in S
          BY <1>1, <2>1, <4>2
        <5>2. rest \in V
          BY <5>1
        <5>3. one \in Seq(Nat)
          BY <2>2, <4>2
        <5>4. Def(h, x) = IF len = 0 THEN <<>>
                          ELSE IF rest = Throws THEN Throws ELSE <<one>> \o rest
          BY <4>2
        <5> HIDE DEF Def, len, rest, one
        <5>5. rest # Throws => <<one>> \o rest \in V
          <6>1. <<one>> \in Seq(Seq(Nat))
            BY <5>3
          <6>. QED
            BY <5>2, <6>1, ConcatProperties
        <5>6. <<>> \in V
          BY EmptySeq
        <5>. QED
          BY <5>4, <5>5, <5>6
      <4>. QED
        BY <4>1, <4>2
    <3>3. \A x \in S : \A h \in [S -> V] : F[x][h] = Def(h, x)
      OBVIOUS
    <3>4. ASSUME NEW x \in S, NEW f \in [S -> V], NEW g \in [S -> V],
                 \A y \in S : m[y] < m[x] => f[y] = g[y]
          PROVE  Def(f, x) = Def(g, x)
      <4>1. CASE ~(x = D \/ x + 1 + data[x + 1] > D)
        <5> DEFINE y == x + 1 + data[x + 1]
        <5> DEFINE len == data[x + 1]
        <5>3. len \in Nat /\ x \in 12 .. D /\ ~(x + 1 + len > D)
          BY <2>1, <4>1
        <5>4. y = x + 1 + len
          OBVIOUS
        <5> HIDE DEF len, y
        <5>1. y \in S /\ m[y] < m[x]
          BY <1>1, <5>3, <5>4
        <5>2. f[y] = g[y]
          BY <3>4, <5>1 DEF y
        <5>. QED
          BY <5>2 DEF y
      <4>2. CASE x = D \/ x + 1 + data[x + 1] > D
        BY <4>2
      <4>. QED
        BY <4>1, <4>2
    <3>5. F \in [S -> [[S -> V] -> V]]
      <4> HIDE DEF Def
      <4>. QED
        BY <3>2
    <3>6. V # {}
      BY EmptySeq
    <3> HIDE DEF F, m, V, Def, S
    <3>7. ASSUME NEW x \in S, NEW f \in [S -> V], NEW g \in [S -> V],
                 \A y \in S : m[y] < m[x] => f[y] = g[y]
          PROVE  F[x][f] = F[x][g]
      <4>1. Def(f, x) = Def(g, x)
        BY <3>4, <3>7
      <4>. QED
        BY <3>3, <4>1
    <3>8. Recursive(S, V, m, D, F)
      BY <1>1, <3>1, <3>5, <3>6, <3>7 DEF Recursive
    <3>9. PICK h \in [S -> V] : \A x \in S : h[x] = F[x][h]
      <4>1. Solvable(S, V, F)
        BY <3>8, Recursion
      <4>. QED
        BY <4>1 DEF Solvable
    <3>10. \A x \in S : h[x] = Def(h, x)
      BY <3>3, <3>9
    <3>11. h = [x \in S |-> Def(h, x)]
      BY <3>9, <3>10
    <3>. QED
      BY <3>11 DEF S
  <2>4. Rec(from)
    BY <2>3
  <2>5. parse_dns_query(data) =
          IF from[12] = Throws THEN Throws
          ELSE FlattenSeq([i \in DOMAIN from[12] |->
                             (IF i = 1 THEN <<>> ELSE <<Dot>>) \o from[12][i]])
    <3>1. parse_dns_query(data) =
            IF Len(data) < 12 \/ from[12] = Throws THEN Throws
            ELSE FlattenSeq([i \in DOMAIN from[12] |->
                               (IF i = 1 THEN <<>> ELSE <<Dot>>) \o from[12][i]])
      BY DEF parse_dns_query
    <3>2. ~(Len(data) < 12)
      BY <1>1, <1>5
    <3> HIDE DEF from
    <3>. QED
      BY <3>1, <3>2
  <2> HIDE DEF from
  <2>6. \A pos \in 12 .. D : from[pos] = Def(from, pos)
    BY <2>4
  <2> HIDE DEF Rec
  <2> DEFINE rest(i) == SubSeq(labels, i, n)
             R(i) == 12 + P[i] <= D => from[12 + P[i]] = IF whole THEN rest(i) ELSE Throws
  (* At the end of the name. *)
  <2>7. R(n + 1)
    <3> DEFINE p == P[n + 1]
               pos == 12 + p
    <3> SUFFICES ASSUME pos <= D PROVE from[pos] = IF whole THEN rest(n + 1) ELSE Throws
      OBVIOUS
    <3>1. p \in Nat /\ W = p + 1 /\ wire[p + 1] = 0
      BY <1>2, <1>3
    <3> HIDE DEF p, D, W
    <3>2. pos \in 12 .. D
      BY <1>1, <3>1
    <3>3. from[pos] = Def(from, pos)
      BY <2>6, <3>2
    <3>4. CASE pos = D
      <4>1. ~whole
        BY <1>1, <3>1, <3>4
      <4>. QED
        BY <3>3, <3>4, <4>1
    <3>5. CASE pos # D
      <4>1. pos + 1 \in 13 .. D /\ (pos + 1) - 12 = p + 1 /\ (pos + 1) - 12 <= W /\ whole
        BY <1>1, <3>1, <3>2, <3>5
      <4>2. data[pos + 1] = 0
        BY <3>1, <4>1 DEF D, W
      <4>3. ~(pos + 1 + 0 > D)
        BY <1>1, <3>2, <3>5
      <4>4. from[pos] = <<>>
        BY <3>3, <3>5, <4>2, <4>3
      <4>5. rest(n + 1) = <<>>
        BY Suffix
      <4>. QED
        BY <4>1, <4>4, <4>5
    <3>. QED
      BY <3>4, <3>5 DEF p
  (* At the start of a label. *)
  <2>8. ASSUME NEW i \in 1 .. n, R(i + 1) PROVE R(i)
    <3> DEFINE p == P[i]
               pos == 12 + p
               c == Len(labels[i])
               q == P[i + 1]
               next == 12 + q
    <3> SUFFICES ASSUME pos <= D PROVE from[pos] = IF whole THEN rest(i) ELSE Throws
      OBVIOUS
    <3>1. i \in 1 .. n + 1 /\ i + 1 \in 1 .. n + 1
      BY <1>1
    <3>2. labels[i] \in Seq(Nat) /\ c \in Nat /\ c # 0 /\ DOMAIN labels[i] = 1 .. c
      BY ElementOfSeq, EmptySeq, LenProperties
    <3>3. p \in Nat /\ q \in Nat /\ q = p + 1 + c /\ wire[p + 1] = c /\ q + 1 <= W
      <4>1. p \in Nat /\ q \in Nat /\ q = p + 1 + c /\ wire[p + 1] = c /\ q <= P[n + 1]
        BY <1>2, <3>1
      <4>2. W = P[n + 1] + 1
        BY <1>2
      <4> DEFINE z == P[n + 1]
      <4>3. q \in Nat /\ z \in Nat /\ q <= z /\ W = z + 1
        BY <1>3, <4>1, <4>2
      <4> HIDE DEF p, q, c, W, z
      <4>4. q + 1 <= W
        BY <4>3
      <4>. QED
        BY <4>1, <4>4
    <3>4. \A k \in 1 .. c : wire[p + 1 + k] = labels[i][k]
      BY <1>2
    <3>5. next <= D => from[next] = IF whole THEN rest(i + 1) ELSE Throws
      BY <2>8
    <3>6. \A k \in 13 .. D : k - 12 <= W => data[k] = wire[k - 12]
      OBVIOUS
    <3>7. D \in Nat /\ W \in Nat /\ p \in Nat /\ q \in Nat /\ q + 1 <= W
      BY <1>1, <1>3, <3>3
    <3> HIDE DEF p, q, c, D, W, whole, from
    <3>8. pos \in 12 .. D /\ next = pos + 1 + c
      BY <3>2, <3>3, <3>7
    <3>9. from[pos] = Def(from, pos)
      BY <2>6, <3>8
    <3>10. CASE pos = D
      <4>1. ~whole
        BY <3>2, <3>3, <3>7, <3>10 DEF whole
      <4>. QED
        BY <3>9, <3>10, <4>1
    <3>11. CASE pos # D
      <4>1. pos + 1 \in 13 .. D /\ (pos + 1) - 12 = p + 1 /\ (pos + 1) - 12 <= W
        BY <3>2, <3>3, <3>7, <3>8, <3>11
      <4>2. data[pos + 1] = c
        BY <3>3, <3>6, <4>1
      <4>3. CASE next > D
        <5>1. ~whole
          BY <3>7, <4>3 DEF whole
        <5>. QED
          BY <3>8, <3>9, <4>2, <4>3, <5>1
      <4>4. CASE ~(next > D)
        <5>1. from[next] = IF whole THEN rest(i + 1) ELSE Throws
          BY <3>3, <3>5, <3>7, <4>4
        <5>2. Def(from, pos) = IF from[next] = Throws THEN Throws
                               ELSE <<SubSeq(data, pos + 2, pos + 1 + c)>> \o from[next]
          BY <3>2, <3>8, <3>11, <4>2, <4>4
        <5>3. CASE ~whole
          BY <3>9, <5>1, <5>2, <5>3
        <5>4. CASE whole
          <6>1. rest(i + 1) \in Seq(Seq(Nat)) /\ rest(i) = <<labels[i]>> \o rest(i + 1)
            BY <3>1, Suffix
          <6>2. rest(i + 1) # Throws
            BY <6>1, ThrowsAssumption
          <6>3. SubSeq(data, pos + 2, pos + 1 + c) = labels[i]
            <7>1. \A k \in 1 .. c : data[pos + 1 + k] = labels[i][k]
              <8>1. ASSUME NEW k \in 1 .. c PROVE data[pos + 1 + k] = labels[i][k]
                <9> DEFINE j == pos + 1 + k
                <9>1. j \in 13 .. D /\ j - 12 = p + 1 + k /\ j - 12 <= W
                  BY <3>2, <3>3, <3>7, <3>8, <4>4
                <9> HIDE DEF j
                <9>2. data[j] = wire[p + 1 + k]
                  BY <3>6, <9>1
                <9>. QED
                  BY <3>4, <9>2 DEF j
              <8>. QED
                BY <8>1
            <7>2. pos + 1 \in Nat /\ pos + 1 + c <= D /\ (pos + 1) + 1 = pos + 2
              BY <3>2, <3>7, <3>8, <4>4
            <7>3. SubSeq(data, (pos + 1) + 1, pos + 1 + c) = labels[i]
              BY <3>2, <7>1, <7>2, Slice DEF c, D
            <7>. QED
              BY <7>2, <7>3
          <6>. QED
            BY <3>9, <5>1, <5>2, <5>4, <6>1, <6>2, <6>3
        <5>. QED
          BY <5>3, <5>4
      <4>. QED
        BY <4>3, <4>4
    <3>. QED
      BY <3>10, <3>11 DEF p
  <2>9. from[12] = IF whole THEN labels ELSE Throws
    <3> DEFINE Q(d) == d <= n => R(n + 1 - d)
               G == {d \in Nat : Q(d)}
    <3>1. Q(0)
      <4>1. n + 1 - 0 = n + 1
        BY <1>1
      <4> HIDE DEF R
      <4>. QED
        BY <2>7, <4>1
    <3>2. ASSUME NEW d \in Nat, Q(d) PROVE Q(d + 1)
      <4> SUFFICES ASSUME d + 1 <= n PROVE R(n + 1 - (d + 1))
        OBVIOUS
      <4> DEFINE i == n + 1 - (d + 1)
      <4>1. i \in 1 .. n /\ i + 1 = n + 1 - d /\ d <= n
        BY <1>1
      <4> HIDE DEF i, R
      <4>2. R(i + 1)
        BY <3>2, <4>1
      <4>3. R(i)
        BY <2>8, <4>1, <4>2
      <4>. QED
        BY <4>3 DEF i
    <3>3. Q(n)
      <4> HIDE DEF Q
      <4>1. 0 \in G /\ \A d \in Nat : d \in G => d + 1 \in G
        BY <3>1, <3>2
      <4>2. Nat \subseteq G
        BY <4>1, SetInduction
      <4>. QED
        BY <1>1, <4>2
    <3>4. R(1)
      <4>1. n <= n /\ n + 1 - n = 1
        BY <1>1
      <4> HIDE DEF R
      <4>. QED
        BY <3>3, <4>1
    <3>5. 12 + P[1] = 12 /\ 12 <= D
      BY <1>1, <1>2, <1>5
    <3>6. rest(1) = labels
      BY Suffix
    <3>. QED
      BY <3>4, <3>5, <3>6
  <2>10. CASE whole
    <3>1. from[12] = labels /\ labels # Throws
      BY <2>9, <2>10, ThrowsAssumption
    <3>2. [i \in DOMAIN labels |-> (IF i = 1 THEN <<>> ELSE <<Dot>>) \o labels[i]]
            = [i \in DOMAIN labels |-> IF i = 1 THEN labels[i] ELSE <<Dot>> \o labels[i]]
      <4>1. \A i \in DOMAIN labels : <<>> \o labels[i] = labels[i]
        <5>1. \A i \in DOMAIN labels : labels[i] \in Seq(Nat)
          BY ElementOfSeq, LenProperties
        <5>. QED
          BY <5>1, ConcatEmptySeq
      <4>. QED
        BY <4>1
    <3>. QED
      BY <2>5, <2>10, <3>1, <3>2 DEF Dotted
  <2>11. CASE ~whole
    BY <2>5, <2>9, <2>11
  <2>. QED
    BY <2>10, <2>11
<1>. QED
  BY <1>1, <1>4, <1>5

-----------------------------------------------------------------------------
(* What is asked becomes a query that carries the name, or no query: built *)
(* from a domain and read again, or taken over from a client.              *)
LEMMA NameIsAsked ==
  ASSUME NEW ask, Asks(ask), NEW id \in Nat
  PROVE  LET labels == ask.labels
             wire == WireName(labels)
             data == IF ask.caller = "resolve" THEN build_dns_query(id, ask.domain, FALSE)
                     ELSE ask.data
             name == IF data = Throws THEN Throws ELSE parse_dns_query(data)
         IN  /\ ask.valid \in BOOLEAN
             /\ ask.valid => /\ name = Dotted(labels) /\ name # Throws
                             /\ data # <<>> /\ SubSeq(data, 13, 12 + Len(wire)) = wire
             /\ ~ask.valid => name = Throws
<1> DEFINE labels == ask.labels
           wire == WireName(labels)
           data == IF ask.caller = "resolve" THEN build_dns_query(id, ask.domain, FALSE)
                   ELSE ask.data
           name == IF data = Throws THEN Throws ELSE parse_dns_query(data)
           n == Len(labels)
<1>1. labels \in Seq(Seq(Nat)) /\ n \in Nat /\ DOMAIN labels = 1 .. n
  BY LenProperties DEF Asks
<1>2. /\ wire \in Seq(Nat) /\ wire # Throws /\ Len(wire) \in Nat
      /\ Dotted(labels) \in Seq(Nat) /\ Dotted(labels) # Throws
  BY <1>1, WireType, LenProperties
<1>3. PICK P : Wired(P, wire, labels)
  BY <1>1, WireLayout
<1>4. ask.valid \in BOOLEAN
  <2> DEFINE isName == /\ Len(ask.domain) <= 255 /\ ask.labels # <<>>
                       /\ \A i \in DOMAIN ask.labels : Len(ask.labels[i]) \in 1 .. 63
             isWhole == Len(ask.data) >= 12 + Len(wire)
  <2>1. isName \in BOOLEAN /\ isWhole \in BOOLEAN
    OBVIOUS
  <2>2. ask.valid = isName \/ ask.valid = isWhole
    BY DEF Asks
  <2> HIDE DEF isName, isWhole
  <2>. QED
    BY <2>1, <2>2
<1>5. ASSUME NEW d \in Seq(Nat), \A i \in 1 .. n : labels[i] # <<>>,
             \A k \in 13 .. Len(d) : k - 12 <= Len(wire) => d[k] = wire[k - 12]
      PROVE  /\ d # Throws
             /\ parse_dns_query(d) = IF Len(d) >= 12 + Len(wire) THEN Dotted(labels) ELSE Throws
  BY <1>1, <1>2, <1>3, <1>5, ParsesLabels, ThrowsAssumption
<1>6. ASSUME NEW d \in Seq(Nat), Carries(d, wire)
      PROVE  /\ d # <<>> /\ SubSeq(d, 13, 12 + Len(wire)) = wire
             /\ \A k \in 13 .. Len(d) : k - 12 <= Len(wire) => d[k] = wire[k - 12]
  <2> DEFINE w == Len(wire)
  <2>1. w \in Nat /\ Len(d) \in Nat /\ 12 + w <= Len(d) /\ \A k \in 1 .. w : d[12 + k] = wire[k]
    BY <1>2, <1>6, LenProperties DEF Carries
  <2>2. SubSeq(d, 12 + 1, 12 + w) = wire
    BY <1>2, <2>1, Slice
  <2> HIDE DEF w, wire
  <2>3. ASSUME NEW k \in 13 .. Len(d), k - 12 <= w PROVE d[k] = wire[k - 12]
    <3>1. k - 12 \in 1 .. w /\ 12 + (k - 12) = k
      BY <2>1, <2>3
    <3>. QED
      BY <2>1, <3>1
  <2>4. d # <<>>
    BY <2>1, EmptySeq
  <2>. QED
    BY <2>2, <2>3, <2>4 DEF w
<1>7. CASE ask.caller = "resolve"
  <2>1. encodeQname(ask.domain) = IF ask.valid THEN wire ELSE Throws
    BY <1>7, NamedByLabels
  <2>2. data = build_dns_query(id, ask.domain, FALSE)
    BY <1>7
  <2>3. CASE ask.valid
    <3>1. Carries(data, wire)
      BY <1>2, <2>1, <2>2, <2>3, QueryLayout
    <3>2. \A i \in 1 .. n : labels[i] # <<>>
      <4>1. \A i \in 1 .. n : Len(labels[i]) \in 1 .. 63
        BY <1>1, <1>7, <2>3 DEF Asks
      <4>2. Len(<<>>) = 0 /\ ~(0 \in 1 .. 63)
        BY EmptySeq
      <4>. QED
        BY <4>1, <4>2, Zenon
    <3> HIDE DEF data, wire, labels
    <3>3. data \in Seq(Nat) /\ Len(data) >= 12 + Len(wire)
      BY <3>1 DEF Carries
    <3>. QED
      BY <1>2, <1>4, <1>5, <1>6, <2>3, <3>1, <3>2, <3>3 DEF data, wire, labels
  <2>4. CASE ~ask.valid
    <3>1. data = Throws
      BY <2>1, <2>2, <2>4 DEF build_dns_query
    <3>. QED
      BY <1>4, <2>4, <3>1
  <2>. QED
    BY <1>4, <2>3, <2>4
<1>8. CASE ask.caller = "client"
  <2>1. /\ data = ask.data /\ data \in Seq(Nat)
        /\ \A i \in 1 .. n : labels[i] # <<>>
        /\ ask.valid <=> Len(data) >= 12 + Len(wire)
        /\ \A k \in 13 .. Len(data) : k - 12 <= Len(wire) => data[k] = wire[k - 12]
    BY <1>1, <1>8 DEF Asks
  <2> HIDE DEF data, wire, labels
  <2>2. /\ data # Throws
        /\ parse_dns_query(data) = IF ask.valid THEN Dotted(labels) ELSE Throws
    BY <1>5, <2>1
  <2>3. ask.valid => Carries(data, wire)
    <3> SUFFICES ASSUME ask.valid PROVE Carries(data, wire)
      OBVIOUS
    <3> DEFINE D == Len(data)
               w == Len(wire)
    <3>1. D \in Nat /\ w \in Nat /\ D >= 12 + w
      BY <1>2, <2>1, LenProperties
    <3>2. \A k \in 13 .. D : k - 12 <= w => data[k] = wire[k - 12]
      BY <2>1
    <3> HIDE DEF D, w
    <3>3. ASSUME NEW k \in 1 .. w PROVE data[12 + k] = wire[k]
      <4> DEFINE j == 12 + k
      <4>1. j \in 13 .. D /\ j - 12 = k /\ j - 12 <= w
        BY <3>1
      <4> HIDE DEF j
      <4>2. data[j] = wire[k]
        BY <3>2, <4>1
      <4>. QED
        BY <4>2 DEF j
    <3>. QED
      BY <2>1, <3>1, <3>3 DEF Carries, D, w
  <2>. QED
    BY <1>2, <1>4, <1>6, <2>1, <2>2, <2>3 DEF data, wire, labels
<1>9. ask.caller \in {"resolve", "client"}
  BY DEF Asks
<1>. QED
  BY <1>7, <1>8, <1>9

-----------------------------------------------------------------------------
(* Before it is asked nothing is sent. *)
AskInv == /\ case \in Cases /\ QueryAsksName
          /\ step = "start" => query = <<>> /\ https = "start"

(* Only Ask makes a query, and a step that follows it leaves it alone.     *)
LEMMA AskInvKept == AskInv /\ [LookupNext]_<<vars, lookup>> => AskInv'
<1> SUFFICES ASSUME AskInv, [LookupNext]_<<vars, lookup>> PROVE AskInv'
  OBVIOUS
<1>1. case' = case /\ case \in Cases
  BY DEF AskInv, LookupNext, Ask, UdpStep, ServerAnswers, HttpsStep, HttpsRead, HttpsFails, lookup
<1>2. ASSUME NEW id \in Ids, Ask(id) PROVE AskInv'
  <2> DEFINE labels == case.ask.labels
             wire == WireName(labels)
             data == IF case.ask.caller = "resolve"
                     THEN build_dns_query(id, case.ask.domain, FALSE) ELSE case.ask.data
             name == IF data = Throws THEN Throws ELSE parse_dns_query(data)
  <2>1. Asks(case.ask) /\ id \in Nat
    BY <1>1, AsksAssumption, IdsAssumption
  <2>2. /\ case.ask.valid \in BOOLEAN
        /\ case.ask.valid => /\ name = Dotted(labels) /\ name # Throws
                             /\ data # <<>> /\ SubSeq(data, 13, 12 + Len(wire)) = wire
        /\ ~case.ask.valid => name = Throws
    BY <2>1, NameIsAsked
  <2>3. /\ step = "start"
        /\ IF name = Throws \/ case.server = "none"
           THEN step' = "threw" /\ UNCHANGED <<asked, query>>
           ELSE step' = "relay" /\ asked' = name /\ query' = data
    BY <1>2 DEF Ask
  <2>4. query = <<>>
    BY <2>3 DEF AskInv
  <2> HIDE DEF data, name
  <2>5. CASE case.ask.valid /\ case.server # "none"
    <3>1. step' = "relay" /\ asked' = Dotted(labels) /\ query' = data /\ query' # <<>>
      BY <2>2, <2>3, <2>5
    <3>2. QueryAsksName'
      BY <1>1, <2>2, <2>5, <3>1 DEF QueryAsksName
    <3>. QED
      BY <1>1, <3>1, <3>2 DEF AskInv
  <2>6. CASE ~(case.ask.valid /\ case.server # "none")
    <3>1. step' = "threw" /\ query' = <<>>
      BY <2>2, <2>3, <2>4, <2>6
    <3>2. QueryAsksName'
      BY <1>1, <2>2, <2>6, <3>1 DEF QueryAsksName
    <3>. QED
      BY <1>1, <3>1, <3>2 DEF AskInv
  <2>. QED
    BY <2>5, <2>6
<1>3. ASSUME UNCHANGED <<case, asked, query>>,
             \/ step' = step /\ https' = https
             \/ step # "start" /\ step' # "start"
      PROVE  AskInv'
  BY <1>3 DEF AskInv, QueryAsksName
<1>4. CASE UdpStep
  <2>1. step # "start" /\ UNCHANGED <<case, asked, query, https>>
    BY <1>4 DEF UdpStep, AskInv
  <2>2. step' # "start"
    BY <1>4, <2>1 DEF UdpStep, Parse
  <2>. QED
    BY <1>3, <2>1, <2>2
<1>5. CASE ServerAnswers
  <2>1. UNCHANGED <<case, asked, query>> /\ step' = step /\ https' = https
    BY <1>5 DEF ServerAnswers
  <2>. QED
    BY <1>3, <2>1
<1>6. CASE HttpsStep
  BY <1>3, <1>6 DEF HttpsStep
<1>7. CASE HttpsRead
  <2>1. step # "start" /\ UNCHANGED <<case, asked, query>>
    BY <1>7 DEF HttpsRead, AskInv
  <2>2. step' # "start"
    BY <1>7 DEF HttpsRead, Parse
  <2>. QED
    BY <1>3, <2>1, <2>2
<1>8. CASE HttpsFails
  BY <1>3, <1>8 DEF HttpsFails
<1>9. CASE UNCHANGED <<vars, lookup>>
  <2>1. lookup' = lookup
    BY <1>9
  <2>2. UNCHANGED <<case, asked, query>> /\ step' = step /\ https' = https
    BY <2>1 DEF lookup
  <2>. QED
    BY <1>3, <2>2
<1>. QED
  BY <1>2, <1>4, <1>5, <1>6, <1>7, <1>8, <1>9 DEF LookupNext

LEMMA LookupStarts == LookupInit => AskInv
BY DEF LookupInit, AskInv, QueryAsksName

(* For every domain that is asked for and every query of a client: the     *)
(* server is sent exactly the name that is looked up, and what is no name, *)
(* or cut, is never sent.                                                  *)
THEOREM NameAsked == LookupSpec => []QueryAsksName
<1>1. AskInv => QueryAsksName
  BY DEF AskInv
<1>. QED
  BY <1>1, LookupStarts, AskInvKept, PTL DEF LookupSpec

(* A lookup moves its UDP client only as UdpDnsServer says.                *)
THEOREM LookupIsUdp == LookupSpec => Spec
<1>1. LookupInit => Init
  BY DEF LookupInit
<1>2. AskInv /\ [LookupNext]_<<vars, lookup>> => [Next]_vars
  <2> SUFFICES ASSUME AskInv, [LookupNext]_<<vars, lookup>> PROVE [Next]_vars
    OBVIOUS
  <2>1. CASE ServerAnswers
    <3>1. PICK a \in case.answers : Arrive(Received(a.data))
      BY <2>1 DEF ServerAnswers
    <3>2. Received(a.data) \in Replies
      BY <2>1, RepliesAssumption DEF ServerAnswers, AskInv
    <3>. QED
      BY <3>1, <3>2 DEF Next
  <2>2. CASE UdpStep
    BY <2>2 DEF UdpStep, Next
  <2>3. CASE ~ServerAnswers /\ ~UdpStep
    BY <2>3 DEF LookupNext, Ask, HttpsStep, HttpsRead, HttpsFails
  <2>. QED
    BY <2>1, <2>2, <2>3
<1>. QED
  BY <1>1, <1>2, LookupStarts, AskInvKept, PTL DEF LookupSpec, Spec

(* So what relay() promises holds of every lookup over UDP.                *)
COROLLARY LookupReturnsFirst == LookupSpec => [](FirstReplyReturned /\ OneReplyIsSafe)
BY LookupIsUdp, ReturnsFirst, SafeWithOneReply, PTL

-----------------------------------------------------------------------------
(* A position in a message, or outside of it if it ends before.            *)
Clip(data, e) == IF e <= Len(data) THEN e ELSE Outside(data)

LEMMA ClipOver ==
  ASSUME NEW data \in Seq(Nat), NEW e \in Nat, NEW n \in Nat
  PROVE  /\ Clip(data, e) \in Nat /\ Over(data, n, Clip(data, e)) = Clip(data, e + n)
         /\ e <= Len(data) <=> Clip(data, e) <= Len(data)
         /\ e <= Len(data) => Clip(data, e) = e
         /\ e > Len(data) => Clip(data, e + n) = Clip(data, e) /\ Clip(data, e) = Outside(data)
<1>1. Len(data) \in Nat
  BY LenProperties
<1>. QED
  BY <1>1 DEF Clip, Over, Outside

(* Labels taken apart, and with what ends the name.                        *)
LEMMA LabelsHead ==
  ASSUME NEW ls \in Seq(Seq(Nat))
  PROVE  /\ Labels(ls) \in Seq(Nat) /\ Labels(<<>>) = <<>>
         /\ ls # <<>> => Labels(ls) = ShortField(Head(ls)) \o Labels(Tail(ls))
<1> DEFINE f == [l \in Seq(Nat) |-> ShortField(l)]
<1>1. f \in [Seq(Nat) -> Seq(Nat)] /\ \A l \in Seq(Nat) : f[l] = ShortField(l)
  BY ShortFieldTaken
<1>2. ASSUME NEW t \in Seq(Seq(Nat)) PROVE Mapped(f, t) = Labels(t)
  <2>1. \A i \in DOMAIN t : t[i] \in Seq(Nat)
    BY ElementOfSeq, LenProperties
  <2>2. [i \in DOMAIN t |-> f[t[i]]] = [i \in DOMAIN t |-> ShortField(t[i])]
    BY <1>1, <2>1
  <2>. QED
    BY <2>2 DEF Labels, Mapped
<1>3. <<>> \in Seq(Seq(Nat))
  BY EmptySeq
<1> HIDE DEF f
<1>4. Mapped(f, ls) \in Seq(Nat) /\ Mapped(f, <<>>) = <<>>
      /\ (ls # <<>> => Mapped(f, ls) = f[Head(ls)] \o Mapped(f, Tail(ls)))
  <2>1. f \in [Seq(Nat) -> Seq(Nat)]
    BY <1>1
  <2>2. MapsOn(f, ls, Nat)
    BY <2>1, MapHead
  <2>. QED
    BY <2>2 DEF MapsOn
<1>5. ls # <<>> => Head(ls) \in Seq(Nat) /\ Tail(ls) \in Seq(Seq(Nat))
  BY HeadTailProperties
<1>. QED
  BY <1>1, <1>2, <1>3, <1>4, <1>5

Ends == {<<0>>} \cup ((192 .. 255) \X Nat)
Ended(ls, end) == Labels(ls) \o end

LEMMA EndIs ==
  ASSUME NEW end \in Ends
  PROVE  /\ end \in Seq(Nat)
         /\ (Len(end) = 1 /\ end[1] = 0) \/ (Len(end) = 2 /\ end[1] \in 192 .. 255)
<1>1. CASE end = <<0>>
  BY <1>1
<1>2. CASE end \in (192 .. 255) \X Nat
  <2>1. PICK a \in 192 .. 255, b \in Nat : end = <<a, b>>
    BY <1>2
  <2>. QED
    BY <2>1
<1>. QED
  BY <1>1, <1>2 DEF Ends

LEMMA EndedHead ==
  ASSUME NEW ls \in Seq(Seq(Nat)), NEW end \in Ends
  PROVE  /\ Ended(ls, end) \in Seq(Nat) /\ Len(Ended(ls, end)) \in Nat \ {0}
         /\ Ended(<<>>, end) = end
         /\ ls # <<>> => /\ Ended(ls, end) = ShortField(Head(ls)) \o Ended(Tail(ls), end)
                         /\ Len(Ended(ls, end)) = 1 + Len(Head(ls)) + Len(Ended(Tail(ls), end))
<1>1. end \in Seq(Nat) /\ Len(end) \in Nat \ {0}
  BY EndIs
<1>2. ASSUME NEW l \in Seq(Seq(Nat))
      PROVE  Ended(l, end) \in Seq(Nat) /\ Len(Ended(l, end)) \in Nat \ {0}
  <2> DEFINE x == Labels(l)
  <2>1. x \in Seq(Nat)
    BY LabelsHead
  <2>2. Ended(l, end) = x \o end
    BY DEF Ended
  <2> HIDE DEF x
  <2>3. x \o end \in Seq(Nat) /\ Len(x \o end) = Len(x) + Len(end) /\ Len(x) \in Nat
    BY <1>1, <2>1, Joined
  <2>. QED
    BY <1>1, <2>2, <2>3
<1>3. Ended(<<>>, end) = end
  BY <1>1, LabelsHead, ConcatEmptySeq DEF Ended
<1>4. ASSUME ls # <<>>
      PROVE  /\ Ended(ls, end) = ShortField(Head(ls)) \o Ended(Tail(ls), end)
             /\ Len(Ended(ls, end)) = 1 + Len(Head(ls)) + Len(Ended(Tail(ls), end))
  <2> DEFINE h == Head(ls)
             x == ShortField(h)
             y == Labels(Tail(ls))
             z == Ended(Tail(ls), end)
  <2>1. h \in Seq(Nat) /\ Tail(ls) \in Seq(Seq(Nat))
    BY <1>4, HeadTailProperties
  <2>2. x \in Seq(Nat) /\ Len(x) = 1 + Len(h) /\ y \in Seq(Nat) /\ z \in Seq(Nat)
    BY <1>2, <2>1, ShortFieldTaken, LabelsHead
  <2>3. Ended(ls, end) = (x \o y) \o end /\ z = y \o end
    BY <1>4, LabelsHead DEF Ended
  <2> HIDE DEF x, y, z, h
  <2>4. Ended(ls, end) = x \o z
    <3>1. Associates(x, y, end)
      BY <1>1, <2>2, Associated
    <3>. QED
      BY <2>3, <3>1 DEF Associates
  <2>5. Len(x \o z) = Len(x) + Len(z)
    BY <2>2, Joined
  <2>6. Len(Ended(ls, end)) = 1 + Len(h) + Len(z)
    BY <2>2, <2>4, <2>5
  <2>. QED
    BY <2>4, <2>6 DEF x, z, h
<1>. QED
  BY <1>2, <1>3, <1>4

-----------------------------------------------------------------------------
(* The loop over labels has a solution. *)
SkipsFrom(from, packet) ==
  from = [o \in 0 .. Len(packet) |->
            IF o = Len(packet) THEN Outside(packet)
            ELSE IF packet[o + 1] >= 192 THEN OverPointer(packet, o)
            ELSE IF packet[o + 1] = 0 THEN o + 1
            ELSE IF packet[o + 1] > 63 \/ o + packet[o + 1] + 1 > Len(packet) THEN Outside(packet)
            ELSE from[o + packet[o + 1] + 1]]

LEMMA SkipsWalk ==
  ASSUME NEW data \in Seq(Nat)
  PROVE  \E from : /\ SkipsFrom(from, data)
                   /\ \A o \in Nat : skipName(data, o) = IF o > Len(data) THEN o ELSE from[o]
<1> DEFINE n == Len(data)
           S == 0 .. n
           to(q) == q + data[q + 1] + 1
           stops(q) == q = n \/ data[q + 1] >= 192 \/ data[q + 1] = 0 \/ data[q + 1] > 63 \/ to(q) > n
           Stop == {q \in S : stops(q)}
           val == [q \in S |-> IF q = n THEN Outside(data)
                               ELSE IF data[q + 1] >= 192 THEN OverPointer(data, q)
                               ELSE IF data[q + 1] = 0 THEN q + 1 ELSE Outside(data)]
           next == [q \in S \ Stop |-> to(q)]
<1>0. n \in Nat
  BY LenProperties
<1>1. S \in SUBSET Nat /\ Stop \in SUBSET S /\ \A q \in S : q <= n
  BY <1>0
<1>2. ASSUME NEW q \in S \ Stop PROVE to(q) \in S /\ to(q) > q
  <2>1. q \in Nat /\ q <= n /\ ~stops(q)
    BY <1>0, <1>2
  <2>2. q + 1 \in 1 .. n
    BY <1>0, <2>1
  <2>3. data[q + 1] \in Nat
    BY <2>2, ElementOfSeq
  <2>4. ~(to(q) > n)
    BY <2>1
  <2> DEFINE x == data[q + 1]
  <2> HIDE DEF x
  <2>5. to(q) = q + x + 1 /\ x \in Nat
    BY <2>3 DEF x
  <2> HIDE DEF to
  <2>6. to(q) \in 0 .. n /\ to(q) > q
    BY <1>0, <2>1, <2>4, <2>5
  <2>. QED
    BY <2>6
<1>3. next \in [S \ Stop -> S] /\ \A q \in S \ Stop : next[q] > q
  <2> HIDE DEF to, S, Stop
  <2>. QED
    BY <1>2
<1> HIDE DEF S, Stop, next, val, n
<1>4. PICK f : Walks(f, S, Stop, val, next)
  BY <1>0, <1>1, <1>3, Walk
<1> DEFINE Def(h, q) == IF q = n THEN Outside(data)
                        ELSE IF data[q + 1] >= 192 THEN OverPointer(data, q)
                        ELSE IF data[q + 1] = 0 THEN q + 1
                        ELSE IF data[q + 1] > 63 \/ to(q) > n THEN Outside(data)
                        ELSE h[to(q)]
<1>5. \A q \in S : (IF q \in Stop THEN val[q] ELSE f[next[q]]) = Def(f, q)
  BY DEF Stop, val, next
<1>6. f = [q \in S |-> Def(f, q)]
  BY <1>4, <1>5 DEF Walks
<1>7. SkipsFrom(f, data)
  BY <1>6 DEF SkipsFrom, S, n
<1>8. \E from : SkipsFrom(from, data)
  BY <1>7
<1>9. \A o \in Nat : skipName(data, o) = IF o > Len(data) THEN o
                                       ELSE (CHOOSE from : SkipsFrom(from, data))[o]
  BY DEF skipName, SkipsFrom
<1>. QED
  BY <1>8, <1>9

(* A name is skipped up to its end, or out of a message that ends before.  *)
LEMMA NameSkipped ==
  ASSUME NEW name, IsName(name), NEW data \in Seq(Nat), NEW p \in Nat,
         Lies(NameBytes(name), data, p)
  PROVE  /\ NameBytes(name) \in Seq(Nat)
         /\ skipName(data, Clip(data, p)) = Clip(data, p + Len(NameBytes(name)))
<1> DEFINE end == name.end
           labels == name.labels
           D == Len(data)
<1>0. D \in Nat
  BY LenProperties
<1>1. end \in Ends /\ labels \in Seq(Seq(Nat)) /\ \A i \in 1 .. Len(labels) : Len(labels[i]) \in 1 .. 63
  BY LenProperties DEF IsName, Names, Ends
<1>2. NameBytes(name) = Ended(labels, end)
  BY DEF NameBytes, Ended
<1>3. Lies(Ended(labels, end), data, p)
  BY <1>2
<1> HIDE DEF end, labels
<1>4. PICK from : /\ SkipsFrom(from, data)
                  /\ \A o \in Nat : skipName(data, o) = IF o > D THEN o ELSE from[o]
  BY SkipsWalk
<1>5. ASSUME NEW o \in 0 .. D
      PROVE  from[o] = IF o = D THEN Outside(data)
                       ELSE IF data[o + 1] >= 192 THEN OverPointer(data, o)
                       ELSE IF data[o + 1] = 0 THEN o + 1
                       ELSE IF data[o + 1] > 63 \/ o + data[o + 1] + 1 > D THEN Outside(data)
                       ELSE from[o + data[o + 1] + 1]
  BY <1>4 DEF SkipsFrom
<1> DEFINE Fit(ls) == \A i \in 1 .. Len(ls) : Len(ls[i]) \in 1 .. 63
           At(ls, q) == Fit(ls) /\ Lies(Ended(ls, end), data, q)
           P(k) == \A ls \in Seq(Seq(Nat)), q \in 0 .. D :
                     Len(ls) = k /\ At(ls, q) => from[q] = Clip(data, q + Len(Ended(ls, end)))
           G == {k \in Nat : P(k)}
<1>6. P(0)
  <2> SUFFICES ASSUME NEW ls \in Seq(Seq(Nat)), NEW q \in 0 .. D, Len(ls) = 0, At(ls, q)
               PROVE  from[q] = Clip(data, q + Len(Ended(ls, end)))
    OBVIOUS
  <2>1. ls = <<>>
    BY EmptySeq
  <2>2. Ended(ls, end) = end /\ Lies(end, data, q)
    BY <1>1, <2>1, EndedHead
  <2>3. end \in Seq(Nat) /\ ((Len(end) = 1 /\ end[1] = 0) \/ (Len(end) = 2 /\ end[1] \in 192 .. 255))
    BY <1>1, EndIs
  <2> HIDE DEF D
  <2>4. CASE q = D
    <3>1. from[q] = Outside(data)
      BY <1>5, <2>4
    <3>2. ~(q + Len(end) <= Len(data))
      BY <1>0, <2>3, <2>4 DEF D
    <3>. QED
      BY <2>2, <3>1, <3>2 DEF Clip
  <2>5. CASE q # D
    <3>1. 1 \in 1 .. Len(end) /\ q + 1 <= D /\ q \in Nat
      BY <1>0, <2>3, <2>5
    <3>2. data[q + 1] = end[1]
      BY <2>2, <3>1 DEF Lies, D
    <3>3. CASE end[1] = 0
      <4>1. from[q] = q + 1 /\ Len(end) = 1
        BY <1>5, <2>3, <2>5, <3>2, <3>3
      <4>. QED
        BY <2>2, <3>1, <4>1 DEF Clip, D
    <3>4. CASE end[1] # 0
      <4>1. Len(end) = 2 /\ data[q + 1] \in 192 .. 255
        BY <2>3, <3>2, <3>4
      <4>2. data[q + 1] >= 192
        <5> DEFINE x == data[q + 1]
        <5>1. x \in 192 .. 255
          BY <4>1
        <5> HIDE DEF x
        <5>2. x >= 192
          BY <5>1
        <5>. QED
          BY <5>2 DEF x
      <4>3. from[q] = OverPointer(data, q)
        BY <1>5, <2>5, <4>2
      <4>. QED
        BY <1>0, <2>2, <3>1, <4>1, <4>3 DEF Clip, D, OverPointer, Over, Outside
    <3>. QED
      BY <3>3, <3>4
  <2>. QED
    BY <2>4, <2>5
<1>7. ASSUME NEW k \in Nat, P(k) PROVE P(k + 1)
  <2> SUFFICES ASSUME NEW ls \in Seq(Seq(Nat)), NEW q \in 0 .. D, Len(ls) = k + 1, At(ls, q)
               PROVE  from[q] = Clip(data, q + Len(Ended(ls, end)))
    OBVIOUS
  <2> DEFINE h == Head(ls)
             rest == Tail(ls)
             c == Len(h)
             r == Len(Ended(rest, end))
             q2 == q + c + 1
  <2>0. Fit(ls) /\ Lies(Ended(ls, end), data, q) /\ q \in Nat
    BY <1>0
  <2> HIDE DEF P, At
  <2>1. ls # <<>>
    BY EmptySeq
  <2>2. h \in Seq(Nat) /\ rest \in Seq(Seq(Nat)) /\ Len(rest) = k /\ h = ls[1]
        /\ \A i \in 1 .. k : rest[i] = ls[i + 1]
    BY <2>1, HeadTailProperties
  <2>3. c \in 1 .. 63 /\ Fit(rest)
    <3>1. 1 \in 1 .. Len(ls) /\ \A i \in 1 .. k : i + 1 \in 1 .. Len(ls)
      OBVIOUS
    <3>. QED
      BY <2>0, <2>2, <3>1
  <2>4. /\ Ended(ls, end) = ShortField(h) \o Ended(rest, end)
        /\ Len(Ended(ls, end)) = 1 + c + r
    BY <1>1, <2>1, EndedHead
  <2>5. /\ ShortField(h) \in Seq(Nat) /\ Len(ShortField(h)) = 1 + c
        /\ Ended(rest, end) \in Seq(Nat) /\ r \in Nat \ {0}
    BY <1>1, <2>2, EndedHead, ShortFieldTaken
  <2>6. Lies(ShortField(h), data, q) /\ Lies(Ended(rest, end), data, q + (1 + c))
    BY <2>0, <2>4, <2>5, LiesParts
  <2>7. q + 1 <= D => data[q + 1] = c
    BY <2>0, <2>2, <2>6, ShortFieldTaken
  <2> HIDE DEF h, rest, r, c, Fit
  <2>8. q2 \in Nat /\ q2 = q + (1 + c) /\ q + (1 + c + r) = q2 + r /\ q2 + r \in Nat /\ q \in Nat
    BY <1>0, <2>3, <2>5
  <2>9. q2 <= D => from[q2] = Clip(data, q2 + r)
    <3>1. At(rest, q2)
      BY <2>3, <2>6, <2>8 DEF At
    <3>2. q2 <= D => q2 \in 0 .. D
      BY <1>0, <2>8
    <3> HIDE DEF q2, D
    <3>. QED
      BY <1>7, <2>2, <3>1, <3>2 DEF P, r
  <2>10. CASE q2 <= D
    <3>1. q # D /\ q + 1 <= D /\ ~(c >= 192) /\ c # 0 /\ ~(c > 63) /\ ~(q + c + 1 > D)
      BY <1>0, <2>3, <2>10
    <3>2. from[q] = from[q2]
      BY <1>5, <2>7, <3>1
    <3>. QED
      BY <2>4, <2>8, <2>9, <2>10, <3>2
  <2>11. CASE ~(q2 <= D)
    <3>1. q # D => q + 1 <= D /\ ~(c >= 192) /\ c # 0 /\ q + c + 1 > D
      BY <1>0, <2>3, <2>11
    <3>2. from[q] = Outside(data)
      BY <1>5, <2>7, <3>1
    <3>3. ~(q2 + r <= D)
      BY <1>0, <2>5, <2>8, <2>11
    <3>. QED
      BY <2>4, <2>8, <3>2, <3>3 DEF Clip
  <2>. QED
    BY <2>10, <2>11
<1>8. Nat \subseteq G
  <2> HIDE DEF P
  <2>1. 0 \in G /\ \A k \in Nat : k \in G => k + 1 \in G
    BY <1>6, <1>7
  <2>. QED
    BY <2>1, SetInduction
<1>9. P(Len(labels)) /\ At(labels, p)
  BY <1>1, <1>3, <1>8, LenProperties
<1>10. Ended(labels, end) \in Seq(Nat) /\ Len(Ended(labels, end)) \in Nat
  BY <1>1, EndedHead
<1> DEFINE w == Len(Ended(labels, end))
<1>11. skipName(data, Clip(data, p)) = Clip(data, p + w)
  <2> HIDE DEF P, At
  <2>1. CASE p <= D
    <3>1. Clip(data, p) = p /\ p \in 0 .. D /\ ~(p > D)
      BY <1>0, <2>1 DEF Clip
    <3>2. from[p] = Clip(data, p + w)
      BY <1>1, <1>9, <3>1 DEF P
    <3>. QED
      BY <1>4, <3>1, <3>2
  <2>2. CASE ~(p <= D)
    <3>1. Clip(data, p) = Outside(data) /\ Outside(data) \in Nat /\ Outside(data) > D
      BY <1>0, <2>2 DEF Clip, Outside
    <3>2. ~(p + w <= D)
      BY <1>0, <1>10, <2>2
    <3>. QED
      BY <1>4, <3>1, <3>2 DEF Clip
  <2>. QED
    BY <2>1, <2>2
<1>. QED
  BY <1>2, <1>10, <1>11
-----------------------------------------------------------------------------
(* A question behind a position, and all the questions.                    *)
Question == [name : Names, kind : Seq(Nat)]
IsQuestion(q) == q \in Question /\ IsName(q.name) /\ Len(q.kind) = 4
QuestionList(qs) == [i \in DOMAIN qs |-> QuestionBytes(qs[i])]

LEMMA QuestionSkipped ==
  ASSUME NEW q, IsQuestion(q)
  PROVE  /\ QuestionBytes(q) \in Seq(Nat) /\ Len(QuestionBytes(q)) \in Nat
         /\ \A data \in Seq(Nat), p \in Nat :
              Lies(QuestionBytes(q), data, p) =>
                Over(data, 4, skipName(data, Clip(data, p))) = Clip(data, p + Len(QuestionBytes(q)))
<1> DEFINE x == NameBytes(q.name)
           y == q.kind
           m == Len(x)
<1>1. IsName(q.name) /\ y \in Seq(Nat) /\ Len(y) = 4
  BY DEF IsQuestion, Question
<1>2. x \in Seq(Nat) /\ m \in Nat
  <2>1. q.name.labels \in Seq(Seq(Nat)) /\ q.name.end \in Ends
    BY <1>1 DEF IsName, Names, Ends
  <2>2. Ended(q.name.labels, q.name.end) \in Seq(Nat)
    BY <2>1, EndedHead
  <2>. QED
    BY <2>2, LenProperties DEF NameBytes, Ended
<1>3. QuestionBytes(q) = x \o y
  BY DEF QuestionBytes
<1>4. \A data \in Seq(Nat), p \in Nat : Lies(x, data, p) => skipName(data, Clip(data, p)) = Clip(data, p + m)
  BY <1>1, NameSkipped
<1> HIDE DEF x, y
<1>5. x \o y \in Seq(Nat) /\ Len(x \o y) = m + 4
  <2>1. x \o y \in Seq(Nat) /\ Len(x \o y) = Len(x) + Len(y)
    BY <1>1, <1>2, Joined
  <2>. QED
    BY <1>1, <2>1
<1> HIDE DEF m
<1>6. ASSUME NEW data \in Seq(Nat), NEW p \in Nat, Lies(x \o y, data, p)
      PROVE  Over(data, 4, skipName(data, Clip(data, p))) = Clip(data, p + (m + 4))
  <2>1. Lies(x, data, p)
    BY <1>1, <1>2, <1>6, LiesParts
  <2>2. skipName(data, Clip(data, p)) = Clip(data, p + m)
    BY <1>4, <2>1
  <2>3. p + m \in Nat /\ (p + m) + 4 = p + (m + 4)
    BY <1>2
  <2>4. Over(data, 4, Clip(data, p + m)) = Clip(data, (p + m) + 4)
    BY <2>3, ClipOver
  <2>. QED
    BY <2>2, <2>3, <2>4
<1>. QED
  BY <1>2, <1>3, <1>5, <1>6

LEMMA QuestionListIs ==
  ASSUME NEW qs \in Seq(Question), \A i \in DOMAIN qs : IsQuestion(qs[i])
  PROVE  /\ QuestionList(qs) \in Seq(Seq(Nat)) /\ Len(QuestionList(qs)) = Len(qs)
         /\ \A i \in 1 .. Len(qs) : QuestionList(qs)[i] = QuestionBytes(qs[i])
         /\ FlattenSeq(QuestionList(qs)) \in Seq(Nat) /\ Len(FlattenSeq(QuestionList(qs))) \in Nat
<1> DEFINE n == Len(qs)
           ss == QuestionList(qs)
<1>1. n \in Nat /\ DOMAIN qs = 1 .. n
  BY LenProperties
<1>2. \A i \in 1 .. n : QuestionBytes(qs[i]) \in Seq(Nat)
  BY <1>1, QuestionSkipped
<1>3. ss = [i \in 1 .. n |-> QuestionBytes(qs[i])]
  BY <1>1 DEF QuestionList
<1>4. ss \in Seq(Seq(Nat)) /\ Len(ss) = n
  <2>1. ss \in [1 .. n -> Seq(Nat)]
    BY <1>2, <1>3
  <2> HIDE DEF ss
  <2>. QED
    BY <1>1, <2>1
<1>5. FlattenSeq(ss) \in Seq(Nat)
  BY <1>4, FlattenAppend, EmptySeq
<1>. QED
  BY <1>3, <1>4, <1>5, LenProperties

LEMMA QuestionsRead ==
  ASSUME NEW qs \in Seq(Question), \A i \in DOMAIN qs : IsQuestion(qs[i]),
         NEW data \in Seq(Nat), 12 <= Len(data), Number(data, 4, 2) = Len(qs),
         Lies(FlattenSeq(QuestionList(qs)), data, 12)
  PROVE  Questions(data) = Clip(data, 12 + Len(FlattenSeq(QuestionList(qs))))
<1> DEFINE n == Len(qs)
           ss == QuestionList(qs)
           Rec(h) == h = [i \in 0 .. n |-> IF i = 0 THEN 12
                                           ELSE Over(data, 4, skipName(data, h[i - 1]))]
           after == CHOOSE h : Rec(h)
<1>1. n \in Nat /\ DOMAIN qs = 1 .. n
  BY LenProperties
<1>2. ss \in Seq(Seq(Nat)) /\ Len(ss) = n /\ \A i \in 1 .. n : ss[i] = QuestionBytes(qs[i])
  BY QuestionListIs
<1>3. Questions(data) = after[n]
  BY DEF Questions
<1>4. Lies(FlattenSeq(ss), data, 12)
  OBVIOUS
<1> HIDE DEF after, ss
<1>5. PICK st : Offsets(st, ss)
  BY <1>2, FlattenOffsets
<1>6. /\ st \in [1 .. n + 1 -> Nat] /\ st[1] = 0 /\ st[n + 1] = Len(FlattenSeq(ss))
      /\ \A i \in 1 .. n : st[i + 1] = st[i] + Len(ss[i])
  BY <1>2, <1>5 DEF Offsets
<1>7. \A i \in 1 .. n : Lies(ss[i], data, 12 + st[i])
  BY <1>2, <1>4, <1>5, FlattenTaken
<1> HIDE DEF n
<1> DEFINE f == [i \in 0 .. n |-> Clip(data, 12 + st[i + 1])]
<1>8. f[0] = 12
  <2>1. 12 + st[1] = 12 /\ 0 \in 0 .. n
    BY <1>1, <1>6
  <2>2. Clip(data, 12) = 12
    BY DEF Clip
  <2>. QED
    BY <2>1, <2>2
<1>9. ASSUME NEW i \in 1 .. n PROVE f[i] = Over(data, 4, skipName(data, f[i - 1]))
  <2> DEFINE p == 12 + st[i]
             q == qs[i]
  <2>0. i \in 1 .. n + 1 /\ i - 1 \in 0 .. n /\ i \in 0 .. n /\ (i - 1) + 1 = i
    BY <1>1
  <2>1. st[i] \in Nat /\ IsQuestion(q) /\ i - 1 \in 0 .. n /\ i \in 0 .. n /\ (i - 1) + 1 = i
    BY <1>1, <1>6, <2>0
  <2>2. p \in Nat /\ Lies(QuestionBytes(q), data, p)
    <3>1. Lies(ss[i], data, p) /\ ss[i] = QuestionBytes(q)
      BY <1>2, <1>7
    <3>. QED
      BY <2>1, <3>1
  <2>3. f[i - 1] = Clip(data, p)
    BY <2>1
  <2>4. Over(data, 4, skipName(data, Clip(data, p))) = Clip(data, p + Len(QuestionBytes(q)))
    <3> HIDE DEF p, q
    <3>. QED
      BY <2>1, <2>2, QuestionSkipped
  <2>5. p + Len(QuestionBytes(q)) = 12 + st[i + 1]
    <3> DEFINE l == Len(QuestionBytes(q))
               s == st[i]
    <3>1. l \in Nat /\ s \in Nat /\ st[i + 1] = s + l
      BY <1>2, <1>6, <2>1, QuestionSkipped
    <3> HIDE DEF l, s
    <3>2. (12 + s) + l = 12 + (s + l)
      BY <3>1
    <3>. QED
      BY <3>1, <3>2 DEF l, s
  <2>. QED
    BY <2>1, <2>3, <2>4, <2>5
<1> HIDE DEF f
<1>10. \E h : Rec(h)
  <2>1. DOMAIN f = 0 .. n /\ f = [i \in 0 .. n |-> f[i]]
    BY DEF f
  <2>2. \A i \in 0 .. n : f[i] = IF i = 0 THEN 12 ELSE Over(data, 4, skipName(data, f[i - 1]))
    BY <1>1, <1>8, <1>9
  <2>3. Rec(f)
    BY <2>1, <2>2
  <2>. QED
    BY <2>3
<1>11. Rec(after)
  BY <1>10 DEF after
<1>12. \A i \in 0 .. n : after[i] = IF i = 0 THEN 12 ELSE Over(data, 4, skipName(data, after[i - 1]))
  BY <1>11
<1>13. after[n] = f[n]
  <2> DEFINE P(i) == i <= n => after[i] = f[i]
             G == {i \in Nat : P(i)}
  <2>1. P(0)
    BY <1>1, <1>8, <1>12
  <2>2. ASSUME NEW i \in Nat, P(i) PROVE P(i + 1)
    <3> SUFFICES ASSUME i + 1 <= n PROVE after[i + 1] = f[i + 1]
      OBVIOUS
    <3>1. i + 1 \in 1 .. n /\ i + 1 \in 0 .. n /\ (i + 1) - 1 = i /\ i <= n /\ i + 1 # 0
      BY <1>1
    <3>2. after[i] = f[i]
      BY <2>2, <3>1
    <3>. QED
      BY <1>9, <1>12, <3>1, <3>2
  <2>3. Nat \subseteq G
    <3> HIDE DEF P
    <3>1. 0 \in G /\ \A i \in Nat : i \in G => i + 1 \in G
      BY <2>1, <2>2
    <3>. QED
      BY <3>1, SetInduction
  <2>. QED
    BY <1>1, <2>3
<1>14. f[n] = Clip(data, 12 + Len(FlattenSeq(ss)))
  <2>1. n \in 0 .. n
    BY <1>1
  <2>. QED
    BY <1>6, <2>1 DEF f
<1>. QED
  BY <1>3, <1>13, <1>14 DEF ss
-----------------------------------------------------------------------------
(* A record behind a position: where it ends, and the address in it.       *)
Record == [owner : Names, type : Nat, class : Nat, ttl : Seq(Nat), rdata : Seq(Nat)]
IsRecord(r) == r \in Record /\ IsName(r.owner) /\ Len(r.ttl) = 4

RecordEnd(data, pos) ==
  IF Over(data, 10, skipName(data, pos)) > Len(data) THEN Outside(data)
  ELSE After(data, skipName(data, pos) + 8, 2)

(* The loop over the records reads it, or leaves the message.              *)
Passes(data, p, r) ==
  LET e == p + Len(RecordBytes(r))
      pos == Clip(data, p)
  IN  /\ e <= Len(data) => /\ RecordEnd(data, pos) = e
                           /\ AddressAt(data, skipName(data, pos)) = AddressesIn(r)
      /\ e > Len(data) => RecordEnd(data, pos) > Len(data)

LEMMA RecordPassed ==
  ASSUME NEW r, IsRecord(r)
  PROVE  /\ RecordBytes(r) \in Seq(Nat) /\ Len(RecordBytes(r)) \in Nat
         /\ AddressesIn(r) \in Seq(Seq(Nat))
         /\ \A data \in Seq(Nat), p \in Nat : Lies(RecordBytes(r), data, p) => Passes(data, p, r)
<1> DEFINE x == NameBytes(r.owner)
           t == write_u16(r.type)
           c == write_u16(r.class)
           l == r.ttl
           y == r.rdata
           d == Field(y)
           m == Len(x)
           n == Len(y)
<1>1. /\ IsName(r.owner) /\ y \in Seq(Nat) /\ n \in Nat /\ l \in Seq(Nat) /\ Len(l) = 4
      /\ r.type \in Nat /\ r.class \in Nat
  BY LenProperties DEF IsRecord, Record
<1>2. x \in Seq(Nat) /\ m \in Nat
  <2>1. r.owner.labels \in Seq(Seq(Nat)) /\ r.owner.end \in Ends
    BY <1>1 DEF IsName, Names, Ends
  <2>2. Ended(r.owner.labels, r.owner.end) \in Seq(Nat)
    BY <2>1, EndedHead
  <2>. QED
    BY <2>2, LenProperties DEF NameBytes, Ended
<1>3. RecordBytes(r) = InARow(x, t, c, l, d)
  BY DEF RecordBytes, InARow
<1>4. \A data \in Seq(Nat), p \in Nat : Lies(x, data, p) => skipName(data, Clip(data, p)) = Clip(data, p + m)
  BY <1>1, NameSkipped
<1>5. AddressesIn(r) = IF r.class = 1 /\ <<r.type, n>> \in {<<A, 4>>, <<AAAA, 16>>} THEN <<y>> ELSE <<>>
  BY DEF AddressesIn
<1>6. t \in Seq(Nat) /\ Len(t) = 2 /\ c \in Seq(Nat) /\ Len(c) = 2
  BY <1>1, NumberTaken
<1>7. \A data \in Seq(Nat), p \in Nat :
        /\ Lies(t, data, p) /\ p + 2 <= Len(data) => Number(data, p, 2) = r.type
        /\ Lies(c, data, p) /\ p + 2 <= Len(data) => Number(data, p, 2) = r.class
  BY <1>1, NumberTaken
<1>8. d \in Seq(Nat) /\ Len(d) = 2 + n
  BY <1>1, FieldTaken
<1>9. \A data \in Seq(Nat), p \in Nat :
        Lies(d, data, p) =>
          /\ Lies(y, data, p + 2)
          /\ p + 2 <= Len(data) => Number(data, p, 2) = n /\ After(data, p, 2) = p + 2 + n
  BY <1>1, FieldTaken
<1> HIDE DEF x, t, c, l, d
<1>10. FollowEachOther(x, t, c, l, d)
  BY <1>1, <1>2, <1>6, <1>8, FiveJoined
<1> HIDE DEF y, m, n
<1>11. RecordBytes(r) \in Seq(Nat) /\ Len(RecordBytes(r)) = m + 10 + n
  <2>1. /\ InARow(x, t, c, l, d) \in Seq(Nat)
        /\ Len(InARow(x, t, c, l, d)) = Len(x) + Len(t) + Len(c) + Len(l) + Len(d)
    BY <1>10 DEF FollowEachOther
  <2>2. Len(x) = m /\ Len(t) = 2 /\ Len(c) = 2 /\ Len(l) = 4 /\ Len(d) = 2 + n
    BY <1>1, <1>6, <1>8 DEF m
  <2>. QED
    BY <1>1, <1>2, <1>3, <2>1, <2>2
<1>12. ASSUME NEW data \in Seq(Nat), NEW p \in Nat, Lies(RecordBytes(r), data, p)
       PROVE  Passes(data, p, r)
  <2> DEFINE D == Len(data)
             o == p + m
             e == o + 10 + n
             pos == Clip(data, p)
             skipped == skipName(data, pos)
  <2>0. D \in Nat /\ o \in Nat /\ e \in Nat /\ p + Len(RecordBytes(r)) = e /\ o + 10 \in Nat
    BY <1>1, <1>2, <1>11, LenProperties
  <2>1. /\ Lies(x, data, p) /\ Lies(t, data, o) /\ Lies(c, data, o + 2) /\ Lies(d, data, o + 8)
    <3>1. Lies(InARow(x, t, c, l, d), data, p)
      BY <1>3, <1>12
    <3>2. /\ Lies(x, data, p)
          /\ Lies(t, data, p + Len(x))
          /\ Lies(c, data, p + Len(x) + Len(t))
          /\ Lies(d, data, p + Len(x) + Len(t) + Len(c) + Len(l))
      BY <1>10, <3>1 DEF FollowEachOther
    <3>3. p + Len(x) = o /\ p + Len(x) + Len(t) = o + 2 /\ p + Len(x) + Len(t) + Len(c) + Len(l) = o + 8
      BY <1>1, <1>2, <1>6 DEF m
    <3>. QED
      BY <3>2, <3>3
  <2>2. skipped = Clip(data, o)
    BY <1>4, <2>1
  <2> HIDE DEF o, pos
  <2>3. Over(data, 10, skipped) = Clip(data, o + 10)
    BY <2>0, <2>2, ClipOver
  <2> HIDE DEF skipped
  <2>4. RecordEnd(data, pos) = IF Over(data, 10, skipped) > D THEN Outside(data)
                               ELSE After(data, skipped + 8, 2)
    BY DEF RecordEnd, skipped
  <2>5. CASE o + 10 > D
    <3>1. Clip(data, o + 10) = Outside(data) /\ Outside(data) > D
      BY <2>0, <2>5 DEF Clip, Outside
    <3>2. RecordEnd(data, pos) > D
      BY <2>3, <2>4, <3>1
    <3>3. e > D
      BY <1>1, <2>0, <2>5
    <3>4. ~(e <= D)
      BY <2>0, <3>3
    <3> HIDE DEF e
    <3>. QED
      BY <2>0, <3>2, <3>3, <3>4 DEF Passes, pos
  <2>6. CASE ~(o + 10 > D)
    <3>1. o + 10 <= D /\ o <= D /\ o + 2 <= D /\ (o + 2) + 2 <= D /\ (o + 8) + 2 <= D
          /\ o + 2 \in Nat /\ o + 8 \in Nat /\ (o + 8) + 2 = o + 10
      BY <2>0, <2>6
    <3>2. skipped = o /\ ~(Over(data, 10, skipped) > D)
      BY <2>0, <2>2, <2>3, <2>6, <3>1 DEF Clip
    <3>3. RecordEnd(data, pos) = After(data, o + 8, 2)
      BY <2>4, <3>2
    <3>4. Number(data, o, 2) = r.type /\ Number(data, o + 2, 2) = r.class
      BY <1>7, <2>0, <2>1, <3>1
    <3>5. /\ Number(data, o + 8, 2) = n /\ After(data, o + 8, 2) = e /\ Lies(y, data, o + 10)
      BY <1>9, <2>0, <2>1, <3>1
    <3>6. ASSUME e <= D PROVE AddressAt(data, skipped) = AddressesIn(r)
      <4>1. SubSeq(data, o + 11, o + 10 + n) = y
        <5> DEFINE q == o + 10
        <5>1. q \in Nat /\ Lies(y, data, q) /\ q + Len(y) <= Len(data) /\ q + 1 = o + 11
              /\ q + Len(y) = o + 10 + n
          BY <2>0, <3>5, <3>6 DEF n
        <5> HIDE DEF q
        <5>2. SubSeq(data, q + 1, q + Len(y)) = y
          BY <1>1, <5>1, LiesWhole
        <5>. QED
          BY <5>1, <5>2
      <4>2. AddressAt(data, o) = IF r.class = 1 /\ <<r.type, n>> \in {<<A, 4>>, <<AAAA, 16>>}
                                 THEN <<SubSeq(data, o + 11, o + 10 + n)>> ELSE <<>>
        BY <3>4, <3>5 DEF AddressAt
      <4>. QED
        BY <1>5, <3>2, <4>1, <4>2
    <3>7. RecordEnd(data, pos) = e
      BY <3>3, <3>5
    <3> HIDE DEF e
    <3>. QED
      BY <2>0, <3>6, <3>7 DEF Passes, pos, skipped
  <2>. QED
    BY <2>5, <2>6
<1>13. AddressesIn(r) \in Seq(Seq(Nat))
  <2>1. <<y>> \in Seq(Seq(Nat)) /\ <<>> \in Seq(Seq(Nat))
    BY <1>1, EmptySeq
  <2>. QED
    BY <1>5, <2>1
<1>14. Len(RecordBytes(r)) \in Nat
  BY <1>11, LenProperties
<1>. QED
  BY <1>11, <1>12, <1>13, <1>14
-----------------------------------------------------------------------------
(* The loop over the records. *)
AfterRecord(data, before) ==
  IF RecordEnd(data, before.pos) > Len(data) THEN [pos |-> Outside(data), found |-> <<>>]
  ELSE [pos |-> RecordEnd(data, before.pos),
        found |-> before.found \o AddressAt(data, skipName(data, before.pos))]

RecordList(rs) == [i \in DOMAIN rs |-> RecordBytes(rs[i])]
AddressList(rs) == [i \in DOMAIN rs |-> AddressesIn(rs[i])]

LEMMA RecordListIs ==
  ASSUME NEW rs \in Seq(Record), \A i \in DOMAIN rs : IsRecord(rs[i])
  PROVE  /\ RecordList(rs) \in Seq(Seq(Nat)) /\ Len(RecordList(rs)) = Len(rs)
         /\ \A i \in 1 .. Len(rs) : RecordList(rs)[i] = RecordBytes(rs[i])
         /\ FlattenSeq(RecordList(rs)) \in Seq(Nat) /\ Len(FlattenSeq(RecordList(rs))) \in Nat
         /\ AddressList(rs) \in Seq(Seq(Seq(Nat))) /\ Len(AddressList(rs)) = Len(rs)
         /\ \A i \in 1 .. Len(rs) : AddressList(rs)[i] = AddressesIn(rs[i])
         /\ FlattenSeq(AddressList(rs)) \in Seq(Seq(Nat))
<1> DEFINE n == Len(rs)
           ss == RecordList(rs)
           as == AddressList(rs)
<1>1. n \in Nat /\ DOMAIN rs = 1 .. n
  BY LenProperties
<1>2. \A i \in 1 .. n : RecordBytes(rs[i]) \in Seq(Nat) /\ AddressesIn(rs[i]) \in Seq(Seq(Nat))
  BY <1>1, RecordPassed
<1>3. ss = [i \in 1 .. n |-> RecordBytes(rs[i])] /\ as = [i \in 1 .. n |-> AddressesIn(rs[i])]
  BY <1>1 DEF RecordList, AddressList
<1>4. ss \in Seq(Seq(Nat)) /\ Len(ss) = n
  <2>1. ss \in [1 .. n -> Seq(Nat)]
    BY <1>2, <1>3
  <2> HIDE DEF ss
  <2>. QED
    BY <1>1, <2>1
<1>5. as \in Seq(Seq(Seq(Nat))) /\ Len(as) = n
  <2>1. as \in [1 .. n -> Seq(Seq(Nat))]
    BY <1>2, <1>3
  <2>2. Len(as) = n
    BY <1>1, <1>3
  <2> DEFINE T == Seq(Seq(Nat))
  <2>3. as \in [1 .. n -> T]
    BY <2>1
  <2> HIDE DEF as, T, n
  <2>4. as \in Seq(T)
    BY <1>1, <2>3, SeqDef, Zenon
  <2>. QED
    BY <2>2, <2>4 DEF T
<1>6. FlattenSeq(ss) \in Seq(Nat)
  BY <1>4, FlattenAppend, EmptySeq
<1>7. FlattenSeq(as) \in Seq(Seq(Nat))
  BY <1>5, FlattenAppend, EmptySeq
<1>. QED
  BY <1>3, <1>4, <1>5, <1>6, <1>7, LenProperties

(* The first of some sequences flattened, and one more. *)
FirstFew(ss, i) == FlattenSeq(SubSeq(ss, 1, i))

LEMMA OneMore ==
  ASSUME NEW S, NEW ss \in Seq(Seq(S))
  PROVE  /\ FirstFew(ss, 0) = <<>> /\ FirstFew(ss, Len(ss)) = FlattenSeq(ss)
         /\ \A i \in 1 .. Len(ss) : FirstFew(ss, i) = FirstFew(ss, i - 1) \o ss[i]
<1>1. Len(ss) \in Nat
  BY LenProperties
<1>2. FirstFew(ss, 0) = <<>>
  <2>1. SubSeq(ss, 1, 0) = <<>>
    BY SubSeqEmpty
  <2>2. FlattenSeq(<<>>) = <<>>
    BY EmptySeq DEF FlattenSeq
  <2>. QED
    BY <2>1, <2>2 DEF FirstFew
<1>3. FirstFew(ss, Len(ss)) = FlattenSeq(ss)
  BY SubSeqFull DEF FirstFew
<1>4. ASSUME NEW i \in 1 .. Len(ss) PROVE FirstFew(ss, i) = FirstFew(ss, i - 1) \o ss[i]
  <2> DEFINE t == SubSeq(ss, 1, i - 1)
             u == SubSeq(ss, 1, i)
             z == ss[i]
  <2>1. i - 1 \in Nat /\ i - 1 <= Len(ss) /\ i \in Nat /\ i <= Len(ss) /\ z \in Seq(S)
    BY <1>1, ElementOfSeq
  <2>2. \A k \in 1 .. i : ss[k] \in Seq(S)
    <3>1. \A k \in 1 .. i : k \in 1 .. Len(ss)
      BY <1>1
    <3>. QED
      BY <3>1, ElementOfSeq
  <2>3. /\ t \in Seq(Seq(S)) /\ Len(t) = i - 1 /\ \A k \in 1 .. i - 1 : t[k] = ss[k]
    <3>1. CASE i - 1 = 0
      <4>1. t = <<>>
        BY <3>1, SubSeqEmpty
      <4>. QED
        BY <3>1, <4>1, EmptySeq
    <3>2. CASE i - 1 # 0
      <4>1. 1 <= i - 1 /\ \A k \in 1 .. i - 1 : ss[k] \in Seq(S)
        BY <2>1, <2>2, <3>2
      <4>2. /\ t \in Seq(Seq(S)) /\ Len(t) = (i - 1) - 1 + 1
            /\ \A k \in 1 .. (i - 1) - 1 + 1 : t[k] = ss[1 + k - 1]
        BY <2>1, <4>1, SubSeqProperties
      <4> HIDE DEF t
      <4>3. (i - 1) - 1 + 1 = i - 1 /\ \A k \in 1 .. i - 1 : 1 + k - 1 = k
        BY <2>1
      <4>. QED
        BY <4>2, <4>3
    <3>. QED
      BY <3>1, <3>2
  <2>4. /\ u \in Seq(Seq(S)) /\ Len(u) = i /\ \A k \in 1 .. i : u[k] = ss[k]
    <3>1. 1 <= i
      BY <2>1
    <3>2. /\ u \in Seq(Seq(S)) /\ Len(u) = i - 1 + 1
          /\ \A k \in 1 .. i - 1 + 1 : u[k] = ss[1 + k - 1]
      BY <2>1, <2>2, <3>1, SubSeqProperties
    <3> HIDE DEF u
    <3>3. i - 1 + 1 = i /\ \A k \in 1 .. i : 1 + k - 1 = k
      BY <2>1
    <3>. QED
      BY <3>2, <3>3
  <2> HIDE DEF t, u
  <2>5. /\ Append(t, z) \in Seq(Seq(S)) /\ Len(Append(t, z)) = (i - 1) + 1
        /\ Append(t, z)[(i - 1) + 1] = z /\ \A k \in 1 .. i - 1 : Append(t, z)[k] = t[k]
    BY <2>1, <2>3, AppendProperties
  <2>6. \A k \in 1 .. i : u[k] = Append(t, z)[k]
    <3> SUFFICES ASSUME NEW k \in 1 .. i PROVE u[k] = Append(t, z)[k]
      OBVIOUS
    <3>1. (i - 1) + 1 = i /\ (k = i \/ k \in 1 .. i - 1)
      BY <2>1
    <3>. QED
      BY <2>3, <2>4, <2>5, <3>1 DEF z
  <2>7. u = Append(t, z)
    <3>1. (i - 1) + 1 = i
      BY <2>1
    <3> HIDE DEF z
    <3>. QED
      BY <2>4, <2>5, <2>6, <3>1, SeqEqual
  <2>8. FlattenSeq(u) = FlattenSeq(t) \o z
    BY <2>1, <2>3, <2>7, FlattenAppend
  <2>. QED
    BY <2>8 DEF FirstFew, t, u, z
<1>. QED
  BY <1>2, <1>3, <1>4
(* One record more: its end, and its addresses behind those before it.     *)
LEMMA RecordAfter ==
  ASSUME NEW r, IsRecord(r), NEW data \in Seq(Nat), NEW p \in Nat, Lies(RecordBytes(r), data, p),
         NEW found
  PROVE  LET e == p + Len(RecordBytes(r))
             before == [pos |-> Clip(data, p), found |-> IF p <= Len(data) THEN found ELSE <<>>]
         IN  AfterRecord(data, before) =
               [pos |-> Clip(data, e),
                found |-> IF e <= Len(data) THEN found \o AddressesIn(r) ELSE <<>>]
<1> DEFINE n == Len(RecordBytes(r))
           e == p + n
           pos == Clip(data, p)
           was == IF p <= Len(data) THEN found ELSE <<>>
           before == [pos |-> pos, found |-> was]
<1>1. n \in Nat /\ Passes(data, p, r) /\ Len(data) \in Nat
  BY RecordPassed, LenProperties
<1>2. /\ e <= Len(data) => /\ RecordEnd(data, pos) = e
                           /\ AddressAt(data, skipName(data, pos)) = AddressesIn(r)
      /\ e > Len(data) => RecordEnd(data, pos) > Len(data)
  BY <1>1 DEF Passes
<1>3. before.pos = pos /\ before.found = was
  OBVIOUS
<1> HIDE DEF n, pos, before
<1>4. AfterRecord(data, before) =
        IF RecordEnd(data, pos) > Len(data) THEN [pos |-> Outside(data), found |-> <<>>]
        ELSE [pos |-> RecordEnd(data, pos),
              found |-> was \o AddressAt(data, skipName(data, pos))]
  BY <1>3 DEF AfterRecord
<1>5. CASE e <= Len(data)
  <2>1. RecordEnd(data, pos) = e /\ ~(e > Len(data)) /\ Clip(data, e) = e /\ p <= Len(data)
    BY <1>1, <1>2, <1>5 DEF Clip
  <2>2. was = found
    BY <2>1
  <2>3. AddressAt(data, skipName(data, pos)) = AddressesIn(r)
    BY <1>2, <1>5
  <2>. QED
    BY <1>4, <1>5, <2>1, <2>2, <2>3 DEF n, before, pos
<1>6. CASE ~(e <= Len(data))
  <2>1. e > Len(data) /\ Clip(data, e) = Outside(data)
    BY <1>1, <1>6 DEF Clip
  <2>2. RecordEnd(data, pos) > Len(data)
    BY <1>2, <2>1
  <2>. QED
    BY <1>4, <1>6, <2>1, <2>2 DEF n, before, pos
<1>. QED
  BY <1>5, <1>6

(* The answer section behind the questions, which end at b: all of its     *)
(* addresses, or none if it is cut.                                        *)
LEMMA RecordsRead ==
  ASSUME NEW rs \in Seq(Record), \A i \in DOMAIN rs : IsRecord(rs[i]),
         NEW data \in Seq(Nat), 12 <= Len(data), Number(data, 6, 2) = Len(rs),
         NEW b \in Nat, Questions(data) = Clip(data, b),
         Lies(FlattenSeq(RecordList(rs)), data, b)
  PROVE  parse_dns_response(data) =
           IF b + Len(FlattenSeq(RecordList(rs))) <= Len(data) THEN FlattenSeq(AddressList(rs))
           ELSE Throws
<1> DEFINE n == Len(rs)
           ss == RecordList(rs)
           as == AddressList(rs)
           D == Len(data)
           first == [pos |-> Questions(data), found |-> <<>>]
           Rec(h) == h = [i \in 0 .. n |-> IF i = 0 THEN first ELSE AfterRecord(data, h[i - 1])]
           after == CHOOSE h : Rec(h)
<1>1. n \in Nat /\ DOMAIN rs = 1 .. n /\ D \in Nat
  BY LenProperties
<1>2. /\ ss \in Seq(Seq(Nat)) /\ Len(ss) = n /\ \A i \in 1 .. n : ss[i] = RecordBytes(rs[i])
      /\ as \in Seq(Seq(Seq(Nat))) /\ Len(as) = n /\ \A i \in 1 .. n : as[i] = AddressesIn(rs[i])
  BY RecordListIs
<1>3. parse_dns_response(data) = IF D < 12 \/ after[n].pos > D THEN Throws ELSE after[n].found
  <2> DEFINE N == Number(data, 6, 2)
             Made(h) == [i \in 0 .. N |-> IF i = 0 THEN first ELSE AfterRecord(data, h[i - 1])]
             made == CHOOSE h : h = Made(h)
  <2>1. parse_dns_response(data) = IF D < 12 \/ made[N].pos > D THEN Throws ELSE made[N].found
    BY DEF parse_dns_response, AfterRecord, RecordEnd
  <2>2. made = after
    <3>1. N = n
      OBVIOUS
    <3>. QED
      BY <3>1
  <2>3. N = n
    OBVIOUS
  <2> HIDE DEF made, after, N, n
  <2>. QED
    BY <2>1, <2>2, <2>3
<1>4. Lies(FlattenSeq(ss), data, b) /\ ~(D < 12)
  BY <1>1
<1> HIDE DEF after, ss, as
<1>5. PICK st : Offsets(st, ss)
  BY <1>2, FlattenOffsets
<1>6. /\ st \in [1 .. n + 1 -> Nat] /\ st[1] = 0 /\ st[n + 1] = Len(FlattenSeq(ss))
      /\ \A i \in 1 .. n : st[i + 1] = st[i] + Len(ss[i])
  BY <1>2, <1>5 DEF Offsets
<1>7. \A i \in 1 .. n : Lies(ss[i], data, b + st[i])
  BY <1>2, <1>4, <1>5, FlattenTaken
<1>8. /\ FirstFew(as, 0) = <<>> /\ FirstFew(as, n) = FlattenSeq(as)
      /\ \A i \in 1 .. n : FirstFew(as, i) = FirstFew(as, i - 1) \o as[i]
  <2> DEFINE T == Seq(Nat)
  <2>1. as \in Seq(Seq(T)) /\ Len(as) = n
    BY <1>2
  <2> HIDE DEF T
  <2>. QED
    BY <2>1, OneMore
<1> HIDE DEF n, D
<1> DEFINE f == [i \in 0 .. n |-> [pos |-> Clip(data, b + st[i + 1]),
                                  found |-> IF b + st[i + 1] <= D THEN FirstFew(as, i) ELSE <<>>]]
<1>9. f[0] = first
  <2>1. b + st[0 + 1] = b /\ 0 \in 0 .. n
    BY <1>1, <1>6
  <2>2. f[0] = [pos |-> Clip(data, b + st[0 + 1]),
                found |-> IF b + st[0 + 1] <= D THEN FirstFew(as, 0) ELSE <<>>]
    BY <2>1
  <2>. QED
    BY <1>8, <2>1, <2>2
<1>10. ASSUME NEW i \in 1 .. n PROVE f[i] = AfterRecord(data, f[i - 1])
  <2> DEFINE p == b + st[i]
             r == rs[i]
             l == Len(RecordBytes(r))
             found == FirstFew(as, i - 1)
             before == [pos |-> Clip(data, p), found |-> IF p <= D THEN found ELSE <<>>]
             e == b + st[i + 1]
  <2>0. i \in 1 .. n + 1 /\ i - 1 \in 0 .. n /\ i \in 0 .. n /\ (i - 1) + 1 = i
    BY <1>1
  <2>1. st[i] \in Nat /\ IsRecord(r)
    BY <1>1, <1>6, <2>0
  <2>2. p \in Nat /\ Lies(RecordBytes(r), data, p)
    <3>1. Lies(ss[i], data, p) /\ ss[i] = RecordBytes(r)
      BY <1>2, <1>7
    <3>. QED
      BY <1>1, <2>1, <3>1
  <2>3. f[i - 1] = before
    BY <2>0
  <2>4. f[i] = [pos |-> Clip(data, e), found |-> IF e <= D THEN FirstFew(as, i) ELSE <<>>]
    BY <2>0
  <2>5. FirstFew(as, i) = found \o AddressesIn(r)
    BY <1>2, <1>8
  <2>6. e = p + l
    <3> DEFINE s == st[i]
    <3>1. l \in Nat /\ s \in Nat /\ st[i + 1] = s + l
      BY <1>2, <1>6, <2>1, RecordPassed
    <3> HIDE DEF l, s
    <3>2. (b + s) + l = b + (s + l)
      BY <3>1
    <3>. QED
      BY <3>1, <3>2 DEF l, s
  <2> HIDE DEF p, r, e, f, found
  <2>7. AfterRecord(data, before) =
          [pos |-> Clip(data, p + l), found |-> IF p + l <= D THEN found \o AddressesIn(r) ELSE <<>>]
    BY <2>1, <2>2, RecordAfter DEF D
  <2>. QED
    BY <2>3, <2>4, <2>5, <2>6, <2>7
<1> HIDE DEF f, first
<1>11. \E h : Rec(h)
  <2>1. DOMAIN f = 0 .. n /\ f = [i \in 0 .. n |-> f[i]]
    BY DEF f
  <2>2. \A i \in 0 .. n : f[i] = IF i = 0 THEN first ELSE AfterRecord(data, f[i - 1])
    BY <1>1, <1>9, <1>10
  <2>3. Rec(f)
    BY <2>1, <2>2
  <2>. QED
    BY <2>3
<1>12. Rec(after)
  BY <1>11 DEF after
<1>13. \A i \in 0 .. n : after[i] = IF i = 0 THEN first ELSE AfterRecord(data, after[i - 1])
  BY <1>12
<1>14. after[n] = f[n]
  <2> DEFINE P(i) == i <= n => after[i] = f[i]
             G == {i \in Nat : P(i)}
  <2>1. P(0)
    BY <1>1, <1>9, <1>13
  <2>2. ASSUME NEW i \in Nat, P(i) PROVE P(i + 1)
    <3> SUFFICES ASSUME i + 1 <= n PROVE after[i + 1] = f[i + 1]
      OBVIOUS
    <3>1. i + 1 \in 1 .. n /\ i + 1 \in 0 .. n /\ (i + 1) - 1 = i /\ i <= n /\ i + 1 # 0
      BY <1>1
    <3>2. after[i] = f[i]
      BY <2>2, <3>1
    <3>. QED
      BY <1>10, <1>13, <3>1, <3>2
  <2>3. Nat \subseteq G
    <3> HIDE DEF P
    <3>1. 0 \in G /\ \A i \in Nat : i \in G => i + 1 \in G
      BY <2>1, <2>2
    <3>. QED
      BY <3>1, SetInduction
  <2>. QED
    BY <1>1, <2>3
<1> DEFINE e == b + Len(FlattenSeq(ss))
<1>15. f[n] = [pos |-> Clip(data, e), found |-> IF e <= D THEN FirstFew(as, n) ELSE <<>>]
  <2>1. n \in 0 .. n
    BY <1>1
  <2>. QED
    BY <1>6, <2>1 DEF f
<1>16. e \in Nat
  <2>1. FlattenSeq(ss) \in Seq(Nat)
    BY <1>2, FlattenAppend, EmptySeq
  <2>. QED
    BY <2>1, LenProperties
<1> HIDE DEF e
<1>17. after[n].pos = Clip(data, e) /\ after[n].found = IF e <= D THEN FirstFew(as, n) ELSE <<>>
  BY <1>14, <1>15
<1>18. Clip(data, e) > D <=> ~(e <= D)
  BY <1>1, <1>16 DEF Clip, Outside, D
<1>19. parse_dns_response(data) = IF e <= D THEN FlattenSeq(as) ELSE Throws
  BY <1>3, <1>4, <1>8, <1>17, <1>18
<1>. QED
  BY <1>19 DEF e, ss, as, D
-----------------------------------------------------------------------------
(* A message: its head, the numbers of its questions and records, and what *)
(* they are.                                                               *)
LEMMA AnswerParts ==
  ASSUME NEW a, Answers(a)
  PROVE  /\ a.head \in Seq(Nat) /\ a.counts \in Seq(Nat) /\ Len(a.head) = 4 /\ Len(a.counts) = 4
         /\ a.questions \in Seq(Question) /\ \A i \in DOMAIN a.questions : IsQuestion(a.questions[i])
         /\ a.records \in Seq(Record) /\ \A i \in DOMAIN a.records : IsRecord(a.records[i])
         /\ a.data \in Seq(Nat)
         /\ \A k \in 1 .. Len(a.data) : k <= Len(AnswerBytes(a)) => a.data[k] = AnswerBytes(a)[k]
<1>1. /\ a.head \in Seq(Nat) /\ a.counts \in Seq(Nat) /\ Len(a.head) = 4 /\ Len(a.counts) = 4
      /\ a.questions \in Seq(Question) /\ a.records \in Seq(Record) /\ a.data \in Seq(Nat)
      /\ \A k \in 1 .. Len(a.data) : k <= Len(AnswerBytes(a)) => a.data[k] = AnswerBytes(a)[k]
  BY DEF Answers, Question, Record
<1>2. \A i \in DOMAIN a.questions : IsName(a.questions[i].name) /\ Len(a.questions[i].kind) = 4
  BY DEF Answers
<1>3. \A i \in DOMAIN a.records : IsName(a.records[i].owner) /\ Len(a.records[i].ttl) = 4
  BY DEF Answers
<1>4. \A i \in DOMAIN a.questions : a.questions[i] \in Question
  BY <1>1, ElementOfSeq, LenProperties
<1>5. \A i \in DOMAIN a.records : a.records[i] \in Record
  BY <1>1, ElementOfSeq, LenProperties
<1>6. \A i \in DOMAIN a.questions : IsQuestion(a.questions[i])
  BY <1>2, <1>4 DEF IsQuestion
<1>7. \A i \in DOMAIN a.records : IsRecord(a.records[i])
  BY <1>3, <1>5 DEF IsRecord
<1>. QED
  BY <1>1, <1>6, <1>7

(* ... and where they lie.                                                 *)
LEMMA AnswerLayout ==
  ASSUME NEW a, Answers(a)
  PROVE  LET qs == FlattenSeq(QuestionList(a.questions))
             rs == FlattenSeq(RecordList(a.records))
         IN  /\ AnswerBytes(a) \in Seq(Nat)
             /\ qs \in Seq(Nat) /\ Len(qs) \in Nat /\ rs \in Seq(Nat) /\ Len(rs) \in Nat
             /\ Len(AnswerBytes(a)) = 12 + Len(qs) + Len(rs)
             /\ \A data \in Seq(Nat) :
                  Lies(AnswerBytes(a), data, 0) /\ 12 <= Len(data) =>
                    /\ Number(data, 4, 2) = Len(a.questions)
                    /\ Number(data, 6, 2) = Len(a.records)
                    /\ Lies(qs, data, 12) /\ Lies(rs, data, 12 + Len(qs))
<1> DEFINE qs == FlattenSeq(QuestionList(a.questions))
           rs == FlattenSeq(RecordList(a.records))
           h == a.head
           c == a.counts
           u == Len(a.questions)
           v == Len(a.records)
           x == write_u16(u)
           y == write_u16(v)
           front == InARow(h, x, y, c, qs)
           m == Len(qs)
           n == Len(rs)
<1>1. /\ h \in Seq(Nat) /\ c \in Seq(Nat) /\ Len(h) = 4 /\ Len(c) = 4
      /\ u \in Nat /\ v \in Nat
      /\ qs \in Seq(Nat) /\ m \in Nat /\ rs \in Seq(Nat) /\ n \in Nat
  BY AnswerParts, QuestionListIs, RecordListIs, LenProperties
<1>2. AnswerBytes(a) = front \o rs
  BY DEF AnswerBytes, InARow, QuestionList, RecordList
<1> HIDE DEF qs, rs, h, c, u, v
<1>3. x \in Seq(Nat) /\ Len(x) = 2 /\ y \in Seq(Nat) /\ Len(y) = 2
  BY <1>1, NumberTaken
<1>4. \A data \in Seq(Nat), p \in Nat :
        /\ Lies(x, data, p) /\ p + 2 <= Len(data) => Number(data, p, 2) = u
        /\ Lies(y, data, p) /\ p + 2 <= Len(data) => Number(data, p, 2) = v
  BY <1>1, NumberTaken
<1> HIDE DEF x, y
<1>5. FollowEachOther(h, x, y, c, qs)
  BY <1>1, <1>3, FiveJoined
<1>6. front \in Seq(Nat) /\ Len(front) = 12 + m
  <2>1. /\ InARow(h, x, y, c, qs) \in Seq(Nat)
        /\ Len(InARow(h, x, y, c, qs)) = Len(h) + Len(x) + Len(y) + Len(c) + Len(qs)
    BY <1>5 DEF FollowEachOther
  <2>2. Len(h) = 4 /\ Len(x) = 2 /\ Len(y) = 2 /\ Len(c) = 4 /\ Len(qs) = m
    BY <1>1, <1>3
  <2> HIDE DEF m
  <2>. QED
    BY <1>1, <2>1, <2>2
<1> HIDE DEF m, n, front
<1>7. front \o rs \in Seq(Nat) /\ Len(front \o rs) = 12 + m + n
  <2>1. front \o rs \in Seq(Nat) /\ Len(front \o rs) = Len(front) + Len(rs)
    BY <1>1, <1>6, Joined
  <2>. QED
    BY <1>1, <1>6, <2>1 DEF n
<1>8. ASSUME NEW data \in Seq(Nat), Lies(front \o rs, data, 0), 12 <= Len(data)
      PROVE  /\ Number(data, 4, 2) = u /\ Number(data, 6, 2) = v
             /\ Lies(qs, data, 12) /\ Lies(rs, data, 12 + m)
  <2>1. Lies(front, data, 0) /\ Lies(rs, data, 12 + m)
    <3>1. Lies(front, data, 0) /\ Lies(rs, data, 0 + Len(front))
      BY <1>1, <1>6, <1>8, LiesParts
    <3>2. 0 + Len(front) = 12 + m
      BY <1>1, <1>6
    <3>. QED
      BY <3>1, <3>2
  <2>2. Lies(x, data, 4) /\ Lies(y, data, 6) /\ Lies(qs, data, 12)
    <3>1. /\ Lies(x, data, 0 + Len(h))
          /\ Lies(y, data, 0 + Len(h) + Len(x))
          /\ Lies(qs, data, 0 + Len(h) + Len(x) + Len(y) + Len(c))
      BY <1>5, <2>1 DEF FollowEachOther, front
    <3>2. 0 + Len(h) = 4 /\ 0 + Len(h) + Len(x) = 6 /\ 0 + Len(h) + Len(x) + Len(y) + Len(c) = 12
      BY <1>1, <1>3
    <3>. QED
      BY <3>1, <3>2
  <2>3. Len(data) \in Nat /\ 4 + 2 <= Len(data) /\ 6 + 2 <= Len(data)
    BY <1>8, LenProperties
  <2>. QED
    BY <1>4, <2>1, <2>2, <2>3
<1>. QED
  BY <1>1, <1>2, <1>7, <1>8 DEF qs, rs, u, v, m, n

(* What is parsed of a message, whole with anything behind it, or cut:     *)
(* all of its addresses, or nothing.                                       *)
LEMMA ParsesAnswer ==
  ASSUME NEW a, Answers(a), NEW data \in Seq(Nat), Lies(AnswerBytes(a), data, 0)
  PROVE  /\ AnswerBytes(a) \in Seq(Nat)
         /\ Addresses(a) # Throws
         /\ parse_dns_response(data) = IF Len(data) < Len(AnswerBytes(a)) THEN Throws
                                       ELSE Addresses(a)
<1> DEFINE qs == FlattenSeq(QuestionList(a.questions))
           rs == FlattenSeq(RecordList(a.records))
           D == Len(data)
           W == Len(AnswerBytes(a))
           m == Len(qs)
           n == Len(rs)
           b == 12 + m
<1>1. m \in Nat /\ n \in Nat /\ W = 12 + m + n /\ D \in Nat
  BY AnswerLayout, LenProperties
<1>2. Addresses(a) = FlattenSeq(AddressList(a.records))
  BY DEF Addresses, AddressList
<1>3. Addresses(a) \in Seq(Seq(Nat)) /\ Addresses(a) # Throws
  <2>1. FlattenSeq(AddressList(a.records)) \in Seq(Seq(Nat))
    BY AnswerParts, RecordListIs
  <2>. QED
    BY <1>2, <2>1, ThrowsAssumption
<1>4. CASE D < 12
  <2>1. D < W
    <3> HIDE DEF D, W, m, n
    <3>. QED
      BY <1>1, <1>4
  <2>2. parse_dns_response(data) = Throws
    BY <1>4 DEF parse_dns_response
  <2>. QED
    BY <1>3, <2>1, <2>2, AnswerLayout
<1>5. CASE ~(D < 12)
  <2>1. 12 <= D
    BY <1>1, <1>5
  <2>2. /\ Number(data, 4, 2) = Len(a.questions) /\ Number(data, 6, 2) = Len(a.records)
        /\ Lies(qs, data, 12) /\ Lies(rs, data, 12 + m)
    BY <2>1, AnswerLayout
  <2>3. Questions(data) = Clip(data, 12 + m)
    BY <2>1, <2>2, AnswerParts, QuestionsRead
  <2>4. b \in Nat
    BY <1>1
  <2>5. Questions(data) = Clip(data, b) /\ Lies(rs, data, b)
    BY <2>2, <2>3
  <2> HIDE DEF b
  <2>6. parse_dns_response(data) = IF b + Len(rs) <= D THEN FlattenSeq(AddressList(a.records))
                                   ELSE Throws
    BY <2>1, <2>2, <2>4, <2>5, AnswerParts, RecordsRead
  <2>7. b + Len(rs) <= D <=> ~(D < W)
    <3>1. b + n = W
      BY <1>1 DEF b
    <3> HIDE DEF D, W, n
    <3>2. W \in Nat
      BY <1>1
    <3>3. b + n <= D <=> ~(D < W)
      BY <1>1, <3>1, <3>2
    <3>. QED
      BY <3>3 DEF n
  <2>. QED
    BY <1>2, <1>3, <2>6, <2>7, AnswerLayout
<1>. QED
  BY <1>4, <1>5
(* So it is of what a UDP client receives.                                 *)
LEMMA ReceivedLies ==
  ASSUME NEW a, Answers(a)
  PROVE  /\ a.data \in Seq(Nat) /\ Lies(AnswerBytes(a), a.data, 0)
         /\ Received(a.data) \in Seq(Nat) /\ Lies(AnswerBytes(a), Received(a.data), 0)
<1> DEFINE d == a.data
           D == Len(d)
           w == AnswerBytes(a)
           W == Len(w)
           r == Received(d)
<1>1. d \in Seq(Nat) /\ \A k \in 1 .. D : k <= W => d[k] = w[k]
  BY AnswerParts
<1>2. w \in Seq(Nat) /\ W \in Nat /\ D \in Nat /\ MaxDatagram \in Nat
  BY <1>1, AnswerLayout, LenProperties, MaxDatagramAssumption
<1>3. \A k \in 1 .. D : d[k] \in Nat
  BY <1>1, ElementOfSeq
<1> HIDE DEF d, w
<1>4. /\ r \in Seq(Nat) /\ Len(r) \in Nat /\ Len(r) <= D
      /\ \A k \in 1 .. Len(r) : r[k] = d[k]
  <2>1. CASE D > MaxDatagram
    <3>1. r = SubSeq(d, 1, MaxDatagram)
      BY <2>1 DEF Received
    <3>2. CASE MaxDatagram = 0
      <4>1. r = <<>>
        BY <3>1, <3>2, SubSeqEmpty
      <4>. QED
        BY <1>2, <4>1, EmptySeq
    <3>3. CASE MaxDatagram # 0
      <4> DEFINE M == MaxDatagram
      <4>1. 1 <= M /\ M <= D /\ M \in Nat
        BY <1>2, <2>1, <3>3
      <4> HIDE DEF M, r
      <4>2. \A k \in 1 .. M : d[k] \in Nat
        BY <1>2, <1>3, <4>1
      <4>3. r = SubSeq(d, 1, M)
        BY <3>1 DEF M
      <4>4. /\ r \in Seq(Nat) /\ Len(r) = M - 1 + 1 /\ \A k \in 1 .. M - 1 + 1 : r[k] = d[1 + k - 1]
        BY <4>1, <4>2, <4>3, SubSeqProperties
      <4>5. M - 1 + 1 = M /\ \A k \in 1 .. M : 1 + k - 1 = k
        BY <4>1
      <4>6. Len(r) = M /\ \A k \in 1 .. M : r[k] = d[k]
        BY <4>4, <4>5
      <4>. QED
        BY <4>1, <4>4, <4>6
    <3>. QED
      BY <3>2, <3>3
  <2>2. CASE ~(D > MaxDatagram)
    <3>1. r = d
      BY <2>2 DEF Received
    <3>. QED
      BY <1>1, <1>2, <3>1
  <2>. QED
    BY <2>1, <2>2
<1> HIDE DEF r, D, W
<1>5. ASSUME NEW x \in Seq(Nat), Len(x) \in Nat, Len(x) <= D, \A k \in 1 .. Len(x) : x[k] = d[k]
      PROVE  Lies(w, x, 0)
  <2> SUFFICES ASSUME NEW k \in 1 .. W, k <= Len(x) PROVE x[k] = w[k]
    <3>1. \A k \in 1 .. W : 0 + k = k
      BY <1>2
    <3>. QED
      BY <3>1 DEF Lies, W
  <2>1. k \in 1 .. Len(x) /\ k \in 1 .. D /\ k <= W
    BY <1>2, <1>5
  <2>. QED
    BY <1>1, <1>5, <2>1
<1>6. Lies(w, d, 0) /\ Lies(w, r, 0)
  <2>1. Len(d) = D /\ D <= D
    BY <1>2 DEF D
  <2>. QED
    BY <1>1, <1>2, <1>4, <1>5, <2>1
<1>. QED
  BY <1>1, <1>4, <1>6 DEF d, w, r

-----------------------------------------------------------------------------
(* The servers are not mixed up, and the first datagram to arrive is the   *)
(* answer.                                                                 *)
AnswerArrived == arrived # <<>> => answer \in case.answers /\ arrived[1] = Received(answer.data)
OneServer == /\ case.server # "udp" \/ query = <<>> => relay = "start"
             /\ case.server # "https" => https = "start"
             /\ case.server # "udp" => arrived = <<>>
AnswerInv == AskInv /\ AnswerArrived /\ OneServer /\ AnswerIsRead

(* What Parse makes of an answer is what is promised of it.                *)
LEMMA ParseReads ==
  ASSUME NEW a, Answers(a), NEW data \in Seq(Nat), Lies(AnswerBytes(a), data, 0),
         Parse(data), case' = case
  PROVE  IF Len(data) < Len(AnswerBytes(a)) THEN step' = "threw"
         ELSE /\ step' = "returned"
              /\ result' = IF case.ask.caller = "resolve" THEN Addresses(a) ELSE data
<1>1. /\ Addresses(a) # Throws
      /\ parse_dns_response(data) = IF Len(data) < Len(AnswerBytes(a)) THEN Throws
                                    ELSE Addresses(a)
  BY ParsesAnswer
<1>. QED
  BY <1>1 DEF Parse

LEMMA AnswerInvKept ==
  AnswerInv /\ FirstReplyReturned /\ FirstReplyReturned' /\ TypeOK
    /\ [LookupNext]_<<vars, lookup>> => AnswerInv'
<1> SUFFICES ASSUME AnswerInv, FirstReplyReturned, FirstReplyReturned', TypeOK,
                    [LookupNext]_<<vars, lookup>>
             PROVE  AnswerInv'
  OBVIOUS
<1>0. AskInv /\ AnswerArrived /\ OneServer /\ AnswerIsRead /\ AskInv'
  BY AskInvKept DEF AnswerInv
<1>1. case' = case /\ case \in Cases
  <2>1. case' = case
    BY DEF LookupNext, Ask, UdpStep, ServerAnswers, HttpsStep, HttpsRead, HttpsFails, lookup
  <2>. QED
    BY <1>0, <2>1 DEF AskInv
<1>2. ASSUME NEW id \in Ids, Ask(id) PROVE AnswerInv'
  <2>1. step = "start" /\ query = <<>> /\ https = "start" /\ relay = "start"
    BY <1>0, <1>2 DEF Ask, AskInv, OneServer
  <2>2. UNCHANGED <<arrived, relay, https, answer>>
    BY <1>2 DEF Ask, vars
  <2>3. AnswerArrived' /\ OneServer' /\ AnswerIsRead'
    BY <1>0, <1>1, <2>1, <2>2 DEF AnswerArrived, OneServer, AnswerIsRead
  <2>. QED
    BY <1>0, <2>3 DEF AnswerInv
<1>3. CASE UdpStep
  <2>1. case.server = "udp" /\ query # <<>> /\ UNCHANGED <<query, https, answer>>
    BY <1>3 DEF UdpStep
  <2>2. arrived' = arrived
    BY <1>3 DEF UdpStep, Step, Start, StartFails, SendFails, AwaitSession, SessionQueued,
       SessionWoken, Return, receive_work_, Receive, ReceiveError, Put, PutAfterDestruction, EndReceive
  <2>3. https = "start"
    BY <1>0, <2>1 DEF OneServer
  <2>4. AnswerArrived' /\ OneServer'
    BY <1>0, <1>1, <2>1, <2>2 DEF AnswerArrived, OneServer
  <2>5. AnswerIsRead'
    <3>1. CASE relay' = relay
      <4>1. UNCHANGED <<step, result>>
        BY <1>3, <3>1 DEF UdpStep
      <4>. QED
        BY <1>0, <1>1, <2>1, <3>1, <4>1 DEF AnswerIsRead
    <3>2. CASE relay' # relay /\ relay' = "returned"
      <4>1. Parse(returned')
        BY <1>3, <3>2 DEF UdpStep
      <4>2. arrived # <<>> /\ returned' = arrived[1]
        BY <2>2, <3>2 DEF FirstReplyReturned
      <4>3. answer \in case.answers /\ returned' = Received(answer.data)
        BY <1>0, <4>2 DEF AnswerArrived
      <4>4. Answers(answer)
        BY <1>1, <4>3, AnswersAssumption
      <4> DEFINE data == returned'
      <4>5. data \in Seq(Nat) /\ Lies(AnswerBytes(answer), data, 0)
        BY <4>3, <4>4, ReceivedLies
      <4>6. Parse(data)
        BY <4>1
      <4> HIDE DEF data
      <4>7. IF Len(data) < Len(AnswerBytes(answer)) THEN step' = "threw"
            ELSE /\ step' = "returned"
                 /\ result' = IF case.ask.caller = "resolve" THEN Addresses(answer) ELSE data
        BY <1>1, <4>4, <4>5, <4>6, ParseReads
      <4>8. answer' = answer /\ case' = case /\ case.server = "udp" /\ data = Received(answer.data)
        BY <1>1, <2>1, <4>3 DEF data
      <4>. QED
        BY <4>7, <4>8 DEF AnswerIsRead
    <3>3. CASE relay' # "returned"
      BY <2>1, <2>3, <3>3 DEF AnswerIsRead
    <3>. QED
      BY <3>1, <3>2, <3>3
  <2>. QED
    BY <1>0, <2>4, <2>5 DEF AnswerInv
<1>4. CASE ServerAnswers
  <2>1. PICK a \in case.answers : /\ Arrive(Received(a.data))
                                  /\ answer' = IF arrived = <<>> THEN a ELSE answer
    BY <1>4 DEF ServerAnswers
  <2>2. case.server = "udp" /\ UNCHANGED <<step, query, https, result>> /\ relay' = relay
    BY <1>4, <2>1 DEF ServerAnswers, Arrive
  <2>3. /\ arrived = <<>> => arrived'[1] = Received(a.data)
        /\ arrived # <<>> => arrived'[1] = arrived[1]
    <3>1. arrived \in Seq(Replies) /\ Received(a.data) \in Replies
      BY <1>1, <2>2, RepliesAssumption DEF TypeOK
    <3>2. arrived' = Append(arrived, Received(a.data))
      BY <2>1 DEF Arrive
    <3>. QED
      BY <3>1, <3>2, Appended
  <2>4. AnswerArrived'
    <3>1. CASE arrived = <<>>
      BY <1>1, <2>1, <2>3, <3>1 DEF AnswerArrived
    <3>2. CASE arrived # <<>>
      BY <1>0, <1>1, <2>1, <2>3, <3>2 DEF AnswerArrived
    <3>. QED
      BY <3>1, <3>2
  <2>5. OneServer'
    BY <1>0, <1>1, <2>2 DEF OneServer
  <2>6. AnswerIsRead'
    <3>1. CASE relay = "returned"
      <4>1. answer' = answer
        BY <2>1, <3>1 DEF FirstReplyReturned
      <4>. QED
        BY <1>0, <1>1, <2>2, <4>1 DEF AnswerIsRead
    <3>2. CASE relay # "returned"
      <4>1. https = "start"
        BY <1>0, <2>2 DEF OneServer
      <4>. QED
        BY <2>2, <3>2, <4>1 DEF AnswerIsRead
    <3>. QED
      BY <3>1, <3>2
  <2>. QED
    BY <1>0, <2>4, <2>5, <2>6 DEF AnswerInv
<1>5. ASSUME case.server = "https", UNCHANGED <<arrived, relay, query>>, AnswerIsRead'
      PROVE  AnswerInv'
  BY <1>0, <1>1, <1>5 DEF AnswerInv, AnswerArrived, OneServer
<1>6. ASSUME case.server = "https" PROVE relay = "start"
  BY <1>0, <1>6 DEF OneServer
<1>7. CASE HttpsStep
  <2>1. /\ case.server = "https" /\ UNCHANGED <<arrived, relay, query>>
        /\ https' # "ended"
    BY <1>7 DEF HttpsStep, HttpsSteps, vars
  <2>2. AnswerIsRead'
    BY <1>6, <2>1 DEF AnswerIsRead
  <2>. QED
    BY <1>5, <2>1, <2>2
<1>8. CASE HttpsFails
  <2>1. /\ case.server = "https" /\ UNCHANGED <<arrived, relay, query>>
        /\ https' # "ended"
    BY <1>8 DEF HttpsFails, vars
  <2>2. AnswerIsRead'
    BY <1>6, <2>1 DEF AnswerIsRead
  <2>. QED
    BY <1>5, <2>1, <2>2
<1>9. CASE HttpsRead
  <2>1. /\ case.server = "https" /\ UNCHANGED <<arrived, relay, query>>
    BY <1>9 DEF HttpsRead, vars
  <2>2. PICK a \in case.answers : answer' = a /\ Parse(a.data)
    BY <1>9 DEF HttpsRead
  <2>3. Answers(a)
    BY <1>1, <2>2, AnswersAssumption
  <2>4. a.data \in Seq(Nat) /\ Lies(AnswerBytes(a), a.data, 0)
    BY <2>3, ReceivedLies
  <2>5. AnswerIsRead'
    <3> DEFINE data == a.data
    <3>1. IF Len(data) < Len(AnswerBytes(a)) THEN step' = "threw"
          ELSE /\ step' = "returned"
               /\ result' = IF case.ask.caller = "resolve" THEN Addresses(a) ELSE data
      BY <1>1, <2>2, <2>3, <2>4, ParseReads
    <3>2. answer' = a /\ case' = case /\ case.server # "udp"
      BY <1>1, <2>1, <2>2
    <3>. QED
      BY <3>1, <3>2 DEF AnswerIsRead
  <2>. QED
    BY <1>5, <2>1, <2>5
<1>10. CASE UNCHANGED <<vars, lookup>>
  <2>1. vars' = vars /\ lookup' = lookup
    BY <1>10
  <2>2. UNCHANGED <<arrived, relay, query, https, answer, step, result>>
    BY <2>1 DEF vars, lookup
  <2>3. AnswerArrived' /\ OneServer' /\ AnswerIsRead'
    BY <1>0, <1>1, <2>2 DEF AnswerArrived, OneServer, AnswerIsRead
  <2>. QED
    BY <1>0, <2>3 DEF AnswerInv
<1>. QED
  BY <1>2, <1>3, <1>4, <1>7, <1>8, <1>9, <1>10 DEF LookupNext

LEMMA AnswerInvStarts == LookupInit => AnswerInv
BY LookupStarts DEF LookupInit, Init, AnswerInv, AnswerArrived, OneServer, AnswerIsRead

(* For every answer, however long and wherever it is cut: a lookup returns *)
(* all of the addresses in it and nothing else, or throws.                 *)
THEOREM AnswersRead == LookupSpec => []AnswerIsRead
<1>1. AnswerInv => AnswerIsRead
  BY DEF AnswerInv
<1>. QED
  BY <1>1, AnswerInvStarts, AnswerInvKept, LookupIsUdp, ReturnsFirst, TypeCorrect, PTL
     DEF LookupSpec
=============================================================================
