----------------------------- MODULE AppProofs ------------------------------
(***************************************************************************)
(* Proofs about App for any clients, inbounds and number of sockets.       *)
(***************************************************************************)
EXTENDS App, Integers, SequenceTheorems, TLAPS

Queues == [Inbounds -> Seq(Clients)]
Stages == {"away", "dialled", "accepted", "handshake", "asked", "connecting", "relayed", "ended"}

(* Holds, of any queue and any stages; Place says that k is a place of c   *)
(* in q.                                                                   *)
Place(q, k, c) == k \in 1 .. Len(q) /\ q[k] = c
Sound(q, s, at) == \A i \in Inbounds : \A k \in 1 .. Len(q[i]) :
                     InboundOf[q[i][k]] = i /\ s[q[i][k]] = at
Single(q) == \A i \in Inbounds : \A k, m \in 1 .. Len(q[i]) : q[i][m] = q[i][k] => m = k
Full(q, s, at) == \A c \in Clients : s[c] = at => \E k : Place(q[InboundOf[c]], k, c)
HoldsIn(q, s, at) == Sound(q, s, at) /\ Single(q) /\ Full(q, s, at)

LEMMA HoldsIsHoldsIn ==
  ASSUME NEW q, NEW at
  PROVE  Holds(q, at) <=> HoldsIn(q, stage, at)
BY Zenon DEF Holds, HoldsIn, Sound, Single, Full, Place

LEMMA Appended ==
  ASSUME NEW s \in Seq(Clients), NEW c \in Clients
  PROVE  /\ Append(s, c) \in Seq(Clients) /\ Len(s) \in Nat /\ Len(Append(s, c)) = Len(s) + 1
         /\ Append(s, c)[Len(s) + 1] = c
         /\ \A k \in 1 .. Len(s) : Append(s, c)[k] = s[k]
BY AppendProperties, LenProperties

LEMMA Taken ==
  ASSUME NEW s \in Seq(Clients), s # <<>>
  PROVE  /\ Head(s) \in Clients /\ Head(s) = s[1]
         /\ Tail(s) \in Seq(Clients) /\ Len(s) \in Nat \ {0} /\ Len(Tail(s)) = Len(s) - 1
         /\ \A k \in 1 .. Len(s) - 1 : Tail(s)[k] = s[k + 1]
BY HeadTailProperties, EmptySeq, LenProperties

(* A client that comes to the stage of a queue and is put into the queue   *)
(* of its inbound.                                                         *)
LEMMA Enqueue ==
  ASSUME NEW q \in Queues, NEW s \in [Clients -> Stages], NEW at \in Stages, NEW c \in Clients,
         HoldsIn(q, s, at), s[c] # at
  PROVE  HoldsIn([q EXCEPT ![InboundOf[c]] = Append(@, c)], [s EXCEPT ![c] = at], at)
<1> DEFINE i == InboundOf[c]
           p == [q EXCEPT ![i] = Append(@, c)]
           t == [s EXCEPT ![c] = at]
<1>1. i \in Inbounds /\ q[i] \in Seq(Clients)
  BY InboundAssumption DEF Queues
<1>2. /\ Len(q[i]) \in Nat /\ Len(p[i]) = Len(q[i]) + 1 /\ p[i][Len(q[i]) + 1] = c
      /\ \A k \in 1 .. Len(q[i]) : p[i][k] = q[i][k]
  BY <1>1, Appended DEF Queues
<1>3. \A j \in Inbounds : j # i => p[j] = q[j]
  BY DEF Queues
<1>4. t[c] = at /\ \A d \in Clients : d # c => t[d] = s[d]
  OBVIOUS
<1>5. \A j \in Inbounds : Len(q[j]) \in Nat /\ \A k \in 1 .. Len(q[j]) : q[j][k] \in Clients \ {c}
  <2> TAKE j \in Inbounds
  <2>1. q[j] \in Seq(Clients)
    BY DEF Queues
  <2>2. Len(q[j]) \in Nat /\ \A k \in 1 .. Len(q[j]) : q[j][k] \in Clients
    BY <2>1, LenProperties, ElementOfSeq
  <2>. QED
    BY <2>2 DEF HoldsIn, Sound
<1> HIDE DEF i, p, t
<1>6. Sound(p, t, at)
  <2> SUFFICES ASSUME NEW j \in Inbounds, NEW k \in 1 .. Len(p[j])
               PROVE  InboundOf[p[j][k]] = j /\ t[p[j][k]] = at
    BY DEF Sound
  <2>1. CASE j = i /\ k = Len(q[i]) + 1
    BY <2>1, <1>2, <1>4 DEF i
  <2>2. CASE k \in 1 .. Len(q[j])
    <3>1. p[j][k] = q[j][k]
      BY <2>2, <1>2, <1>3
    <3>2. InboundOf[q[j][k]] = j /\ s[q[j][k]] = at
      BY <2>2 DEF HoldsIn, Sound
    <3>. QED
      BY <3>1, <3>2, <2>2, <1>4, <1>5
  <2>. QED
    BY <2>1, <2>2, <1>2, <1>3
<1>7. Single(p)
  <2> SUFFICES ASSUME NEW j \in Inbounds, NEW k \in 1 .. Len(p[j]), NEW m \in 1 .. Len(p[j]),
                      p[j][m] = p[j][k]
               PROVE  m = k
    BY DEF Single
  <2>1. CASE k \in 1 .. Len(q[j]) /\ m \in 1 .. Len(q[j])
    BY <2>1, <1>2, <1>3 DEF HoldsIn, Single
  <2>2. CASE j = i /\ (k = Len(q[i]) + 1 \/ m = Len(q[i]) + 1)
    <3>1. \A n \in 1 .. Len(q[i]) : p[i][n] # c
      BY <1>1, <1>2, <1>5
    <3>2. \A n \in 1 .. Len(p[i]) : p[i][n] = c => n = Len(q[i]) + 1
      BY <3>1, <1>2
    <3>3. p[i][m] = c /\ p[i][k] = c
      BY <2>2, <1>2
    <3>. QED
      BY <3>2, <3>3, <2>2
  <2>. QED
    BY <2>1, <2>2, <1>2, <1>3
<1>8. Full(p, t, at)
  <2> SUFFICES ASSUME NEW d \in Clients, t[d] = at
               PROVE  \E k : Place(p[InboundOf[d]], k, d)
    BY DEF Full
  <2>1. CASE d = c
    <3>1. Place(p[i], Len(q[i]) + 1, c)
      BY <1>2 DEF Place
    <3>. QED
      BY <3>1, <2>1 DEF i
  <2>2. CASE d # c
    <3>1. PICK k : Place(q[InboundOf[d]], k, d)
      BY <2>2, <1>4 DEF HoldsIn, Full
    <3>2. InboundOf[d] \in Inbounds
      BY InboundAssumption
    <3>3. Place(p[InboundOf[d]], k, d)
      BY <3>1, <3>2, <1>2, <1>3 DEF Place
    <3>. QED
      BY <3>3
  <2>. QED
    BY <2>1, <2>2
<1>. QED
  BY <1>6, <1>7, <1>8 DEF HoldsIn, i, p, t

(* The first client of a queue is taken out and goes on to another stage.  *)
LEMMA Dequeue ==
  ASSUME NEW q \in Queues, NEW s \in [Clients -> Stages], NEW at \in Stages,
         NEW i \in Inbounds, NEW to \in Stages \ {at}, HoldsIn(q, s, at), q[i] # <<>>
  PROVE  /\ Head(q[i]) \in Clients /\ InboundOf[Head(q[i])] = i
         /\ HoldsIn([q EXCEPT ![i] = Tail(@)], [s EXCEPT ![Head(q[i])] = to], at)
<1> DEFINE c == Head(q[i])
           p == [q EXCEPT ![i] = Tail(@)]
           t == [s EXCEPT ![c] = to]
<1>1. q[i] \in Seq(Clients)
  BY DEF Queues
<1>2. /\ c \in Clients /\ c = q[i][1] /\ Len(q[i]) \in Nat \ {0} /\ Len(p[i]) = Len(q[i]) - 1
      /\ \A k \in 1 .. Len(q[i]) - 1 : p[i][k] = q[i][k + 1]
  BY <1>1, Taken DEF Queues
<1>3. \A j \in Inbounds : j # i => p[j] = q[j]
  BY DEF Queues
<1>4. t[c] = to /\ \A d \in Clients : d # c => t[d] = s[d]
  BY <1>2
<1>5. \A j \in Inbounds : Len(q[j]) \in Nat /\ \A k \in 1 .. Len(q[j]) : q[j][k] \in Clients
  <2> TAKE j \in Inbounds
  <2>1. q[j] \in Seq(Clients)
    BY DEF Queues
  <2>. QED
    BY <2>1, LenProperties, ElementOfSeq
<1>6. InboundOf[c] = i
  BY <1>2 DEF HoldsIn, Sound
<1> HIDE DEF c, p, t
<1>7. \A j \in Inbounds : \A k \in 1 .. Len(p[j]) :
        \E m \in 1 .. Len(q[j]) : p[j][k] = q[j][m] /\ q[j][m] # c
  <2> TAKE j \in Inbounds
  <2> TAKE k \in 1 .. Len(p[j])
  <2>1. CASE j = i
    <3>1. k + 1 \in 1 .. Len(q[i]) /\ p[i][k] = q[i][k + 1]
      BY <2>1, <1>2
    <3>2. 1 \in 1 .. Len(q[i]) /\ k + 1 # 1
      BY <1>2, <2>1
    <3>3. q[i][k + 1] # q[i][1]
      BY <3>1, <3>2 DEF HoldsIn, Single
    <3>. QED
      BY <3>1, <3>3, <2>1, <1>2
  <2>2. CASE j # i
    <3>1. p[j] = q[j] /\ InboundOf[q[j][k]] = j
      BY <2>2, <1>3 DEF HoldsIn, Sound
    <3>. QED
      BY <3>1, <2>2, <1>6
  <2>. QED
    BY <2>1, <2>2
<1>8. Sound(p, t, at)
  <2> SUFFICES ASSUME NEW j \in Inbounds, NEW k \in 1 .. Len(p[j])
               PROVE  InboundOf[p[j][k]] = j /\ t[p[j][k]] = at
    BY DEF Sound
  <2>1. PICK m \in 1 .. Len(q[j]) : p[j][k] = q[j][m] /\ q[j][m] # c
    BY <1>7
  <2>2. InboundOf[q[j][m]] = j /\ s[q[j][m]] = at
    BY DEF HoldsIn, Sound
  <2>. QED
    BY <2>1, <2>2, <1>4, <1>5
<1>9. Single(p)
  <2> SUFFICES ASSUME NEW j \in Inbounds, NEW k \in 1 .. Len(p[j]), NEW m \in 1 .. Len(p[j]),
                      p[j][m] = p[j][k]
               PROVE  m = k
    BY DEF Single
  <2>1. CASE j = i
    <3>1. /\ k + 1 \in 1 .. Len(q[i]) /\ p[i][k] = q[i][k + 1]
          /\ m + 1 \in 1 .. Len(q[i]) /\ p[i][m] = q[i][m + 1]
      BY <2>1, <1>2
    <3>2. m + 1 = k + 1
      BY <3>1, <2>1 DEF HoldsIn, Single
    <3>. QED
      BY <3>2, <2>1, <1>2
  <2>2. CASE j # i
    BY <2>2, <1>3 DEF HoldsIn, Single
  <2>. QED
    BY <2>1, <2>2
<1>10. Full(p, t, at)
  <2> SUFFICES ASSUME NEW d \in Clients, t[d] = at
               PROVE  \E k : Place(p[InboundOf[d]], k, d)
    BY DEF Full
  <2>1. d # c /\ s[d] = at
    BY <1>4
  <2>2. PICK k : Place(q[InboundOf[d]], k, d)
    BY <2>1 DEF HoldsIn, Full
  <2>3. InboundOf[d] \in Inbounds
    BY InboundAssumption
  <2>4. CASE InboundOf[d] = i
    <3>1. k \in 1 .. Len(q[i]) /\ q[i][k] = d /\ k # 1
      BY <2>1, <2>2, <2>4, <1>2 DEF Place
    <3>2. k - 1 \in 1 .. Len(p[i]) /\ p[i][k - 1] = q[i][(k - 1) + 1] /\ (k - 1) + 1 = k
      BY <3>1, <1>2
    <3>3. Place(p[i], k - 1, d)
      BY <3>1, <3>2 DEF Place
    <3>. QED
      BY <3>3, <2>4
  <2>5. CASE InboundOf[d] # i
    BY <2>2, <2>3, <2>5, <1>3
  <2>. QED
    BY <2>4, <2>5
<1>. QED
  BY <1>2, <1>6, <1>8, <1>9, <1>10 DEF HoldsIn, c, p, t

(* A client that is, and stays, at other stages than the queue's.          *)
LEMMA Aside ==
  ASSUME NEW q \in Queues, NEW s \in [Clients -> Stages], NEW at \in Stages, NEW c \in Clients,
         NEW to \in Stages \ {at}, HoldsIn(q, s, at), s[c] # at
  PROVE  HoldsIn(q, [s EXCEPT ![c] = to], at)
<1> DEFINE t == [s EXCEPT ![c] = to]
<1>1. t[c] = to /\ \A d \in Clients : d # c => t[d] = s[d]
  OBVIOUS
<1> HIDE DEF t
<1>2. Sound(q, t, at)
  <2> SUFFICES ASSUME NEW j \in Inbounds, NEW k \in 1 .. Len(q[j])
               PROVE  InboundOf[q[j][k]] = j /\ t[q[j][k]] = at
    BY DEF Sound
  <2>1. q[j] \in Seq(Clients)
    BY DEF Queues
  <2>2. q[j][k] \in Clients
    BY <2>1, ElementOfSeq
  <2>3. InboundOf[q[j][k]] = j /\ s[q[j][k]] = at
    BY DEF HoldsIn, Sound
  <2>. QED
    BY <2>2, <2>3, <1>1
<1>3. Full(q, t, at)
  <2> SUFFICES ASSUME NEW d \in Clients, t[d] = at
               PROVE  \E k : Place(q[InboundOf[d]], k, d)
    BY DEF Full
  <2>. QED
    BY <1>1 DEF HoldsIn, Full
<1>. QED
  BY <1>2, <1>3 DEF HoldsIn, t

-----------------------------------------------------------------------------
IInv == TypeOK /\ OneOwner

(* The three queues, and the stage at which a client is in each.           *)
LEMMA Owners ==
  /\ OneOwner <=> /\ HoldsIn(backlog, stage, "dialled")
                  /\ HoldsIn(accepted, stage, "accepted")
                  /\ HoldsIn(sessions_, stage, "asked")
  /\ OneOwner' <=> /\ HoldsIn(backlog', stage', "dialled")
                   /\ HoldsIn(accepted', stage', "accepted")
                   /\ HoldsIn(sessions_', stage', "asked")
<1>1. \A q, at : Holds(q, at) <=> HoldsIn(q, stage, at)
  BY HoldsIsHoldsIn
<1>2. OneOwner <=> /\ HoldsIn(backlog, stage, "dialled")
                   /\ HoldsIn(accepted, stage, "accepted")
                   /\ HoldsIn(sessions_, stage, "asked")
  BY <1>1 DEF OneOwner
<1>3. OneOwner' <=> /\ HoldsIn(backlog', stage', "dialled")
                    /\ HoldsIn(accepted', stage', "accepted")
                    /\ HoldsIn(sessions_', stage', "asked")
  <2>1. Holds(backlog, "dialled")' <=> HoldsIn(backlog', stage', "dialled")
    BY Zenon DEF Holds, HoldsIn, Sound, Single, Full, Place
  <2>2. Holds(accepted, "accepted")' <=> HoldsIn(accepted', stage', "accepted")
    BY Zenon DEF Holds, HoldsIn, Sound, Single, Full, Place
  <2>3. Holds(sessions_, "asked")' <=> HoldsIn(sessions_', stage', "asked")
    BY Zenon DEF Holds, HoldsIn, Sound, Single, Full, Place
  <2>. QED
    BY <2>1, <2>2, <2>3 DEF OneOwner
<1>. QED
  BY <1>2, <1>3

LEMMA Types ==
  /\ TypeOK => /\ backlog \in Queues /\ accepted \in Queues /\ sessions_ \in Queues
               /\ stage \in [Clients -> Stages]
  /\ {"away", "dialled", "accepted", "handshake", "asked", "connecting", "relayed", "ended"}
       = Stages
BY DEF TypeOK, Queues, Stages

LEMMA InitIInv == Init => IInv
<1> SUFFICES ASSUME Init PROVE IInv
  OBVIOUS
<1>1. TypeOK
  BY EmptySeq, OpenedAssumption DEF Init, TypeOK
<1>2. \A at \in {"dialled", "accepted", "asked"} :
        HoldsIn([i \in Inbounds |-> <<>>], [c \in Clients |-> "away"], at)
  <2>1. Len(<<>>) = 0 /\ 1 .. 0 = {}
    BY EmptySeq
  <2>. QED
    BY <2>1, InboundAssumption DEF HoldsIn, Sound, Single, Full
<1>3. OneOwner
  BY <1>2, Owners DEF Init
<1>. QED
  BY <1>1, <1>3 DEF IInv

(* Where the queues stay, a client that is in none of them before and      *)
(* after a move is all that changes.                                       *)
LEMMA MoveAside ==
  ASSUME IInv, NEW c \in Clients,
         NEW from \in {"handshake", "connecting", "relayed"},
         NEW to \in {"connecting", "relayed", "ended"},
         Moves(c, from, to), UNCHANGED queues
  PROVE  OneOwner'
<1>1. /\ \A at \in {"dialled", "accepted", "asked"} :
           at \in Stages /\ from # at /\ to \in Stages \ {at}
      /\ stage[c] = from /\ stage' = [stage EXCEPT ![c] = to]
      /\ backlog' = backlog /\ accepted' = accepted /\ sessions_' = sessions_
  BY DEF Moves, queues, Stages
<1>. QED
  BY <1>1, Owners, Types, Aside DEF IInv

LEMMA NextIInv == IInv /\ [Next]_vars => IInv'
<1> SUFFICES ASSUME IInv, [Next]_vars PROVE IInv'
  OBVIOUS
<1> USE DEF IInv
<1>0. /\ backlog \in Queues /\ accepted \in Queues /\ sessions_ \in Queues
      /\ stage \in [Clients -> Stages]
      /\ HoldsIn(backlog, stage, "dialled") /\ HoldsIn(accepted, stage, "accepted")
      /\ HoldsIn(sessions_, stage, "asked")
  BY Types, Owners
<1>1. \A i \in Inbounds : Bind(i) \/ AcceptFails(i) => IInv'
  <2> TAKE i \in Inbounds
  <2> HAVE Bind(i) \/ AcceptFails(i)
  <2>1. TypeOK'
    BY DEF Bind, AcceptFails, TypeOK, queues
  <2>2. OneOwner'
    BY <1>0, Owners DEF Bind, AcceptFails, queues
  <2>. QED
    BY <2>1, <2>2
<1>2. \A c \in Clients : Leave(c) => IInv'
  <2> TAKE c \in Clients
  <2> HAVE Leave(c)
  <2>1. TypeOK'
    BY DEF Leave, TypeOK, queues
  <2>2. OneOwner'
    BY <1>0, Owners DEF Leave, queues
  <2>. QED
    BY <2>1, <2>2
<1>3. \A c \in Clients : Dial(c) => IInv'
  <2> TAKE c \in Clients
  <2> HAVE Dial(c)
  <2>1. /\ stage[c] = "away" /\ stage' = [stage EXCEPT ![c] = "dialled"]
        /\ backlog' = [backlog EXCEPT ![InboundOf[c]] = Append(@, c)]
        /\ UNCHANGED <<listener, accepted, sessions_, opened, left>>
    BY DEF Dial, Moves
  <2>2. TypeOK'
    BY <2>1, <1>0, InboundAssumption, Appended DEF TypeOK, Queues
  <2>3. HoldsIn(backlog', stage', "dialled")
    BY <2>1, <1>0, Enqueue DEF Stages
  <2>4. HoldsIn(accepted', stage', "accepted") /\ HoldsIn(sessions_', stage', "asked")
    BY <2>1, <1>0, Aside DEF Stages
  <2>. QED
    BY <2>2, <2>3, <2>4, Owners
<1>4. \A i \in Inbounds : Accept(i) => IInv'
  <2> TAKE i \in Inbounds
  <2> HAVE Accept(i)
  <2> DEFINE c == Head(backlog[i])
  <2>1. /\ backlog[i] # <<>> /\ stage[c] = "dialled"
        /\ stage' = [stage EXCEPT ![c] = "accepted"]
        /\ accepted' = [accepted EXCEPT ![i] = Append(@, c)]
        /\ backlog' = [backlog EXCEPT ![i] = Tail(@)]
        /\ UNCHANGED <<listener, sessions_, opened, left>>
    BY DEF Accept, Moves
  <2>2. c \in Clients /\ InboundOf[c] = i /\ HoldsIn(backlog', stage', "dialled")
    <3>1. "dialled" \in Stages /\ "accepted" \in Stages \ {"dialled"}
      BY DEF Stages
    <3>2. /\ Head(backlog[i]) \in Clients /\ InboundOf[Head(backlog[i])] = i
          /\ HoldsIn([backlog EXCEPT ![i] = Tail(@)],
                     [stage EXCEPT ![Head(backlog[i])] = "accepted"], "dialled")
      BY <2>1, <3>1, <1>0, Dequeue
    <3>. QED
      BY <3>2, <2>1
  <2> HIDE DEF c
  <2>3. TypeOK'
    BY <2>1, <2>2, <1>0, Appended, Taken DEF TypeOK, Queues
  <2>4. HoldsIn(accepted', stage', "accepted")
    BY <2>1, <2>2, <1>0, Enqueue DEF Stages
  <2>5. HoldsIn(sessions_', stage', "asked")
    BY <2>1, <2>2, <1>0, Aside DEF Stages
  <2>. QED
    BY <2>2, <2>3, <2>4, <2>5, Owners
<1>5. \A i \in Inbounds : Greet(i) => IInv'
  <2> TAKE i \in Inbounds
  <2> HAVE Greet(i)
  <2> DEFINE c == Head(accepted[i])
  <2>1. /\ accepted[i] # <<>> /\ stage[c] = "accepted"
        /\ stage' = [stage EXCEPT ![c] = "handshake"]
        /\ accepted' = [accepted EXCEPT ![i] = Tail(@)]
        /\ UNCHANGED <<listener, backlog, sessions_, opened, left>>
    BY DEF Greet, Moves
  <2>2. c \in Clients /\ InboundOf[c] = i /\ HoldsIn(accepted', stage', "accepted")
    <3>1. "accepted" \in Stages /\ "handshake" \in Stages \ {"accepted"}
      BY DEF Stages
    <3>2. /\ Head(accepted[i]) \in Clients /\ InboundOf[Head(accepted[i])] = i
          /\ HoldsIn([accepted EXCEPT ![i] = Tail(@)],
                     [stage EXCEPT ![Head(accepted[i])] = "handshake"], "accepted")
      BY <2>1, <3>1, <1>0, Dequeue
    <3>. QED
      BY <3>2, <2>1
  <2> HIDE DEF c
  <2>3. TypeOK'
    BY <2>1, <2>2, <1>0, Taken DEF TypeOK, Queues
  <2>4. HoldsIn(backlog', stage', "dialled") /\ HoldsIn(sessions_', stage', "asked")
    BY <2>1, <2>2, <1>0, Aside DEF Stages
  <2>. QED
    BY <2>2, <2>3, <2>4, Owners
<1>6. \A c \in Clients : Ask(c) => IInv'
  <2> TAKE c \in Clients
  <2> HAVE Ask(c)
  <2>1. /\ stage[c] = "handshake" /\ stage' = [stage EXCEPT ![c] = "asked"]
        /\ sessions_' = [sessions_ EXCEPT ![InboundOf[c]] = Append(@, c)]
        /\ UNCHANGED <<listener, backlog, accepted, opened, left>>
    BY DEF Ask, Moves
  <2>2. TypeOK'
    BY <2>1, <1>0, InboundAssumption, Appended DEF TypeOK, Queues
  <2>3. HoldsIn(sessions_', stage', "asked")
    BY <2>1, <1>0, Enqueue DEF Stages
  <2>4. HoldsIn(backlog', stage', "dialled") /\ HoldsIn(accepted', stage', "accepted")
    BY <2>1, <1>0, Aside DEF Stages
  <2>. QED
    BY <2>2, <2>3, <2>4, Owners
<1>7. \A i \in Inbounds : inboundWork_(i) => IInv'
  <2> TAKE i \in Inbounds
  <2> HAVE inboundWork_(i)
  <2> DEFINE c == Head(sessions_[i])
  <2>1. /\ sessions_[i] # <<>> /\ stage[c] = "asked"
        /\ stage' = [stage EXCEPT ![c] = "connecting"]
        /\ sessions_' = [sessions_ EXCEPT ![i] = Tail(@)]
        /\ UNCHANGED <<listener, backlog, accepted, opened, left>>
    BY DEF inboundWork_, Moves
  <2>2. c \in Clients /\ InboundOf[c] = i /\ HoldsIn(sessions_', stage', "asked")
    <3>1. "asked" \in Stages /\ "connecting" \in Stages \ {"asked"}
      BY DEF Stages
    <3>2. /\ Head(sessions_[i]) \in Clients /\ InboundOf[Head(sessions_[i])] = i
          /\ HoldsIn([sessions_ EXCEPT ![i] = Tail(@)],
                     [stage EXCEPT ![Head(sessions_[i])] = "connecting"], "asked")
      BY <2>1, <3>1, <1>0, Dequeue
    <3>. QED
      BY <3>2, <2>1
  <2> HIDE DEF c
  <2>3. TypeOK'
    BY <2>1, <2>2, <1>0, Taken DEF TypeOK, Queues
  <2>4. HoldsIn(backlog', stage', "dialled") /\ HoldsIn(accepted', stage', "accepted")
    BY <2>1, <2>2, <1>0, Aside DEF Stages
  <2>. QED
    BY <2>2, <2>3, <2>4, Owners
<1>8. \A c \in Clients : GiveUp(c) \/ Reach(c) \/ EndSession(c) => IInv'
  <2> TAKE c \in Clients
  <2> HAVE GiveUp(c) \/ Reach(c) \/ EndSession(c)
  <2>1. PICK from \in {"handshake", "connecting", "relayed"},
             to \in {"connecting", "relayed", "ended"} : Moves(c, from, to)
    BY DEF GiveUp, Reach, EndSession
  <2>2. UNCHANGED <<listener, queues, opened, left>>
    BY DEF GiveUp, Reach, EndSession
  <2>3. TypeOK'
    BY <2>1, <2>2 DEF Moves, TypeOK, queues
  <2>4. OneOwner'
    BY <2>1, <2>2, MoveAside
  <2>. QED
    BY <2>3, <2>4
<1>9. \A c \in Clients : OpenSocket(c) \/ CloseSocket(c) => IInv'
  <2> TAKE c \in Clients
  <2> HAVE OpenSocket(c) \/ CloseSocket(c)
  <2>1. UNCHANGED <<listener, queues, stage, left>>
        /\ \/ opened[c] < MaxOpened /\ opened' = [opened EXCEPT ![c] = @ + 1]
           \/ opened[c] > 0 /\ opened' = [opened EXCEPT ![c] = @ - 1]
    <3>1. CASE OpenSocket(c)
      BY <3>1 DEF OpenSocket
    <3>2. CASE CloseSocket(c)
      <4>1. opened[c] \in 0 .. MaxOpened
        BY DEF TypeOK
      <4>. QED
        BY <3>2, <4>1, OpenedAssumption DEF CloseSocket
    <3>. QED
      BY <3>1, <3>2
  <2>2. opened' \in [Clients -> 0 .. MaxOpened]
    <3>1. opened \in [Clients -> 0 .. MaxOpened]
      BY DEF TypeOK
    <3>. QED
      BY <2>1, <3>1, OpenedAssumption
  <2>3. TypeOK'
    BY <2>1, <2>2 DEF TypeOK, queues
  <2>4. OneOwner'
    BY <2>1, <1>0, Owners DEF queues
  <2>. QED
    BY <2>3, <2>4
<1>10. UNCHANGED vars => IInv'
  <2> HAVE UNCHANGED vars
  <2>1. TypeOK'
    BY DEF vars, TypeOK
  <2>2. OneOwner'
    BY <1>0, Owners DEF vars
  <2>. QED
    BY <2>1, <2>2
<1>. QED
  BY <1>1, <1>2, <1>3, <1>4, <1>5, <1>6, <1>7, <1>8, <1>9, <1>10 DEF Next, mainWork_

(* The queues, the stages and the loops are well typed: of                 *)
(* Listener::sessions_, Inbound::sessions_ and the coroutines.             *)
THEOREM TypeCorrect == Spec => []TypeOK
<1>1. IInv => TypeOK
  BY DEF IInv
<1>. QED
  BY <1>1, InitIInv, NextIInv, PTL DEF Spec

(* Every connection has one owner, however many clients and inbounds there *)
(* are: TcpListener::mainWork_, MixedInbound::mainWork_ and                *)
(* App::inboundWork_ drop, double and misdirect nothing.                   *)
THEOREM OwnersAreUnique == Spec => []OneOwner
<1>1. IInv => OneOwner
  BY DEF IInv
<1>. QED
  BY <1>1, InitIInv, NextIInv, PTL DEF Spec

-----------------------------------------------------------------------------
(* The clients' view: each step is a step of one visit, or of none.        *)
LEMMA InitIsInit == Init => AsIfAlone!Init
BY DEF Init, AsIfAlone!Init

LEMMA NextIsNext == IInv /\ [Next]_vars => [AsIfAlone!Next]_(AsIfAlone!vars)
<1> SUFFICES ASSUME IInv, [Next]_vars PROVE [AsIfAlone!Next]_(AsIfAlone!vars)
  OBVIOUS
<1> USE DEF AsIfAlone!Next
<1>0. /\ \A q \in {backlog, accepted, sessions_} : q \in Queues
      /\ stage \in [Clients -> Stages]
      /\ HoldsIn(backlog, stage, "dialled") /\ HoldsIn(accepted, stage, "accepted")
      /\ HoldsIn(sessions_, stage, "asked")
  BY Types, Owners DEF IInv
<1>h. ASSUME NEW q \in Queues, NEW at \in Stages, HoldsIn(q, stage, at), NEW i \in Inbounds,
             q[i] # <<>>
      PROVE  Head(q[i]) \in Clients /\ InboundOf[Head(q[i])] = i
  <2>1. PICK to \in Stages \ {at} : TRUE
    BY DEF Stages
  <2>2. q[i] # <<>> /\ HoldsIn(q, stage, at)
    BY <1>h
  <2>. QED
    BY <2>1, <2>2, <1>0, Dequeue
<1>1. ASSUME NEW i \in Inbounds, mainWork_(i) PROVE AsIfAlone!Next
  <2>1. CASE Bind(i) \/ AcceptFails(i)
    BY <2>1 DEF Bind, AcceptFails, AsIfAlone!Listens
  <2>2. CASE Accept(i)
    <3>1. Head(backlog[i]) \in Clients /\ InboundOf[Head(backlog[i])] = i
      BY <2>2, <1>0, <1>h DEF Accept, Stages
    <3>2. AsIfAlone!Admit(Head(backlog[i]))
      BY <2>2, <3>1 DEF Accept, Moves, AsIfAlone!Admit, AsIfAlone!Moves
    <3>. QED
      BY <3>1, <3>2
  <2>. QED
    BY <1>1, <2>1, <2>2 DEF mainWork_
<1>2. ASSUME NEW i \in Inbounds, Greet(i) PROVE AsIfAlone!Next
  <2>1. Head(accepted[i]) \in Clients
    BY <1>2, <1>0, <1>h DEF Greet, Stages
  <2>2. AsIfAlone!Greet(Head(accepted[i]))
    BY <1>2 DEF Greet, Moves, AsIfAlone!Greet, AsIfAlone!Moves
  <2>. QED
    BY <2>1, <2>2
<1>3. ASSUME NEW i \in Inbounds, inboundWork_(i) PROVE AsIfAlone!Next
  <2>1. Head(sessions_[i]) \in Clients
    BY <1>3, <1>0, <1>h DEF inboundWork_, Stages
  <2>2. AsIfAlone!Start(Head(sessions_[i]))
    BY <1>3 DEF inboundWork_, Moves, AsIfAlone!Start, AsIfAlone!Moves
  <2>. QED
    BY <2>1, <2>2
<1>4. ASSUME NEW c \in Clients, Dial(c) \/ Leave(c) PROVE AsIfAlone!Next
  <2>1. AsIfAlone!Dial(c) \/ AsIfAlone!Leave(c)
    BY <1>4 DEF Dial, Leave, Moves, AsIfAlone!Dial, AsIfAlone!Leave, AsIfAlone!Moves
  <2>. QED
    BY <2>1
<1>5. ASSUME NEW c \in Clients, Ask(c) \/ GiveUp(c) \/ Reach(c) \/ EndSession(c)
      PROVE  AsIfAlone!Next
  <2>1. AsIfAlone!Ask(c) \/ AsIfAlone!Reach(c) \/ AsIfAlone!End(c)
    BY <1>5 DEF Ask, GiveUp, Reach, EndSession, Moves, AsIfAlone!Ask, AsIfAlone!Reach,
                AsIfAlone!End, AsIfAlone!Moves
  <2>. QED
    BY <2>1
<1>6. CASE UNCHANGED vars
  BY <1>6 DEF vars, AsIfAlone!vars
<1>7. ASSUME NEW c \in Clients, OpenSocket(c) \/ CloseSocket(c) PROVE UNCHANGED AsIfAlone!vars
  BY <1>7 DEF OpenSocket, CloseSocket, AsIfAlone!vars
<1>. QED
  BY <1>1, <1>2, <1>3, <1>4, <1>5, <1>6, <1>7 DEF Next

(* Whatever the others do, each client's visit takes the steps it would    *)
(* take alone, in that order (the safety of EachAsIfAlone; its liveness is *)
(* checked by TLC): the three loops of the program only spawn.             *)
THEOREM ImplementsVisits == Spec => AsIfAlone!Safety
<1>. QED
  BY InitIInv, NextIInv, InitIsInit, NextIsNext, PTL DEF Spec, AsIfAlone!Safety
=============================================================================
