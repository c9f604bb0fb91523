---------------------------- MODULE RelayProofs -----------------------------
(***************************************************************************)
(* Proofs about Relay for every set of chunks, any number of them and any  *)
(* window.                                                                 *)
(***************************************************************************)
EXTENDS Relay, SequenceLemmas

(* A coroutine holds a chunk exactly while it writes. *)
DataHeld ==
  \A s \in Sides : IF forward[s] = "writing" THEN Len(data[s]) = 1 ELSE data[s] = <<>>

(* What a direction has taken out of its source, or still can, is a prefix *)
(* of what was sent.  After it has ended, what its source still holds is   *)
(* not part of the flow, since a chunk may have been dropped in between.   *)
Flow(s) == IF forward[s] = "ended" THEN Carried(s) ELSE Carried(s) \o inbox[s]
InOrder == \A s \in Sides : \E t \in Seq(Chunks) : sent[s] = Flow(s) \o t

IInv == TypeOK /\ DataHeld /\ NothingLost /\ InOrder

LEMMA SidesFacts ==
  /\ \A s \in Sides : other(s) \in Sides /\ other(s) # s /\ other(other(s)) = s
  /\ \A s, q \in Sides : q = s \/ q = other(s)
BY DEF Sides, other

LEMMA SeqTypes ==
  ASSUME TypeOK, NEW s \in Sides
  PROVE  /\ sent[s] \in Seq(Chunks) /\ inbox[s] \in Seq(Chunks) /\ data[s] \in Seq(Chunks)
         /\ outbox[s] \in Seq(Chunks) /\ recvd[s] \in Seq(Chunks)
         /\ recvd[other(s)] \in Seq(Chunks) /\ outbox[other(s)] \in Seq(Chunks)
         /\ Carried(s) \in Seq(Chunks) /\ Carried(s) \o inbox[s] \in Seq(Chunks)
         /\ recvd[other(s)] \o outbox[other(s)] \in Seq(Chunks)
<1>1. /\ sent[s] \in Seq(Chunks) /\ inbox[s] \in Seq(Chunks) /\ data[s] \in Seq(Chunks)
      /\ outbox[s] \in Seq(Chunks) /\ recvd[s] \in Seq(Chunks)
      /\ recvd[other(s)] \in Seq(Chunks) /\ outbox[other(s)] \in Seq(Chunks)
  BY SidesFacts DEF TypeOK
<1>2. recvd[other(s)] \o outbox[other(s)] \in Seq(Chunks)
  BY <1>1, ConcatProperties
<1>3. Carried(s) \in Seq(Chunks)
  BY <1>1, <1>2, ConcatProperties DEF Carried
<1>. QED
  BY <1>1, <1>2, <1>3, ConcatProperties

(* The algebra of streams of chunks. *)
LEMMA Closed == \A a, b \in Seq(Chunks) : a \o b \in Seq(Chunks)
BY ConcatProperties

LEMMA Assoc ==
  ASSUME NEW a \in Seq(Chunks), NEW b \in Seq(Chunks), NEW c \in Seq(Chunks)
  PROVE  Associates(a, b, c)
BY AssociatedOver

(* w starts with a. *)
Starts(a, w) == \E v \in Seq(Chunks) : w = a \o v

LEMMA StartsTransitive ==
  ASSUME NEW a \in Seq(Chunks), NEW b \in Seq(Chunks), NEW w, Starts(a, b), Starts(b, w)
  PROVE  Starts(a, w)
<1>1. PICK c \in Seq(Chunks) : b = a \o c
  BY DEF Starts
<1>2. PICK u \in Seq(Chunks) : w = b \o u
  BY DEF Starts
<1>3. PICK v \in Seq(Chunks) : v = c \o u
  BY ConcatProperties
<1>4. Associates(a, c, u)
  BY Assoc
<1>5. w = a \o v
  BY <1>1, <1>2, <1>3, <1>4 DEF Associates
<1>. QED
  BY <1>5 DEF Starts

LEMMA Neutral == <<>> \in Seq(Chunks) /\ \A a \in Seq(Chunks) : a \o <<>> = a /\ <<>> \o a = a
BY EmptySeq, ConcatEmptySeq

LEMMA Appended ==
  \A a, b \in Seq(Chunks) : \A v \in Chunks :
    /\ Append(a, v) \in Seq(Chunks)
    /\ Append(a, v) = a \o <<v>>
    /\ b \o Append(a, v) = Append(b \o a, v)
<1> TAKE a, b \in Seq(Chunks)
<1> TAKE v \in Chunks
<1>1. Append(a, v) \in Seq(Chunks) /\ Append(a, v) = a \o <<v>>
  BY AppendProperties, AppendIsConcat
<1>2. b \o Append(a, v) = Append(b \o a, v)
  BY AppendRight
<1>. QED
  BY <1>1, <1>2

Moved(a, b) ==
  /\ Head(b) \in Chunks /\ Tail(b) \in Seq(Chunks)
  /\ Append(a, Head(b)) \o Tail(b) = a \o b

LEMMA HeadMoved ==
  ASSUME NEW a \in Seq(Chunks), NEW b \in Seq(Chunks), b # <<>>
  PROVE  Moved(a, b)
<1>1. Head(b) \in Chunks /\ Tail(b) \in Seq(Chunks)
  BY HeadTailProperties
<1>2. Append(a, Head(b)) \o Tail(b) = a \o b
  BY MoveHead
<1>. QED
  BY <1>1, <1>2 DEF Moved

-----------------------------------------------------------------------------
LEMMA InitIInv == Init => IInv
<1> SUFFICES ASSUME Init PROVE IInv
  OBVIOUS
<1>1. TypeOK /\ DataHeld
  BY WindowAssumption, EmptySeq DEF Init, TypeOK, DataHeld
<1>2. \A s \in Sides : sent[s] = <<>> /\ Carried(s) \o inbox[s] = <<>> /\ forward[s] = "reading"
  BY SidesFacts, EmptySeq, ConcatEmptySeq DEF Init, Carried
<1>3. NothingLost
  BY <1>2 DEF NothingLost
<1>4. InOrder
  BY <1>2, EmptySeq, ConcatEmptySeq DEF InOrder, Flow
<1>. QED
  BY <1>1, <1>3, <1>4 DEF IInv

(* What the end of a frame does to the buffers. *)
LEMMA ReleaseEffect ==
  ASSUME TypeOK, Release
  PROVE  /\ \A q \in Sides : outbox'[q] \in {outbox[q], <<>>}
         /\ outbox' \in [Sides -> Seq(Chunks)]
         /\ open' \in BOOLEAN
         /\ \A q \in Sides : forward'[q] # "ended" => outbox' = outbox
<1>1. open' \in BOOLEAN /\ \A q \in Sides : forward'[q] # "ended" => open'
  BY Zenon DEF Release
<1>2. CASE open'
  BY <1>1, <1>2 DEF Release, TypeOK
<1>3. CASE ~open'
  <2>1. PICK L \in SUBSET Sides : outbox' = [s \in Sides |-> IF s \in L THEN <<>> ELSE outbox[s]]
    BY <1>3 DEF Release
  <2>2. \A q \in Sides : outbox'[q] \in {outbox[q], <<>>}
    BY <2>1
  <2>3. \A q \in Sides : outbox'[q] \in Seq(Chunks)
    BY <2>2, Neutral DEF TypeOK
  <2>. QED
    BY <1>1, <1>3, <2>1, <2>2, <2>3
<1>. QED
  BY <1>2, <1>3

(* Types and buffers, action by action. *)
LEMMA StepTypes == IInv /\ [Next]_vars => TypeOK' /\ DataHeld'
<1> SUFFICES ASSUME IInv, [Next]_vars PROVE TypeOK' /\ DataHeld'
  OBVIOUS
<1> USE SidesFacts DEF IInv
<1>1. ASSUME NEW s \in Sides, NEW v \in Chunks, PeerSends(s, v) PROVE TypeOK' /\ DataHeld'
  <2>1. Append(sent[s], v) \in Seq(Chunks) /\ Append(inbox[s], v) \in Seq(Chunks)
    BY AppendProperties DEF TypeOK
  <2>. QED
    BY <1>1, <2>1 DEF PeerSends, TypeOK, DataHeld
<1>2. ASSUME NEW s \in Sides, PeerShuts(s) \/ PeerCloses(s) PROVE TypeOK' /\ DataHeld'
  <2>1. PICK p \in {"shut", "closed"} : peer' = [peer EXCEPT ![s] = p]
    BY <1>2 DEF PeerShuts, PeerCloses
  <2>2. UNCHANGED <<sent, inbox, outbox, recvd, forward, data, timer, relayer, open>>
    BY <1>2 DEF PeerShuts, PeerCloses
  <2>3. peer' \in [Sides -> {"open", "shut", "closed", "reset"}]
    BY <2>1 DEF TypeOK
  <2>4. DataHeld'
    BY <2>2 DEF DataHeld
  <2>. QED
    BY <2>2, <2>3, <2>4 DEF TypeOK
<1>3. ASSUME NEW s \in Sides, PeerResets(s) PROVE TypeOK' /\ DataHeld'
  <2>1. inbox' \in [Sides -> Seq(Chunks)]
    <3>1. inbox \in [Sides -> Seq(Chunks)]
      BY DEF TypeOK
    <3>2. CASE inbox' = inbox
      BY <3>1, <3>2
    <3>3. CASE inbox' = [inbox EXCEPT ![s] = <<>>]
      BY <3>1, <3>3, Neutral
    <3>. QED
      BY <1>3, <3>2, <3>3 DEF PeerResets
  <2>2. peer' \in [Sides -> {"open", "shut", "closed", "reset"}]
    BY <1>3 DEF PeerResets, TypeOK
  <2>. QED
    BY <1>3, <2>1, <2>2 DEF PeerResets, TypeOK, DataHeld
<1>4. ASSUME NEW s \in Sides, PeerReads(s) PROVE TypeOK' /\ DataHeld'
  <2>1. /\ Head(outbox[s]) \in Chunks /\ Tail(outbox[s]) \in Seq(Chunks)
        /\ Len(Tail(outbox[s])) <= Window
    <3>1. outbox[s] \in Seq(Chunks) /\ outbox[s] # <<>> /\ Len(outbox[s]) <= Window
      BY <1>4 DEF PeerReads, TypeOK
    <3>2. /\ Head(outbox[s]) \in Chunks /\ Tail(outbox[s]) \in Seq(Chunks)
          /\ Len(Tail(outbox[s])) = Len(outbox[s]) - 1 /\ Len(outbox[s]) \in Nat
      BY <3>1, HeadTailProperties, LenProperties
    <3>. QED
      BY <3>1, <3>2, WindowAssumption
  <2>2. Append(recvd[s], Head(outbox[s])) \in Seq(Chunks)
    BY <2>1, AppendProperties DEF TypeOK
  <2>. QED
    BY <1>4, <2>1, <2>2 DEF PeerReads, TypeOK, DataHeld
<1>5. ASSUME NEW s \in Sides, Read(s) PROVE TypeOK' /\ DataHeld'
  <2>1. Head(inbox[s]) \in Chunks /\ Tail(inbox[s]) \in Seq(Chunks)
    BY <1>5, HeadTailProperties DEF Read, TypeOK
  <2>2. <<Head(inbox[s])>> \in Seq(Chunks) /\ Len(<<Head(inbox[s])>>) = 1
    BY <2>1
  <2>. QED
    BY <1>5, <2>1, <2>2 DEF Read, env, TypeOK, DataHeld
<1>6. ASSUME NEW s \in Sides, Write(s) PROVE TypeOK' /\ DataHeld'
  <2>1. /\ outbox[other(s)] \o data[s] \in Seq(Chunks)
        /\ Len(outbox[other(s)] \o data[s]) <= Window
    <3>1. /\ outbox[other(s)] \in Seq(Chunks) /\ data[s] \in Seq(Chunks)
          /\ Len(data[s]) = 1 /\ Len(outbox[other(s)]) < Window
      BY <1>6 DEF Write, TypeOK, DataHeld
    <3>2. /\ Len(outbox[other(s)] \o data[s]) = Len(outbox[other(s)]) + Len(data[s])
          /\ Len(outbox[other(s)]) \in Nat
      BY <3>1, ConcatProperties, LenProperties
    <3>. QED
      BY <3>1, <3>2, Closed, WindowAssumption
  <2>2. /\ outbox' = [outbox EXCEPT ![other(s)] = outbox[other(s)] \o data[s]]
        /\ data' = [data EXCEPT ![s] = <<>>] /\ forward' = [forward EXCEPT ![s] = "reading"]
        /\ UNCHANGED <<peer, sent, recvd, inbox, timer, relayer, open>>
    BY <1>6 DEF Write, env
  <2>3. DataHeld'
    BY <2>2 DEF TypeOK, DataHeld
  <2>5. /\ outbox' \in [Sides -> Seq(Chunks)]
        /\ \A q \in Sides : Len(outbox'[q]) <= Window
    <3> DEFINE x == outbox[other(s)] \o data[s]
    <3>1. x \in Seq(Chunks) /\ Len(x) <= Window /\ outbox' = [outbox EXCEPT ![other(s)] = x]
      BY <2>1, <2>2
    <3> HIDE DEF x
    <3>. QED
      BY <3>1 DEF TypeOK
  <2>6. /\ data' \in [Sides -> Seq(Chunks)]
        /\ forward' \in [Sides -> {"reading", "writing", "ended"}]
    BY <2>2, EmptySeq DEF TypeOK
  <2>4. TypeOK'
    BY <2>2, <2>5, <2>6 DEF TypeOK
  <2>. QED
    BY <2>3, <2>4
<1>7. ASSUME Release PROVE /\ outbox' \in [Sides -> Seq(Chunks)]
                           /\ \A q \in Sides : Len(outbox'[q]) <= Window
                           /\ open' \in BOOLEAN
  <2>1. Len(<<>>) <= Window
    BY WindowAssumption
  <2>. QED
    BY <1>7, <2>1, ReleaseEffect DEF TypeOK
<1>8. ASSUME NEW s \in Sides, EndForward(s) PROVE TypeOK' /\ DataHeld'
  BY <1>7, <1>8, EmptySeq DEF EndForward, env, TypeOK, DataHeld
<1>9. CASE EndRelay
  BY <1>7, <1>9 DEF EndRelay, env, TypeOK, DataHeld
<1>10. CASE UNCHANGED vars
  BY <1>10 DEF vars, TypeOK, DataHeld
<1>. QED
  BY <1>1, <1>2, <1>3, <1>4, <1>5, <1>6, <1>8, <1>9, <1>10 DEF Next, Proxy

-----------------------------------------------------------------------------
(* NothingLost and InOrder for one direction. *)
OrderAt(s) == /\ forward[s] # "ended" /\ peer[s] # "reset" => sent[s] = Carried(s) \o inbox[s]
              /\ \E t \in Seq(Chunks) : sent[s] = Flow(s) \o t

(* A step that leaves a direction's flow as it was. *)
LEMMA KeepFlow ==
  ASSUME NEW s \in Sides, OrderAt(s), sent'[s] = sent[s], Flow(s)' = Flow(s),
         forward'[s] = "ended" <=> forward[s] = "ended",
         peer[s] = "reset" => peer'[s] = "reset"
  PROVE  OrderAt(s)'
BY DEF OrderAt, Flow

(* What a direction has taken out of its source is a prefix of the flow. *)
LEMMA CarriedFirst ==
  ASSUME TypeOK, NEW s \in Sides, OrderAt(s)
  PROVE  \E t \in Seq(Chunks) : sent[s] = Carried(s) \o t
<1>1. PICK u \in Seq(Chunks) : sent[s] = Flow(s) \o u
  BY DEF OrderAt
<1>2. Carried(s) \in Seq(Chunks) /\ inbox[s] \in Seq(Chunks)
  BY SeqTypes
<1>3. inbox[s] \o u \in Seq(Chunks)
  BY <1>2, Closed
<1>4. Associates(Carried(s), inbox[s], u)
  BY <1>2, Assoc
<1>. QED
  BY <1>1, <1>3, <1>4 DEF Flow, Associates

(* A step after which a direction has ended, with its chunk and perhaps    *)
(* what its destination has not read dropped.                              *)
LEMMA DropFlow ==
  ASSUME TypeOK, NEW s \in Sides, OrderAt(s), sent' = sent, recvd' = recvd,
         forward'[s] = "ended", data'[s] = <<>>,
         outbox'[other(s)] \in {outbox[other(s)], <<>>}
  PROVE  OrderAt(s)'
<1> DEFINE R == recvd[other(s)]
           O == outbox[other(s)]
           B == R \o O
<1>1. /\ R \in Seq(Chunks) /\ O \in Seq(Chunks) /\ data[s] \in Seq(Chunks)
      /\ B \in Seq(Chunks) /\ Carried(s) \in Seq(Chunks)
  BY SeqTypes
<1>2. Starts(R, B)
  BY <1>1 DEF Starts
<1>3. Starts(B, Carried(s))
  BY <1>1 DEF Starts, Carried
<1>4. Starts(Carried(s), sent[s])
  BY CarriedFirst DEF Starts
<1>5. Starts(B, sent[s]) /\ Starts(R, sent[s])
  <2> HIDE DEF R, O, B
  <2>1. Starts(B, sent[s])
    BY <1>1, <1>3, <1>4, StartsTransitive
  <2>. QED
    BY <1>1, <1>2, <2>1, StartsTransitive
<1>6. Carried(s)' \in {B, R}
  <2>1. /\ Carried(s)' = (R \o outbox'[other(s)]) \o <<>>
        /\ outbox'[other(s)] \in {O, <<>>}
    BY DEF Carried, R, O
  <2>2. (R \o O) \o <<>> = R \o O /\ R \o <<>> = R
    BY <1>1, Neutral
  <2>3. CASE outbox'[other(s)] = O
    BY <2>1, <2>2, <2>3
  <2>4. CASE outbox'[other(s)] = <<>>
    BY <2>1, <2>2, <2>4
  <2>. QED
    BY <2>1, <2>3, <2>4
<1>. QED
  BY <1>5, <1>6 DEF OrderAt, Flow, Starts

LEMMA StepOrder ==
  ASSUME IInv, [Next]_vars, NEW q \in Sides
  PROVE  OrderAt(q)'
<1> USE SidesFacts DEF IInv
<1>0. /\ OrderAt(q)
      /\ forward \in [Sides -> {"reading", "writing", "ended"}]
      /\ peer \in [Sides -> {"open", "shut", "closed", "reset"}]
  BY DEF OrderAt, NothingLost, InOrder, TypeOK
<1>t. /\ sent[q] \in Seq(Chunks) /\ inbox[q] \in Seq(Chunks) /\ data[q] \in Seq(Chunks)
      /\ recvd[other(q)] \in Seq(Chunks) /\ outbox[other(q)] \in Seq(Chunks)
      /\ Carried(q) \in Seq(Chunks) /\ Carried(q) \o inbox[q] \in Seq(Chunks)
      /\ recvd[other(q)] \o outbox[other(q)] \in Seq(Chunks)
  BY SeqTypes
<1>1. ASSUME NEW s \in Sides, NEW v \in Chunks, PeerSends(s, v) PROVE OrderAt(q)'
  <2>1. /\ sent' = [sent EXCEPT ![s] = Append(sent[s], v)]
        /\ inbox' = [inbox EXCEPT ![s] = Append(inbox[s], v)]
        /\ peer[s] = "open" /\ Carried(q)' = Carried(q) /\ forward' = forward /\ peer' = peer
    BY <1>1 DEF PeerSends, Carried
  <2>2. CASE q # s
    <3>1. sent'[q] = sent[q] /\ inbox'[q] = inbox[q]
      BY <2>1, <2>2 DEF TypeOK
    <3>. QED
      BY <1>0, <2>1, <3>1, KeepFlow DEF Flow
  <2>3. CASE q = s
    <3>1. sent'[q] = Append(sent[q], v) /\ inbox'[q] = Append(inbox[q], v)
      BY <2>1, <2>3 DEF TypeOK
    <3>2. CASE forward[q] = "ended"
      <4>1. PICK t \in Seq(Chunks) : sent[q] = Carried(q) \o t
        BY <1>0, <3>2 DEF OrderAt, Flow
      <4>3. /\ Append(t, v) \in Seq(Chunks)
            /\ Carried(q) \o Append(t, v) = Append(Carried(q) \o t, v)
        BY <1>t, <4>1, Appended
      <4>2. Append(t, v) \in Seq(Chunks) /\ sent'[q] = Carried(q) \o Append(t, v)
        BY <3>1, <4>1, <4>3, Zenon
      <4>. QED
        BY <2>1, <3>2, <4>2 DEF OrderAt, Flow
    <3>3. CASE forward[q] # "ended"
      <4>1. sent'[q] = Carried(q) \o inbox'[q]
        <5>1. sent[q] = Carried(q) \o inbox[q]
          BY <1>0, <2>1, <2>3, <3>3 DEF OrderAt
        <5>2. Carried(q) \o Append(inbox[q], v) = Append(Carried(q) \o inbox[q], v)
          BY <1>t, Appended
        <5>. QED
          BY <3>1, <5>1, <5>2, Zenon
      <4>2. sent'[q] = sent'[q] \o <<>> /\ <<>> \in Seq(Chunks)
        BY <3>1, <1>t, Appended, Neutral
      <4>. QED
        <5>1. forward'[q] # "ended" /\ Flow(q)' = sent'[q]
          BY <2>1, <3>3, <4>1 DEF Flow
        <5>. QED
          BY <4>1, <4>2, <5>1 DEF OrderAt, Flow
    <3>. QED
      BY <3>2, <3>3
  <2>. QED
    BY <2>2, <2>3
<1>2. ASSUME NEW s \in Sides, PeerShuts(s) \/ PeerCloses(s) PROVE OrderAt(q)'
  BY <1>0, <1>2, KeepFlow DEF PeerShuts, PeerCloses, Flow, Carried
<1>3. ASSUME NEW s \in Sides, PeerResets(s) PROVE OrderAt(q)'
  <2>1. /\ UNCHANGED <<sent, forward>> /\ Carried(q)' = Carried(q)
        /\ peer' = [peer EXCEPT ![s] = "reset"]
        /\ inbox' \in {inbox, [inbox EXCEPT ![s] = <<>>]}
    BY <1>3 DEF PeerResets, Carried
  <2>2. CASE inbox'[q] = inbox[q]
    BY <1>0, <2>1, <2>2, KeepFlow DEF Flow
  <2>3. CASE q = s /\ inbox'[q] = <<>>
    <3>1. PICK t \in Seq(Chunks) : sent[q] = Carried(q) \o t
      BY <1>0, CarriedFirst
    <3>2. Carried(q) \o <<>> = Carried(q)
      BY <1>t, Neutral
    <3>3. Flow(q)' = Carried(q)
      BY <2>1, <2>3, <3>2 DEF Flow
    <3>. QED
      BY <1>0, <2>1, <2>3, <3>1, <3>3 DEF OrderAt
  <2>4. inbox'[q] = inbox[q] \/ (q = s /\ inbox'[q] = <<>>)
    <3>1. inbox \in [Sides -> Seq(Chunks)]
      BY DEF TypeOK
    <3>. QED
      BY <2>1, <3>1
  <2>. QED
    BY <2>2, <2>3, <2>4
<1>4. ASSUME NEW s \in Sides, PeerReads(s) PROVE OrderAt(q)'
  <2>1. /\ UNCHANGED <<peer, sent, inbox, forward, data>> /\ outbox[s] # <<>>
        /\ recvd' = [recvd EXCEPT ![s] = Append(recvd[s], Head(outbox[s]))]
        /\ outbox' = [outbox EXCEPT ![s] = Tail(outbox[s])]
    BY <1>4 DEF PeerReads
  <2>2. recvd'[other(q)] \o outbox'[other(q)] = recvd[other(q)] \o outbox[other(q)]
    <3>1. CASE other(q) = s
      <4>1. recvd'[s] = Append(recvd[s], Head(outbox[s])) /\ outbox'[s] = Tail(outbox[s])
        BY <2>1 DEF TypeOK
      <4>2. recvd[s] \in Seq(Chunks) /\ outbox[s] \in Seq(Chunks)
        BY DEF TypeOK
      <4>. QED
        <5>2. Moved(recvd[s], outbox[s])
          BY <2>1, <4>2, HeadMoved
        <5>1. recvd'[s] \o outbox'[s] = recvd[s] \o outbox[s]
          BY <4>1, <5>2 DEF Moved
        <5>. QED
          BY <3>1, <5>1, Zenon
    <3>2. CASE other(q) # s
      BY <2>1, <3>2 DEF TypeOK
    <3>. QED
      BY <3>1, <3>2
  <2>. QED
    <3>0. Carried(q)' = Carried(q)
      BY <2>1, <2>2, Zenon DEF Carried
    <3>1. Flow(q)' = Flow(q)
      BY <2>1, <3>0 DEF Flow
    <3>. QED
      BY <1>0, <2>1, <3>1, KeepFlow
<1>5. ASSUME NEW s \in Sides, Read(s) PROVE OrderAt(q)'
  <2>1. /\ UNCHANGED <<peer, sent, recvd, outbox>>
        /\ forward[s] = "reading" /\ inbox[s] # <<>>
        /\ data' = [data EXCEPT ![s] = <<Head(inbox[s])>>]
        /\ inbox' = [inbox EXCEPT ![s] = Tail(inbox[s])]
        /\ forward' = [forward EXCEPT ![s] = "writing"]
    BY <1>5 DEF Read, env
  <2>2. CASE q # s
    <3>1. data'[q] = data[q] /\ inbox'[q] = inbox[q] /\ forward'[q] = forward[q]
      BY <2>1, <2>2 DEF TypeOK
    <3>. QED
      BY <1>0, <2>1, <3>1, KeepFlow DEF Flow, Carried
  <2>3. CASE q = s
    <3>1. /\ data[q] = <<>> /\ data'[q] = <<Head(inbox[q])>> /\ inbox'[q] = Tail(inbox[q])
          /\ forward'[q] = "writing"
      BY <2>1, <2>3 DEF TypeOK, DataHeld
    <3> DEFINE P == recvd[other(q)] \o outbox[other(q)]
    <3>2. P \in Seq(Chunks) /\ inbox[q] \in Seq(Chunks) /\ inbox[q] # <<>>
      BY <2>1, <2>3, <1>t
    <3> HIDE DEF P
    <3>m. Moved(P, inbox[q])
      BY <3>2, HeadMoved
    <3>3. Head(inbox[q]) \in Chunks /\ P \o <<Head(inbox[q])>> = Append(P, Head(inbox[q]))
      BY <3>2, <3>m, Appended DEF Moved
    <3>4. Append(P, Head(inbox[q])) \o Tail(inbox[q]) = P \o inbox[q] /\ P \o <<>> = P
      BY <3>2, <3>m, Neutral DEF Moved
    <3> USE DEF P
    <3>5. Flow(q)' = (P \o <<Head(inbox[q])>>) \o Tail(inbox[q])
      BY <2>1, <3>1 DEF Flow, Carried
    <3>6. Flow(q) = (P \o <<>>) \o inbox[q]
      BY <2>1, <2>3, <3>1 DEF Flow, Carried
    <3>7. Flow(q)' = Flow(q)
      BY <3>3, <3>4, <3>5, <3>6
    <3>. QED
      BY <1>0, <2>1, <2>3, <3>1, <3>7, KeepFlow
  <2>. QED
    BY <2>2, <2>3
<1>6. ASSUME NEW s \in Sides, Write(s) PROVE OrderAt(q)'
  <2>1. /\ UNCHANGED <<peer, sent, recvd, inbox>> /\ forward[s] = "writing"
        /\ outbox' = [outbox EXCEPT ![other(s)] = outbox[other(s)] \o data[s]]
        /\ data' = [data EXCEPT ![s] = <<>>]
        /\ forward' = [forward EXCEPT ![s] = "reading"]
    BY <1>6 DEF Write, env
  <2>2. CASE q # s
    <3>1. data'[q] = data[q] /\ outbox'[other(q)] = outbox[other(q)] /\ forward'[q] = forward[q]
      BY <2>1, <2>2 DEF TypeOK
    <3>. QED
      BY <1>0, <2>1, <3>1, KeepFlow DEF Flow, Carried
  <2>3. CASE q = s
    <3>1. /\ data'[q] = <<>> /\ outbox'[other(q)] = outbox[other(q)] \o data[q]
          /\ forward'[q] = "reading"
      BY <2>1, <2>3 DEF TypeOK
    <3>2. Carried(q)' = Carried(q)
      <4>1. outbox[other(q)] \o data[q] \in Seq(Chunks)
        BY <1>t, Closed
      <4>2. recvd[other(q)] \o (outbox[other(q)] \o data[q]) \in Seq(Chunks)
        BY <4>1, <1>t, Closed
      <4>3. recvd[other(q)] \o (outbox[other(q)] \o data[q])
              = (recvd[other(q)] \o outbox[other(q)]) \o data[q]
        <5>1. /\ recvd[other(q)] \in Seq(Chunks) /\ outbox[other(q)] \in Seq(Chunks)
              /\ data[q] \in Seq(Chunks)
          BY <1>t
        <5>2. Associates(recvd[other(q)], outbox[other(q)], data[q])
          BY <5>1, Assoc
        <5>. QED
          BY <5>2 DEF Associates
      <4>4. Carried(q)' = (recvd[other(q)] \o (outbox[other(q)] \o data[q])) \o <<>>
        BY <2>1, <3>1 DEF Carried
      <4>5. Carried(q)' = recvd[other(q)] \o (outbox[other(q)] \o data[q])
        BY <4>2, <4>4, Neutral
      <4>. QED
        BY <4>3, <4>5 DEF Carried
    <3>. QED
      BY <1>0, <2>1, <2>3, <3>1, <3>2, KeepFlow DEF Flow
  <2>. QED
    BY <2>2, <2>3
<1>7. ASSUME NEW s \in Sides, EndForward(s) PROVE OrderAt(q)'
  <2>1. /\ UNCHANGED <<peer, sent, recvd, inbox>>
        /\ forward' = [forward EXCEPT ![s] = "ended"] /\ data' = [data EXCEPT ![s] = <<>>]
        /\ Release
    BY <1>7 DEF EndForward, env
  <2>2. outbox'[other(q)] \in {outbox[other(q)], <<>>}
        /\ (forward'[q] # "ended" => outbox' = outbox)
    BY <2>1, ReleaseEffect
  <2>3. CASE forward'[q] = "ended"
    <3>1. data'[q] = <<>>
      BY <2>1, <2>3 DEF TypeOK, DataHeld
    <3>. QED
      BY <1>0, <2>1, <2>2, <2>3, <3>1, DropFlow
  <2>4. CASE forward'[q] # "ended"
    <3>1. data'[q] = data[q] /\ forward'[q] = forward[q]
      BY <2>1, <2>4 DEF TypeOK
    <3>. QED
      BY <1>0, <2>1, <2>2, <2>4, <3>1, KeepFlow DEF Flow, Carried
  <2>. QED
    BY <2>3, <2>4
<1>8. CASE EndRelay
  <2>1. UNCHANGED <<peer, sent, recvd, inbox, data, forward>> /\ Release
    BY <1>8 DEF EndRelay, env
  <2>2. outbox'[other(q)] \in {outbox[other(q)], <<>>}
        /\ (forward'[q] # "ended" => outbox' = outbox)
    BY <2>1, ReleaseEffect
  <2>3. CASE forward[q] = "ended"
    BY <1>0, <2>1, <2>2, <2>3, DropFlow DEF DataHeld
  <2>4. CASE forward[q] # "ended"
    BY <1>0, <2>1, <2>2, <2>4, KeepFlow DEF Flow, Carried
  <2>. QED
    BY <2>3, <2>4
<1>9. CASE UNCHANGED vars
  BY <1>0, <1>9, KeepFlow DEF vars, Flow, Carried
<1>. QED
  BY <1>1, <1>2, <1>3, <1>4, <1>5, <1>6, <1>7, <1>8, <1>9 DEF Next, Proxy

LEMMA StepIInv == IInv /\ [Next]_vars => IInv'
BY StepTypes, StepOrder DEF IInv, OrderAt, NothingLost, InOrder

LEMMA InductiveInvariant == Spec => []IInv
BY InitIInv, StepIInv, PTL DEF Spec

-----------------------------------------------------------------------------
(* The variables keep their types, and no socket takes more than its       *)
(* window.                                                                 *)
THEOREM TypeCorrect == Spec => []TypeOK
BY InductiveInvariant, PTL DEF IInv

(* A running direction has every chunk sent in exactly one place. *)
THEOREM NoLoss == Spec => []NothingLost
BY InductiveInvariant, PTL DEF IInv

-----------------------------------------------------------------------------
LInv == EndsForCause /\ ConnectionsOutliveForwards /\ TimerFollowsForwards

LEMMA StepLInv == TypeOK /\ LInv /\ [Next]_vars => LInv'
<1> SUFFICES ASSUME TypeOK, LInv, [Next]_vars PROVE LInv'
  OBVIOUS
<1> USE SidesFacts DEF LInv
<1>1. ASSUME NEW s \in Sides, NEW v \in Chunks, PeerSends(s, v) PROVE LInv'
  BY <1>1 DEF PeerSends, TypeOK, EndsForCause, ConnectionsOutliveForwards, TimerFollowsForwards
<1>2. ASSUME NEW s \in Sides, PeerShuts(s) \/ PeerCloses(s) PROVE LInv'
  <2>1. \A q \in Sides : /\ peer[q] # "open" => peer'[q] # "open"
                         /\ peer[q] \in {"closed", "reset"} => peer'[q] \in {"closed", "reset"}
    BY <1>2 DEF PeerShuts, PeerCloses, TypeOK
  <2>2. UNCHANGED <<inbox, forward, timer, relayer, open>>
    BY <1>2 DEF PeerShuts, PeerCloses
  <2>3. EndsForCause'
    BY <2>1, <2>2 DEF EndsForCause
  <2>4. ConnectionsOutliveForwards' /\ TimerFollowsForwards'
    BY <2>2 DEF ConnectionsOutliveForwards, TimerFollowsForwards
  <2>. QED
    BY <2>3, <2>4
<1>3. ASSUME NEW s \in Sides, PeerResets(s) PROVE LInv'
  <2>1. \A q \in Sides : inbox[q] = <<>> => inbox'[q] = <<>>
    BY <1>3 DEF PeerResets, TypeOK
  <2>. QED
    BY <1>3, <2>1 DEF PeerResets, TypeOK, EndsForCause, ConnectionsOutliveForwards,
                      TimerFollowsForwards
<1>4. ASSUME NEW s \in Sides, PeerReads(s) PROVE LInv'
  BY <1>4 DEF PeerReads, EndsForCause, ConnectionsOutliveForwards, TimerFollowsForwards
<1>5. ASSUME NEW s \in Sides, Read(s) PROVE LInv'
  BY <1>5 DEF Read, env, TypeOK, EndsForCause, ConnectionsOutliveForwards, TimerFollowsForwards
<1>6. ASSUME NEW s \in Sides, Write(s) PROVE LInv'
  BY <1>6 DEF Write, env, TypeOK, EndsForCause, ConnectionsOutliveForwards, TimerFollowsForwards
<1>7. ASSUME Release PROVE ConnectionsOutliveForwards'
  BY <1>7, Zenon DEF Release, ConnectionsOutliveForwards
<1>8. ASSUME NEW s \in Sides, EndForward(s) PROVE LInv'
  <2>1. EndsForCause'
    BY <1>8 DEF EndForward, ReadFails, WriteFails, env, TypeOK, EndsForCause
  <2>2. TimerFollowsForwards'
    BY <1>8 DEF EndForward, env, TypeOK, TimerFollowsForwards
  <2>3. ConnectionsOutliveForwards'
    BY <1>7, <1>8 DEF EndForward
  <2>. QED
    BY <2>1, <2>2, <2>3
<1>9. CASE EndRelay
  <2>1. EndsForCause' /\ TimerFollowsForwards'
    BY <1>9 DEF EndRelay, env, EndsForCause, TimerFollowsForwards
  <2>2. ConnectionsOutliveForwards'
    BY <1>7, <1>9 DEF EndRelay
  <2>. QED
    BY <2>1, <2>2
<1>10. CASE UNCHANGED vars
  BY <1>10 DEF vars, EndsForCause, ConnectionsOutliveForwards, TimerFollowsForwards
<1>. QED
  BY <1>1, <1>2, <1>3, <1>4, <1>5, <1>6, <1>8, <1>9, <1>10 DEF Next, Proxy

LEMMA Lifetimes == Spec => []LInv
<1>1. Init => LInv
  BY DEF Init, LInv, EndsForCause, ConnectionsOutliveForwards, TimerFollowsForwards
<1>. QED
  BY <1>1, StepLInv, TypeCorrect, PTL DEF Spec

(* A direction ends for a cause of its own. *)
THEOREM NoEarlyEnd == Spec => []EndsForCause
BY Lifetimes, PTL DEF LInv

(* No coroutine uses a connection that is gone. *)
THEOREM NoDangling == Spec => []ConnectionsOutliveForwards
BY Lifetimes, PTL DEF LInv

(* relay() sleeps exactly as long as both directions run. *)
THEOREM TimerIsRight == Spec => []TimerFollowsForwards
BY Lifetimes, PTL DEF LInv

-----------------------------------------------------------------------------
(* A step of the relay is a step of the pipe of each direction, or a       *)
(* stutter.                                                                *)
LEMMA StepPipe ==
  ASSUME IInv, [Next]_vars, NEW s \in Sides
  PROVE  \/ sent'[s] = sent[s] /\ recvd'[other(s)] = recvd[other(s)]
         \/ /\ \E v \in Chunks : sent'[s] = Append(sent[s], v)
            /\ recvd'[other(s)] = recvd[other(s)]
         \/ /\ Len(recvd[other(s)]) < Len(sent[s])
            /\ recvd'[other(s)] = Append(recvd[other(s)], sent[s][Len(recvd[other(s)]) + 1])
            /\ sent'[s] = sent[s]
<1> USE DEF IInv
<1>1. ASSUME NEW q \in Sides, NEW v \in Chunks, PeerSends(q, v)
      PROVE  /\ sent'[s] = sent[s] \/ sent'[s] = Append(sent[s], v)
             /\ recvd'[other(s)] = recvd[other(s)]
  BY <1>1 DEF PeerSends, TypeOK
<1>2. ASSUME NEW q \in Sides, PeerReads(q), q # other(s)
      PROVE  sent'[s] = sent[s] /\ recvd'[other(s)] = recvd[other(s)]
  BY <1>2, SidesFacts DEF PeerReads, TypeOK
<1>3. ASSUME PeerReads(other(s))
      PROVE  /\ Len(recvd[other(s)]) < Len(sent[s])
             /\ recvd'[other(s)] = Append(recvd[other(s)], sent[s][Len(recvd[other(s)]) + 1])
             /\ sent'[s] = sent[s]
  <2> DEFINE R == recvd[other(s)]
             O == outbox[other(s)]
             D == data[s]
  <2>1. /\ R \in Seq(Chunks) /\ O \in Seq(Chunks) /\ D \in Seq(Chunks)
        /\ R \o O \in Seq(Chunks) /\ Carried(s) = (R \o O) \o D
    BY SeqTypes DEF Carried
  <2>2. sent' = sent /\ O # <<>> /\ recvd'[other(s)] = Append(R, Head(O))
    BY <1>3, SidesFacts DEF PeerReads, TypeOK
  <2>3. PICK t \in Seq(Chunks) : sent[s] = Carried(s) \o t
    BY CarriedFirst DEF OrderAt, NothingLost, InOrder
  <2> HIDE DEF R, O, D
  <2>4. D \o t \in Seq(Chunks) /\ sent[s] = (R \o O) \o (D \o t)
    <3>1. D \o t \in Seq(Chunks)
      BY <2>1, <2>3, Closed
    <3>2. Associates(R \o O, D, t)
      BY <2>1, <2>3, Assoc
    <3>. QED
      BY <2>1, <2>3, <3>1, <3>2 DEF Associates
  <2>5. (R \o O)[Len(R) + 1] = Head(O) /\ Len(R) < Len(R \o O) /\ Len(R) \in Nat
    BY <2>1, <2>2, MoveHead, LenProperties
  <2>6. sent[s][Len(R) + 1] = (R \o O)[Len(R) + 1] /\ Len(R) < Len(sent[s])
    BY <2>1, <2>4, <2>5, ConcatProperties, LenProperties
  <2>. QED
    BY <2>2, <2>5, <2>6 DEF R
<1>4. ASSUME UNCHANGED <<sent, recvd>>
      PROVE  sent'[s] = sent[s] /\ recvd'[other(s)] = recvd[other(s)]
  BY <1>4
<1>. QED
  BY <1>1, <1>2, <1>3, <1>4
     DEF Next, Proxy, PeerShuts, PeerCloses, PeerResets, Read, Write, EndForward, EndRelay, env, vars

(* What the two peers see is two pipes. *)
THEOREM ImplementsPipes == Spec => PipeSpecs
<1>0. "conn1" \in Sides /\ other("conn1") = "conn2" /\ "conn2" \in Sides /\ other("conn2") = "conn1"
  BY DEF Sides, other
<1>1. Init => Pipe1!Init /\ Pipe2!Init
  BY <1>0 DEF Init, Pipe1!Init, Pipe2!Init
<1>2. IInv /\ [Next]_vars => [Pipe1!Next]_(Pipe1!vars)
  <2> SUFFICES ASSUME IInv, [Next]_vars PROVE [Pipe1!Next]_(Pipe1!vars)
    OBVIOUS
  <2>. QED
    BY <1>0, StepPipe DEF Pipe1!Next, Pipe1!Send, Pipe1!Receive, Pipe1!vars
<1>3. IInv /\ [Next]_vars => [Pipe2!Next]_(Pipe2!vars)
  <2> SUFFICES ASSUME IInv, [Next]_vars PROVE [Pipe2!Next]_(Pipe2!vars)
    OBVIOUS
  <2>. QED
    BY <1>0, StepPipe DEF Pipe2!Next, Pipe2!Send, Pipe2!Receive, Pipe2!vars
<1>. QED
  BY <1>1, <1>2, <1>3, InductiveInvariant, PTL DEF Spec, PipeSpecs, Pipe1!Spec, Pipe2!Spec
=============================================================================
