------------------------------ MODULE Message -------------------------------
(***************************************************************************)
(* The DNS messages of src/dns/message.cpp, byte by byte.  A name is the   *)
(* sequence of its characters; positions count from 0, as in the code.     *)
(***************************************************************************)
EXTENDS Bytes, SequencesExt

CONSTANT Throws  \* stands for a result where the code throws

ASSUME ThrowsAssumption == Throws \notin Seq(Nat) /\ Throws \notin Seq(Seq(Nat))

Dot == 46

(* The labels of a name from the position start on; a dot at the very end  *)
(* starts no label.                                                        *)
LabelsOf(name) ==
  LET from[start \in 0 .. Len(name)] ==
        LET dots == {i \in start .. Len(name) - 1 : name[i + 1] = Dot}
            end == CHOOSE i \in dots : \A j \in dots : i <= j
        IN  IF start = Len(name) THEN <<>>
            ELSE IF dots = {} THEN <<SubSeq(name, start + 1, Len(name))>>
            ELSE <<SubSeq(name, start + 1, end)>> \o from[end + 1]
  IN  from[0]

(* Mutant: the limit is off by one. *)
LabelFitsMore(label) == Len(label) \in 1 .. 64

LabelFits(label) == Len(label) \in 1 .. 63

(* One dot at the end is dropped first. *)
encodeQname(domain) ==
  LET name == IF domain # <<>> /\ Last(domain) = Dot THEN Front(domain) ELSE domain
      labels == LabelsOf(name)
  IN  IF Len(domain) > 255 \/ name = <<>> \/ \E i \in DOMAIN labels : ~LabelFits(labels[i])
      THEN Throws
      ELSE FlattenSeq([i \in DOMAIN labels |-> <<Len(labels[i])>> \o labels[i]]) \o <<0>>

A == 1
AAAA == 28
build_dns_query(id, domain, is_v6) ==
  LET qname == encodeQname(domain)
  IN  IF qname = Throws THEN Throws
      ELSE write_u16(id) \o <<1, 0>> \o write_u16(1) \o write_u16(0) \o write_u16(0) \o write_u16(0)
             \o qname \o write_u16(IF is_v6 THEN AAAA ELSE A) \o write_u16(1)

(* The name in the first question; a label may have any length here. *)
parse_dns_query(data) ==
  LET from[pos \in 12 .. Len(data)] ==
        LET len == data[pos + 1]
            rest == from[pos + 1 + len]
        IN  IF pos = Len(data) \/ pos + 1 + len > Len(data) THEN Throws
            ELSE IF len = 0 THEN <<>>
            ELSE IF rest = Throws THEN Throws
            ELSE <<SubSeq(data, pos + 2, pos + 1 + len)>> \o rest
      labels == from[12]
  IN  IF Len(data) < 12 \/ labels = Throws THEN Throws
      ELSE FlattenSeq([i \in DOMAIN labels |-> (IF i = 1 THEN <<>> ELSE <<Dot>>) \o labels[i]])

-----------------------------------------------------------------------------
(* Reading a response, a position outside the packet stands for a throw:   *)
(* every later step then throws as well.                                   *)
Outside(packet) == Len(packet) + 1

(* The position n bytes on. *)
Over(packet, n, pos) == IF pos + n > Len(packet) THEN Outside(packet) ELSE pos + n

(* Mutant: the pointer's second byte is not skipped. *)
OverPointerHalf(packet, pos) == Over(packet, 1, pos)

OverPointer(packet, pos) == Over(packet, 2, pos)

(* Over a name: labels up to an empty one, or up to a pointer. *)
skipName(packet, offset) ==
  LET from[o \in 0 .. Len(packet)] ==
        LET len == packet[o + 1]
        IN  IF o = Len(packet) THEN Outside(packet)
            ELSE IF len >= 192 THEN OverPointer(packet, o)
            ELSE IF len = 0 THEN o + 1
            ELSE IF len > 63 \/ o + len + 1 > Len(packet) THEN Outside(packet)
            ELSE from[o + len + 1]
  IN  IF offset > Len(packet) THEN offset ELSE from[offset]

(* After the questions. *)
Questions(packet) ==
  LET after[i \in 0 .. Number(packet, 4, 2)] ==
        IF i = 0 THEN 12 ELSE Over(packet, 4, skipName(packet, after[i - 1]))
  IN  after[Number(packet, 4, 2)]

(* The address in a record whose type stands at pos, if it holds one, of   *)
(* class 1 and of the length of its kind.                                  *)
AddressAt(packet, pos) ==
  LET type == Number(packet, pos, 2)
      rdlength == Number(packet, pos + 8, 2)
  IN  IF Number(packet, pos + 2, 2) = 1 /\ <<type, rdlength>> \in {<<A, 4>>, <<AAAA, 16>>}
      THEN <<SubSeq(packet, pos + 11, pos + 10 + rdlength)>> ELSE <<>>

parse_dns_response(packet) ==
  LET after[i \in 0 .. Number(packet, 6, 2)] ==   \* position and addresses after i answers
        LET before == after[i - 1]
            pos == skipName(packet, before.pos)
            end == IF Over(packet, 10, pos) > Len(packet) THEN Outside(packet)
                   ELSE After(packet, pos + 8, 2)
        IN  IF i = 0 THEN [pos |-> Questions(packet), found |-> <<>>]
            ELSE IF end > Len(packet) THEN [pos |-> Outside(packet), found |-> <<>>]
            ELSE [pos |-> end, found |-> before.found \o AddressAt(packet, pos)]
      all == after[Number(packet, 6, 2)]
  IN  IF Len(packet) < 12 \/ all.pos > Len(packet) THEN Throws ELSE all.found
=============================================================================
