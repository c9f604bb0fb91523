------------------------------- MODULE Rules --------------------------------
(***************************************************************************)
(* The matching of src/router: DomainRule::matchDomain and Rule::match of  *)
(* rule.cpp, IpNetwork::contains and parseCidr of ipnet.cpp.  A string is  *)
(* a sequence of characters, because the suffix rule looks at the          *)
(* character before the suffix; a regular expression is the set of strings *)
(* it matches.  Addresses are narrower than the real ones: V4Bits stands   *)
(* for 32, and V6Bytes bytes of ByteBits bits for the 16 bytes of 8.       *)
(***************************************************************************)
EXTENDS Sequences, Integers, SequencesExt

CONSTANTS V4Bits, V6Bytes, ByteBits

ASSUME WidthAssumption == V4Bits \in Nat /\ V6Bytes \in Nat /\ ByteBits \in Nat \ {0}

Dot == "."

(* An address of common/address.hpp is a name or an IP; the kinds of IP. *)
V4(n) == [kind |-> "v4", ip |-> n]
V6(bytes) == [kind |-> "v6", ip |-> bytes]
Domain(name) == [kind |-> "domain", name |-> name]

Width(kind) == IF kind = "v4" THEN V4Bits ELSE V6Bytes * ByteBits

-----------------------------------------------------------------------------
(* Mutant: no look at the character before the suffix. *)
MatchSuffixAnywhere(name, item) == IsSuffix(item, name)

(* domain.compare(size - item.size(), item.size(), item) == 0, and the     *)
(* suffix is the whole name or follows a dot.                              *)
MatchSuffix(name, item) ==
  /\ IsSuffix(item, name)
  /\ Len(name) = Len(item) \/ name[Len(name) - Len(item)] = Dot

(* domain.find(item) != npos. *)
MatchKeyword(name, item) ==
  \E i \in 0 .. Len(name) - Len(item) : SubSeq(name, i + 1, i + Len(item)) = item

matchDomain(rule, name) ==
  \/ name \in rule.domain
  \/ \E item \in rule.domainSuffix : MatchSuffix(name, item)
  \/ \E item \in rule.domainKeyword : MatchKeyword(name, item)
  \/ \E language \in rule.domainRegex : name \in language

(* The high `prefix` bits of an unsigned of `bits` bits: x & mask. *)
Masked(x, prefix, bits) == x - (x % (2 ^ (bits - prefix)))

(* IpNetwork::contains.  Both sides of each comparison are taken from the  *)
(* network (lines 7-8 and 18-19): of addr only the family is looked at.    *)
contains(n, addr) ==
  LET net == n.network.ip
      ipAddr == n.network.ip
      fullBytes == n.prefix \div ByteBits
      bits == n.prefix % ByteBits
  IN  /\ n.network.kind = addr.kind
      /\ IF n.network.kind = "v4"
         THEN /\ n.prefix <= V4Bits
              /\ \/ n.prefix = 0
                 \/ Masked(net, n.prefix, V4Bits) = Masked(ipAddr, n.prefix, V4Bits)
         ELSE /\ \A i \in 1 .. fullBytes : net[i] = ipAddr[i]
              /\ bits # 0 => Masked(net[fullBytes + 1], bits, ByteBits)
                               = Masked(ipAddr[fullBytes + 1], bits, ByteBits)

(* Rule::match: names by the domain part, IPs by the networks. *)
match(rule, addr) == IF addr.kind = "domain"
                     THEN matchDomain(rule, addr.name)
                     ELSE \E n \in rule.cidr : contains(n, addr)

(* parseCidr: no '/' means the full width; a prefix wider than the address *)
(* throws.                                                                 *)
NoPrefix == -1
(* Mutant: the bound is off by one. *)
CidrParsesOneMore(item) == item.prefix <= Width(item.network.kind) + 1

CidrParses(item) == item.prefix <= Width(item.network.kind)
parseCidr(item) ==
  [item EXCEPT !.prefix = IF @ = NoPrefix THEN Width(item.network.kind) ELSE @]
=============================================================================
