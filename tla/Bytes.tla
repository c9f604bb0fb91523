------------------------------- MODULE Bytes --------------------------------
(***************************************************************************)
(* Big-endian numbers and fields with a length in front, of which TLS and  *)
(* DNS messages and vless requests are made (src/utils/bytes.cpp).         *)
(* Positions count from 0, as in the code.                                 *)
(***************************************************************************)
EXTENDS Naturals, Sequences

write_u16(n) == <<n \div 256, n % 256>>

(* Fields of a message, with their length in front in one byte, or in two. *)
ShortField(body) == <<Len(body)>> \o body
Field(body) == write_u16(Len(body)) \o body

(* The big-endian number of w bytes at p. *)
Number(data, p, w) ==
  LET upTo[n \in 0 .. w] == IF n = 0 THEN 0 ELSE upTo[n - 1] * 256 + data[p + n] IN upTo[w]

(* The position after a field that starts with its own length in w bytes;  *)
(* if the length is cut, the first position outside data.                  *)
After(data, p, w) ==
  IF p + w > Len(data) THEN Len(data) + 1 ELSE p + w + Number(data, p, w)
=============================================================================
