------------------------------- MODULE Sniff --------------------------------
(***************************************************************************)
(* sniffDomain of src/sniff/sniff.cpp: the server name of a TLS            *)
(* ClientHello in a client's first data, <<>> when there is none or the    *)
(* hello is cut.  Positions count from 0, as in the code.                  *)
(***************************************************************************)
EXTENDS Bytes

(* The first name of type 0 in a list: names lie between p and end, which  *)
(* is the end of the extension, not of the list.                           *)
FirstName(data, p, end) ==
  LET from[q \in p .. end] ==
        IF q + 3 > end \/ After(data, q + 1, 2) > end THEN <<>>
        ELSE IF data[q + 1] = 0 THEN SubSeq(data, q + 4, After(data, q + 1, 2))
        ELSE from[After(data, q + 1, 2)]
  IN  from[p]

(* Mutant: the names of the extension are read without their list's length. *)
ServerNameBare(data, p, end) == FirstName(data, p, end)

(* The extension server_name between p and end. *)
ServerName(data, p, end) ==
  IF p + 2 > end \/ After(data, p, 2) > end THEN <<>> ELSE FirstName(data, p + 2, end)

(* The first extension of type 0 between p and end decides. *)
Extensions(data, p, end) ==
  LET from[q \in p .. end] ==
        IF q + 4 > end \/ After(data, q + 2, 2) > end THEN <<>>
        ELSE IF Number(data, q, 2) = 0 THEN ServerName(data, q + 4, After(data, q + 2, 2))
        ELSE from[After(data, q + 2, 2)]
  IN  from[p]

(* A record of type 22 (handshake) and version 3.x, whole, and in it a     *)
(* ClientHello (1), whole, as far as its random number.                    *)
IsHello(data) ==
  /\ Len(data) >= 43
  /\ data[1] = 22 /\ data[2] = 3 /\ After(data, 3, 2) <= Len(data)
  /\ data[6] = 1 /\ After(data, 6, 3) <= Len(data)

(* Session id, cipher suites, compression methods, extensions. *)
sniffDomain(data) ==
  LET ciphers == After(data, 43, 1)
      compression == After(data, ciphers, 2)
      extensions == After(data, compression, 1)
      end == After(data, extensions, 2)
  IN  IF IsHello(data) /\ end <= Len(data) THEN Extensions(data, extensions + 2, end) ELSE <<>>

=============================================================================
