--------------------------- MODULE MCMixedInbound ---------------------------
(***************************************************************************)
(* Instances of MixedInbound for TLC: one connection with every kind of    *)
(* request, and one that may stall.                                        *)
(***************************************************************************)
EXTENDS MixedInbound

(* The targets: http://ab:8080/, http://ab/, ab:8443, 1.2.3.4:443. *)
PortTarget == 101
PlainTarget == 102
NameTarget == 103
IpTarget == 104
MCUri(target) ==
  [ok   |-> target # IpTarget,
   host |-> IF target \in {PortTarget, PlainTarget} THEN <<97, 98>> ELSE <<>>,
   port |-> IF target = PortTarget THEN 8080 ELSE 0]

At(host, port) == [host |-> host, port |-> port]
Socks(methods, cmd, atyp, wanted, eager) ==
  [proto |-> "socks", methods |-> methods, version |-> 5, cmd |-> cmd, atyp |-> atyp,
   wanted |-> wanted, payload |-> <<1, 2>>, eager |-> eager]
Http(method, target, wanted, headers, payload, eager) ==
  [proto |-> "http", method |-> method, target |-> target, wanted |-> wanted,
   headers |-> headers, payload |-> payload, eager |-> eager]

Name == At(<<97, 98>>, 258)
Ip == At(<<1, 2, 3, 4>>, 80)
Good == Socks(<<0>>, 1, 3, Name, FALSE)
Plain == Http(GET, PortTarget, At(<<97, 98>>, 8080), 1, <<5>>, FALSE)
Short == Http(GET, PlainTarget, At(<<97, 98>>, 80), 0, <<1>>, FALSE)
Tunnel(headers, eager) == Http(CONNECT, NameTarget, At(<<97, 98>>, 8443), headers, <<1>>, eager)

Bare == Http(GET, NoTarget, Name, 0, <<1>>, FALSE)

SocksRequests ==
  { Good, Socks(<<2, 0>>, 1, 1, Ip, TRUE), Socks(<<0>>, 1, 3, At(<<>>, 443), FALSE),
    Socks(<<0>>, 1, 4, At([i \in 1 .. 16 |-> i], 443), FALSE),
    Socks(<<2>>, 1, 1, Ip, FALSE), Socks(<<>>, 1, 1, Ip, FALSE),
    Socks(<<0>>, 3, 1, Ip, FALSE), Socks(<<0>>, 1, 2, Ip, FALSE),
    [Good EXCEPT !.version = 4] }
HttpRequests ==
  { Plain, Short,
    Bare,
    Tunnel(1, FALSE), Tunnel(1, TRUE), Http(CONNECT, IpTarget, Ip, 1, <<1>>, FALSE) }

MCRequestsOf == [c1 |-> SocksRequests \cup HttpRequests, c2 |-> {Bare}]
TunnelsOnly == [c1 |-> {Tunnel(1, FALSE)}]
MCAddrBytes == [atyp \in {1, 4} |-> IF atyp = 1 THEN 4 ELSE 16]
=============================================================================
