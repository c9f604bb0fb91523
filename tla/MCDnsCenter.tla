---------------------------- MODULE MCDnsCenter -----------------------------
(* Instances of DnsCenter for TLC. *)
EXTENDS DnsCenter

CONSTANTS r1, r2, c1, c2, d1, d2, d3, ip1

TwoResolvers == {r1, r2}
TwoClients == {c1, c2}
ThreeDomains == {d1, d2, d3}
TwoKnown == {d1, d2}
OneIp == {ip1}
=============================================================================
