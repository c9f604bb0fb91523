----------------------------- MODULE MCStartup ------------------------------
(* Instances of Startup for TLC: configurations of two route rules, two    *)
(* DNS rules and two rule sets, good and bad.                              *)
EXTENDS Startup

a == <<"a">>
b == <<"b">>
ab == <<"a", Dot, "b">>
bab == <<"b", "a", Dot, "b">>
xb == <<"a", "b">>
dotb == <<Dot, "b">>

TwelveAddresses ==
  {Domain(n) : n \in {a, b, ab, bab, xb, dotb}}
    \cup {V4(n) : n \in 0 .. 3}
    \cup {V6(<<0, 1>>), V6(<<2, 1>>)}

Empty == [domain |-> {}, domainSuffix |-> {}, domainKeyword |-> {}, domainRegex |-> {}, cidr |-> {}]
Net(addr, prefix) == [network |-> addr, prefix |-> prefix]

GoodRules == {[Empty EXCEPT !.domain = {a}], [Empty EXCEPT !.domainSuffix = {b}],
              [Empty EXCEPT !.domainSuffix = {dotb}], [Empty EXCEPT !.domainKeyword = {ab}],
              [Empty EXCEPT !.domainRegex = {{a, xb}}],
              [Empty EXCEPT !.cidr = {Net(V4(2), 1)}],
              [Empty EXCEPT !.cidr = {Net(V6(<<0, 1>>), 3), Net(V4(1), NoPrefix)}]}

RuleSet(tag, rule) == [tag |-> tag, type |-> "local", format |-> "source", rules |-> <<rule, Empty>>]
Route1(rule, sets) == [rule |-> rule, rule_set |-> sets, outbound |-> "o1"]
Route2(rule, sets) == [rule |-> rule, rule_set |-> sets, outbound |-> "o2"]
Dns1(rule, sets) == [rule |-> rule, rule_set |-> sets, server |-> "d1"]
Dns2(rule, sets) == [rule |-> rule, rule_set |-> sets, server |-> "d2"]

(* "o2" is defined twice, "none" not at all; so are "d2" and "none". *)
Config(r1, r2, sets1, sets2, defs, final) ==
  [inbounds |-> <<[type |-> "mixed", listen_port |-> 3, literal |-> TRUE]>>,
   outbounds |-> <<[tag |-> "o1", type |-> "direct", transport |-> "", tls |-> FALSE,
                    uuidDigits |-> 0, server_port |-> 0],
                   [tag |-> "o2", type |-> "vless", transport |-> "ws", tls |-> TRUE,
                    uuidDigits |-> 32, server_port |-> 2],
                   [tag |-> "o2", type |-> "vless", transport |-> "tcp", tls |-> FALSE,
                    uuidDigits |-> 32, server_port |-> 3]>>,
   ruleSets |-> defs,
   routeRules |-> <<Route1(r1, sets1), Route2(r2, sets2)>>,
   final |-> final,
   dnsServers |-> <<[tag |-> "d1", type |-> "udp", literal |-> TRUE, server_port |-> 1],
                    [tag |-> "d2", type |-> "https", literal |-> TRUE, server_port |-> 2],
                    [tag |-> "d2", type |-> "udp", literal |-> TRUE, server_port |-> 1]>>,
   dnsListenLiteral |-> TRUE,
   dnsListenPort |-> 1,
   dnsRules |-> <<Dns1([r1 EXCEPT !.cidr = {}], sets1), Dns2([r2 EXCEPT !.cidr = {}], sets2)>>,
   dnsFinal |-> "none"]

GoodConfigs ==
  {Config(r1, r2, sets1, sets2, <<RuleSet("s", r3), RuleSet("t", r1), RuleSet("s", r2)>>, final) :
     r1, r2, r3 \in GoodRules, sets1 \in {<<>>, <<"s">>, <<"t", "s">>}, sets2 \in {<<>>, <<"t">>},
     final \in {"none", "o1"}}

ASimple == [Empty EXCEPT !.domainSuffix = {b}]
Base == Config(ASimple, Empty, <<"s">>, <<>>, <<RuleSet("s", Empty)>>, "none")
TooLong6 == [Empty EXCEPT !.cidr = {Net(V6(<<0, 1>>), 5)}]
TooLong == [Empty EXCEPT !.cidr = {Net(V4(0), 3)}]
(* One item changed; of these only the negative ports run. *)
BadConfigs ==
  {[Base EXCEPT !.inbounds[1].listen_port = -1], [Base EXCEPT !.dnsServers[2].server_port = -2],
   [Base EXCEPT !.outbounds[2].server_port = 4], [Base EXCEPT !.dnsServers[1].server_port = 5],
   [Base EXCEPT !.dnsListenPort = 4], [Base EXCEPT !.ruleSets[1].rules[2] = TooLong6],
   [Base EXCEPT !.inbounds[1].listen_port = 4], [Base EXCEPT !.inbounds[1].type = "tun"],
   [Base EXCEPT !.ruleSets[1].type = "remote"], [Base EXCEPT !.ruleSets[1].format = "binary"],
   [Base EXCEPT !.ruleSets[1].rules[1] = TooLong], [Base EXCEPT !.ruleSets = <<>>],
   [Base EXCEPT !.routeRules[2].rule_set = <<"missing">>],
   [Base EXCEPT !.routeRules[1].rule = TooLong],
   [Base EXCEPT !.dnsRules[1].rule_set = <<"missing">>],
   [Base EXCEPT !.dnsServers[1].type = "tls"], [Base EXCEPT !.outbounds[2].tls = FALSE],
   [Base EXCEPT !.outbounds[1].transport = "quic"], [Base EXCEPT !.outbounds[1].type = "block"],
   [Base EXCEPT !.outbounds[3].uuidDigits = 31], [Base EXCEPT !.inbounds[1].literal = FALSE],
   [Base EXCEPT !.dnsServers[3].literal = FALSE], [Base EXCEPT !.dnsListenLiteral = FALSE]}

AllConfigs == GoodConfigs \cup BadConfigs
=============================================================================
