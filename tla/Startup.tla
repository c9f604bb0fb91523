------------------------------ MODULE Startup -------------------------------
(***************************************************************************)
(* From configuration to routing: the checks of paresAppConfig that throw, *)
(* the Builder of src/common/builder.cpp in the order in which App::run    *)
(* calls it, and then the questions the running program asks of what was   *)
(* built: Router::match and the choice of the outbound for a session, and  *)
(* DnsCenter::match_ for a name.  An exception in any of the build steps   *)
(* ends the program, and so does a session for an outbound nobody defined. *)
(***************************************************************************)
EXTENDS Rules, Functions, FiniteSetsExt

CONSTANTS Configs,    \* the configuration files considered
          Addresses,  \* the addresses of the sessions that are routed
          U16,        \* 2^16: ports are taken modulo U16
          NoAnswer    \* nothing was asked yet

(* The members of a document that routing depends on.  A name is a         *)
(* sequence of characters; a port may be any number.                       *)
Names == Seq(STRING)
CidrConfig == [network : [kind : {"v4"}, ip : Nat] \cup [kind : {"v6"}, ip : Seq(Nat)],
               prefix : Nat \cup {NoPrefix}]
RuleConfig == [domain : SUBSET Names, domainSuffix : SUBSET Names, domainKeyword : SUBSET Names,
               domainRegex : SUBSET SUBSET Names,
               cidr : SUBSET CidrConfig]
RouteRuleConfig == [rule : RuleConfig, rule_set : Seq(STRING), outbound : STRING]
DnsRuleConfig == [rule : RuleConfig, rule_set : Seq(STRING), server : STRING]
RuleSetConfig == [tag : STRING, type : STRING, format : STRING, rules : Seq(RuleConfig)]

(* The ports of a document: of the inbounds, the outbounds, the DNS        *)
(* servers and the DNS listener.  One that is left out is 0.               *)
inboundPorts(doc) == [i \in DOMAIN doc.inbounds |-> doc.inbounds[i].listen_port]
outboundPorts(doc) == [i \in DOMAIN doc.outbounds |-> doc.outbounds[i].server_port]
dnsPorts(doc) == Append([i \in DOMAIN doc.dnsServers |-> doc.dnsServers[i].server_port],
                        doc.dnsListenPort)
documentPorts(doc) == inboundPorts(doc) \o outboundPorts(doc) \o dnsPorts(doc)

ASSUME U16Assumption == U16 \in Nat \ {0}
ASSUME ConfigsAssumption ==
  \A c \in Configs :
    /\ Range(documentPorts(c)) \subseteq Int
    /\ c.ruleSets \in Seq(RuleSetConfig)
    /\ c.routeRules \in Seq(RouteRuleConfig)
    /\ c.dnsRules \in Seq(DnsRuleConfig)
    /\ \A list \in {c.outbounds, c.dnsServers} :
         Len(list) \in Nat /\ DOMAIN list = 1 .. Len(list)
ASSUME AddressesAssumption ==
  \A addr \in Addresses :
    /\ addr.kind \in {"domain", "v4", "v6"}
    /\ addr.kind = "domain" => addr = Domain(addr.name) /\ addr.name \in Names

VARIABLES config,     \* the parsed JSON document
          phase,      \* how far App::run has come
          ports,      \* the ports of AppConfig, each a u16
          ruleSets_,  \* Builder's map from tag to rules
          servers_,   \* DnsCenter's map from tag to server (its index in the document)
          dnsRules_,  \* DnsCenter's rules
          rules_,     \* Router's rules
          outbounds,  \* App's map from tag to outbound (its index in the document)
          asked,      \* the last address routed, or the last name resolved
          answer      \* what it was answered

vars == <<config, phase, ports, ruleSets_, servers_, dnsRules_, rules_, outbounds, asked, answer>>

Init == /\ config \in Configs
        /\ phase = "parse"
        /\ ports = <<>> /\ ruleSets_ = <<>> /\ servers_ = <<>> /\ dnsRules_ = <<>>
        /\ rules_ = <<>> /\ outbounds = <<>>
        /\ asked = NoAnswer /\ answer = NoAnswer

-----------------------------------------------------------------------------
(* Filling a map from a list of tagged items: `map[tag] = item` keeps the  *)
(* last item of a tag, `map.emplace(tag, item)` the first.                 *)
Tags(items) == {items[i].tag : i \in DOMAIN items}
LastOf(items) == [t \in Tags(items) |-> Max({i \in DOMAIN items : items[i].tag = t})]
FirstOf(items) == [t \in Tags(items) |-> Min({i \in DOMAIN items : items[i].tag = t})]

(* One step of App::run: it is done, or it throws and the program ends. *)
Step(from, ok, to) == /\ phase = from
                      /\ phase' = IF ok THEN to ELSE "failed"

U16Parses(n) == n < U16

(* getu16: too large throws; the rest is narrowed to 16 bits, so that a    *)
(* negative number becomes another port (line 23 tests the upper bound     *)
(* only).                                                                  *)
getu16(n) == n % U16

(* Of the parsing, the ports; the other members are copied, and values of  *)
(* a wrong type end the program in the same way.                           *)
paresAppConfig ==
  /\ Step("parse", \A n \in Range(documentPorts(config)) : U16Parses(n), "ruleSets")
  /\ ports' = [i \in DOMAIN documentPorts(config) |-> getu16(documentPorts(config)[i])]
  /\ UNCHANGED <<config, ruleSets_, servers_, dnsRules_, rules_, outbounds, asked, answer>>

-----------------------------------------------------------------------------
buildRule(rule) == [rule EXCEPT !.cidr = {parseCidr(item) : item \in @}]
RuleParses(rule) == \A item \in rule.cidr : CidrParses(item)

RuleSetLoads(item) == /\ item.type = "local"
                      /\ item.format = "source"
                      /\ \A rule \in Range(item.rules) : RuleParses(rule)

ruleSets(items) == [t \in Tags(items) |->
  LET rules == items[LastOf(items)[t]].rules IN [i \in DOMAIN rules |-> buildRule(rules[i])]]

loadRuleSets ==
  /\ Step("ruleSets", \A item \in Range(config.ruleSets) : RuleSetLoads(item), "dns")
  /\ ruleSets_' = ruleSets(config.ruleSets)
  /\ UNCHANGED <<config, ports, servers_, dnsRules_, rules_, outbounds, asked, answer>>

Referenced(rules) == UNION {Range(rules[i].rule_set) : i \in DOMAIN rules}

(* A DNS rule becomes one entry per rule of its rule sets, and then one    *)
(* for its own domains; networks play no part.                             *)
dnsEntries(item) ==
  LET fromSet(tag) == [k \in DOMAIN ruleSets_[tag] |->
                         [rule |-> ruleSets_[tag][k], server |-> item.server]]
  IN  FlattenSeq([j \in DOMAIN item.rule_set |-> fromSet(item.rule_set[j])])
        \o <<[rule |-> item.rule, server |-> item.server]>>

(* Mutant: the rule sets of all rules come before the rules' own domains.  *)
dnsRulesSetsFirst ==
  FlattenSeq([i \in DOMAIN config.dnsRules |-> Front(dnsEntries(config.dnsRules[i]))])
    \o [i \in DOMAIN config.dnsRules |-> Last(dnsEntries(config.dnsRules[i]))]

dnsRules == FlattenSeq([i \in DOMAIN config.dnsRules |-> dnsEntries(config.dnsRules[i])])

(* The addresses of servers and listeners are literal IPs, or              *)
(* make_address throws.                                                    *)
DnsServerBuilds(item) == item.type \in {"udp", "https"} /\ item.literal

buildDnsCenter ==
  LET ok == /\ \A item \in Range(config.dnsServers) : DnsServerBuilds(item)
            /\ config.dnsListenLiteral
            /\ Referenced(config.dnsRules) \subseteq DOMAIN ruleSets_
  IN  /\ Step("dns", ok, "router")
      /\ servers_' = FirstOf(config.dnsServers)
      /\ dnsRules_' = IF ok THEN dnsRules ELSE <<>>
      /\ UNCHANGED <<config, ports, ruleSets_, rules_, outbounds, asked, answer>>

(* A route rule: its own rule, then those of its rule sets. *)
buildRouteRule(item) ==
  [rules |-> <<buildRule(item.rule)>>
               \o FlattenSeq([j \in DOMAIN item.rule_set |-> ruleSets_[item.rule_set[j]]]),
   outbound |-> item.outbound]

RouteRulesBuild ==
  /\ \A i \in DOMAIN config.routeRules : RuleParses(config.routeRules[i].rule)
  /\ Referenced(config.routeRules) \subseteq DOMAIN ruleSets_

buildRouter ==
  /\ Step("router", RouteRulesBuild, "outbounds")
  /\ rules_' = IF RouteRulesBuild
               THEN [i \in DOMAIN config.routeRules |-> buildRouteRule(config.routeRules[i])]
               ELSE <<>>
  /\ UNCHANGED <<config, ports, ruleSets_, servers_, dnsRules_, outbounds, asked, answer>>

(* buildOutbound: the transport is built first, also for "direct"; a UUID  *)
(* has 32 digits once its dashes are removed.                              *)
TransportBuilds(item) == \/ item.transport \in {"", "tcp"}
                         \/ item.transport = "ws" /\ item.tls
OutboundBuilds(item) == /\ TransportBuilds(item)
                        /\ item.type \in {"direct", "vless"}
                        /\ item.type = "vless" => item.uuidDigits = 32

(* Mutant: a tag that is defined twice is left out as ambiguous. *)
buildOutboundsOnce ==
  /\ Step("outbounds", \A item \in Range(config.outbounds) : OutboundBuilds(item), "inbounds")
  /\ outbounds' = [t \in {t \in Tags(config.outbounds) :
                             FirstOf(config.outbounds)[t] = LastOf(config.outbounds)[t]}
                    |-> LastOf(config.outbounds)[t]]
  /\ UNCHANGED <<config, ports, ruleSets_, servers_, dnsRules_, rules_, asked, answer>>

buildOutbounds ==
  /\ Step("outbounds", \A item \in Range(config.outbounds) : OutboundBuilds(item), "inbounds")
  /\ outbounds' = LastOf(config.outbounds)
  /\ UNCHANGED <<config, ports, ruleSets_, servers_, dnsRules_, rules_, asked, answer>>

InboundBuilds(item) == item.type = "mixed" /\ item.literal

buildInbounds ==
  /\ Step("inbounds", \A item \in Range(config.inbounds) : InboundBuilds(item), "running")
  /\ UNCHANGED <<config, ports, ruleSets_, servers_, dnsRules_, rules_, outbounds, asked, answer>>

-----------------------------------------------------------------------------
(* Router::match: the first route rule one of whose rules matches. *)
routerMatch(addr) ==
  LET Hit(item) == \E i \in DOMAIN item.rules : match(item.rules[i], addr)
      first == SelectInSeq(rules_, Hit)
  IN  IF first = 0 THEN config.final ELSE rules_[first].outbound

Null == 0

(* outbounds[outboundTag]: operator[] inserts a null pointer under a tag   *)
(* that names no outbound.                                                 *)
takeOutbound(tag) ==
  outbounds' = [t \in DOMAIN outbounds \cup {tag} |->
                  IF t \in DOMAIN outbounds THEN outbounds[t] ELSE Null]

(* App::handleSession_ up to the call of connect, through the pointer that *)
(* was taken: if it is null, the process crashes.                          *)
Route(addr) ==
  LET tag == routerMatch(addr)
      outbound == IF tag \in DOMAIN outbounds THEN outbounds[tag] ELSE Null
  IN  /\ phase = "running"
      /\ asked' = addr
      /\ answer' = [tag |-> tag, is |-> outbound]
      /\ takeOutbound(tag)
      /\ phase' = IF outbound = Null THEN "crashed" ELSE "running"
      /\ UNCHANGED <<config, ports, ruleSets_, servers_, dnsRules_, rules_>>

(* DnsCenter::match_, and the search for the server in relay: if it finds  *)
(* none, the exception ends this query and nothing else.                   *)
match_(name) ==
  LET Hit(item) == matchDomain(item.rule, name)
      first == SelectInSeq(dnsRules_, Hit)
  IN  IF first = 0 THEN config.dnsFinal ELSE dnsRules_[first].server

ChooseServer(addr) ==
  LET tag == match_(addr.name)
  IN  /\ phase = "running" /\ addr.kind = "domain"
      /\ asked' = [addr EXCEPT !.kind = "dns"]
      /\ answer' = [tag |-> tag, is |-> IF tag \in DOMAIN servers_ THEN servers_[tag] ELSE Null]
      /\ UNCHANGED <<config, phase, ports, ruleSets_, servers_, dnsRules_, rules_, outbounds>>

Next == \/ paresAppConfig \/ loadRuleSets \/ buildDnsCenter \/ buildRouter
        \/ buildOutbounds \/ buildInbounds
        \/ \E addr \in Addresses : Route(addr) \/ ChooseServer(addr)

Spec == Init /\ [][Next]_vars

-----------------------------------------------------------------------------
(* What a configuration means, said without the flattening: the rules of   *)
(* an item are its own and those of the rule sets it names, and the first  *)
(* item with a matching rule decides.                                      *)
Definition(tag) ==
  config.ruleSets[Max({i \in DOMAIN config.ruleSets : config.ruleSets[i].tag = tag})]
RulesOf(item) ==
  {item.rule} \cup UNION {Range(Definition(tag).rules) : tag \in Range(item.rule_set)}

(* A suffix is a whole number of labels. *)
UnderName(name, suffix) ==
  \/ name = suffix
  \/ \E k \in 1 .. Len(name) : SubSeq(name, k, Len(name)) = <<Dot>> \o suffix

DomainIn(rule, name) ==
  \/ name \in rule.domain
  \/ \E suffix \in rule.domainSuffix : UnderName(name, suffix)
  \/ \E word \in rule.domainKeyword, i, j \in 0 .. Len(name) : SubSeq(name, i + 1, j) = word
  \/ \E language \in rule.domainRegex : name \in language

(* The addresses of a network agree with it in the first `prefix` bits. *)
Bits(addr) ==
  LET bitsOf(n, w) == [i \in 1 .. w |-> (n \div 2 ^ (w - i)) % 2]
  IN  IF addr.kind = "v4" THEN bitsOf(addr.ip, V4Bits)
      ELSE FlattenSeq([i \in 1 .. V6Bytes |-> bitsOf(addr.ip[i], ByteBits)])
InNetwork(item, addr) ==
  LET prefix == IF item.prefix = NoPrefix THEN Width(addr.kind) ELSE item.prefix
  IN  /\ item.network.kind = addr.kind
      /\ SubSeq(Bits(item.network), 1, prefix) = SubSeq(Bits(addr), 1, prefix)

Decides(items, Hit(_), default, Tag(_)) ==
  LET hits == {i \in DOMAIN items : \E rule \in RulesOf(items[i]) : Hit(rule)}
  IN  answer.tag = IF hits = {} THEN default ELSE Tag(items[Min(hits)])

(* Of outbounds with one tag the last is in the map, of DNS servers the    *)
(* first; a tag nobody defines stands for no object.                       *)
Object(items, tag, Pick(_)) ==
  LET positions == {i \in DOMAIN items : items[i].tag = tag}
  IN  answer.is = IF positions = {} THEN Null ELSE Pick(positions)

(* A session for a name goes where the configuration says: the flattening  *)
(* of buildRouteRule, the order of the rules, duplicate tags and the       *)
(* character arithmetic of matchDomain change nothing.                     *)
NamesRoutedAsConfigured ==
  asked # NoAnswer /\ asked.kind = "domain" =>
    /\ Decides(config.routeRules, LAMBDA rule : DomainIn(rule, asked.name),
               config.final, LAMBDA item : item.outbound)
    /\ Object(config.outbounds, answer.tag, Max)

(* A name is resolved by the server the configuration says, although       *)
(* buildDnsCenter flattens in another order than buildRouteRule.           *)
ServersChosenAsConfigured ==
  asked # NoAnswer /\ asked.kind = "dns" =>
    /\ Decides(config.dnsRules, LAMBDA rule : DomainIn(rule, asked.name),
               config.dnsFinal, LAMBDA item : item.server)
    /\ Object(config.dnsServers, answer.tag, Min)

(* handleSession_ dereferences an outbound that the map may lack           *)
(* (app.cpp:59-62).  What a document has to define for no session to crash *)
(* the program: the outbounds its rules name, and the final one.  Neither  *)
(* the flattening, nor duplicate tags, nor any address leads elsewhere.    *)
DefinedTagsNeverCrash ==
  {config.final} \cup {config.routeRules[i].outbound : i \in DOMAIN config.routeRules}
    \subseteq Tags(config.outbounds) => phase # "crashed"

(* With the network n, contains shifts by less than the width of the word, *)
(* and reads bytes that the address has.                                   *)
Inside(n) ==
  IF n.network.kind = "v4"
  THEN n.prefix # 0 => V4Bits - n.prefix \in 0 .. V4Bits - 1
  ELSE /\ n.prefix \div ByteBits <= V6Bytes
       /\ n.prefix % ByteBits # 0 => n.prefix \div ByteBits < V6Bytes

(* IpNetwork::contains indexes by what parseCidr let pass, without a check *)
(* for IPv6 (ipnet.cpp:20-28): with every network that the Router matches  *)
(* with, its own or one of a rule set, it stays inside.                    *)
ContainsStaysInside ==
  \A i \in DOMAIN rules_ : \A rule \in Range(rules_[i].rules) : \A n \in rule.cidr : Inside(n)

(* ipnet.hpp:10, `bool contains(const ip::address &addr) const`: a session *)
(* to an IP goes where the networks of the configuration say.              *)
NetworksRoutedAsConfigured ==
  asked # NoAnswer /\ asked.kind \in {"v4", "v6"} =>
    Decides(config.routeRules, LAMBDA rule : \E item \in rule.cidr : InNetwork(item, asked),
            config.final, LAMBDA item : item.outbound)

=============================================================================
