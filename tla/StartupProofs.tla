--------------------------- MODULE StartupProofs ----------------------------
(***************************************************************************)
(* Proofs about Startup for any set of configurations and addresses: the   *)
(* running program routes names and chooses servers as the configuration   *)
(* says, crashes for want of an outbound only, and matches with networks   *)
(* that fit.                                                               *)
(***************************************************************************)
EXTENDS Startup, SequenceLemmas

(* What each build step leaves established for the steps after it.         *)
RuleSetsLoaded ==
  phase \in {"dns", "router", "outbounds", "inbounds", "running"} =>
    /\ DOMAIN ruleSets_ = Tags(config.ruleSets)
    /\ \A item \in Range(config.ruleSets) : RuleSetLoads(item)
DnsComplete ==
  phase \in {"router", "outbounds", "inbounds", "running"} =>
    Referenced(config.dnsRules) \subseteq DOMAIN ruleSets_
RoutesBuilt == phase \in {"outbounds", "inbounds", "running"} => RouteRulesBuild

IInv == config \in Configs /\ RuleSetsLoaded /\ DnsComplete /\ RoutesBuilt

(* The first and the last of the places of a tag.                          *)
LEMMA MinIsMember ==
  ASSUME NEW S \in SUBSET Nat, S # {}
  PROVE  Min(S) \in S /\ \A y \in S : Min(S) <= y
<1>1. PICK m \in S : \A y \in S : ~(<<y, m>> \in OpToRel(<, Nat))
  BY NatLessThanWellFounded, WFMin
<1>2. ASSUME NEW y \in S PROVE m <= y
  <2>1. m \in Nat /\ y \in Nat /\ ~(y < m)
    BY <1>1 DEF OpToRel
  <2>. QED
    BY <2>1
<1>. QED
  BY <1>2 DEF Min

(* The last of a tag's definitions is one of them.                         *)
LEMMA MaxIsMember ==
  ASSUME NEW n \in Nat, NEW S, S \subseteq 1 .. n, S # {}
  PROVE  Max(S) \in S
<1> DEFINE T == {n - x : x \in S}
<1>0. \A x \in S : x \in Nat /\ x <= n /\ n - x \in Nat /\ n - x \in T
  OBVIOUS
<1>1. T \subseteq Nat /\ T # {}
  BY <1>0
<1>2. PICK m \in T : \A y \in T : ~(<<y, m>> \in OpToRel(<, Nat))
  BY <1>1, NatLessThanWellFounded, WFMin
<1>3. \A y \in T : y \in Nat /\ m \in Nat /\ ~(y < m)
  BY <1>1, <1>2 DEF OpToRel
<1>4. PICK x \in S : m = n - x
  BY <1>2
<1>5. ASSUME NEW y \in S PROVE x >= y
  <2>1. n - y \in T /\ y \in Nat /\ x \in Nat
    BY <1>0
  <2>2. ~(n - y < n - x)
    BY <2>1, <1>3, <1>4
  <2>. QED
    BY <2>1, <2>2
<1>. QED
  BY <1>4, <1>5 DEF Max

(* The first is the least.                                                 *)
LEMMA MinIs ==
  ASSUME NEW S \in SUBSET Nat, NEW x \in S, \A y \in S : x <= y
  PROVE  Min(S) = x
<1> DEFINE m == Min(S)
<1>1. m \in S /\ m <= x
  BY MinIsMember
<1> HIDE DEF m
<1>2. m \in Nat /\ x \in Nat /\ x <= m
  BY <1>1
<1>3. m = x
  BY <1>1, <1>2
<1>. QED
  BY <1>3 DEF m

LEMMA InitIInv == Init => IInv
BY DEF Init, IInv, RuleSetsLoaded, DnsComplete, RoutesBuilt

LEMMA NextIInv == IInv /\ [Next]_vars => IInv'
<1> SUFFICES ASSUME IInv, [Next]_vars PROVE IInv'
  OBVIOUS
<1> USE DEF IInv
<1>1. CASE paresAppConfig
  BY <1>1 DEF paresAppConfig, Step, RuleSetsLoaded, DnsComplete, RoutesBuilt
<1>2. CASE loadRuleSets
  <2>1. DOMAIN ruleSets_' = Tags(config.ruleSets)
    BY <1>2 DEF loadRuleSets, ruleSets
  <2>. QED
    BY <1>2, <2>1 DEF loadRuleSets, Step, RuleSetsLoaded, DnsComplete, RoutesBuilt
<1>3. CASE buildDnsCenter
  BY <1>3 DEF buildDnsCenter, Step, RuleSetsLoaded, DnsComplete, RoutesBuilt
<1>4. CASE buildRouter
  BY <1>4 DEF buildRouter, Step, RuleSetsLoaded, DnsComplete, RoutesBuilt, RouteRulesBuild
<1>5. CASE buildOutbounds \/ buildInbounds
  BY <1>5 DEF buildOutbounds, buildInbounds, Step, RuleSetsLoaded, DnsComplete,
              RoutesBuilt, RouteRulesBuild
<1>6. CASE \E addr \in Addresses : Route(addr) \/ ChooseServer(addr)
  <2>1. /\ UNCHANGED <<config, ruleSets_>>
        /\ phase = "running" /\ phase' \in {"running", "crashed"}
    BY <1>6 DEF Route, ChooseServer
  <2>. QED
    BY <2>1 DEF RuleSetsLoaded, DnsComplete, RoutesBuilt, RouteRulesBuild
<1>7. CASE UNCHANGED vars
  BY <1>7 DEF vars, RuleSetsLoaded, DnsComplete, RoutesBuilt, RouteRulesBuild
<1>. QED
  BY <1>1, <1>2, <1>3, <1>4, <1>5, <1>6, <1>7 DEF Next

(* A rule set that is referenced has been loaded, all of its rules with it. *)
LEMMA DefinitionsLoad ==
  ASSUME config \in Configs, \A item \in Range(config.ruleSets) : RuleSetLoads(item),
         NEW tag \in Tags(config.ruleSets)
  PROVE  \A rule \in Range(Definition(tag).rules) : RuleParses(rule)
<1> DEFINE S == {i \in DOMAIN config.ruleSets : config.ruleSets[i].tag = tag}
<1>1. PICK n \in Nat : DOMAIN config.ruleSets = 1 .. n
  <2>1. config.ruleSets \in Seq(RuleSetConfig)
    BY ConfigsAssumption
  <2>. QED
    BY <2>1, LenProperties
<1>2. S \subseteq 1 .. n /\ S # {}
  BY <1>1 DEF Tags
<1>3. Max(S) \in S
  BY <1>2, MaxIsMember
<1>4. Definition(tag) \in Range(config.ruleSets)
  BY <1>3 DEF Definition, Range
<1>. QED
  BY <1>4 DEF RuleSetLoads

-----------------------------------------------------------------------------
(* The matching of src/router/rule.cpp.                                    *)

(* A suffix, place by place.                                               *)
LEMMA SuffixIs ==
  ASSUME NEW S, NEW s \in Seq(S), NEW t \in Seq(S)
  PROVE  IsSuffix(s, t) <=> /\ Len(s) <= Len(t)
                            /\ \A i \in 1 .. Len(s) : s[i] = t[Len(t) - Len(s) + i]
<1> DEFINE m == Len(s)
           n == Len(t)
           a == Reverse(s)
           b == Reverse(t)
<1>1. m \in Nat /\ n \in Nat /\ (\A i \in 1 .. m : s[i] \in S) /\ (\A i \in 1 .. n : t[i] \in S)
  BY ElementOfSeq, LenProperties
<1>2. /\ a \in Seq(S) /\ Len(a) = m /\ \A i \in 1 .. m : a[i] = s[(m - i) + 1]
  <2>1. \A i \in 1 .. m : (m - i) + 1 \in 1 .. m
    BY <1>1
  <2>. QED
    BY <1>1, <2>1 DEF Reverse
<1>3. /\ b \in Seq(S) /\ Len(b) = n /\ \A i \in 1 .. n : b[i] = t[(n - i) + 1]
  <2>1. \A i \in 1 .. n : (n - i) + 1 \in 1 .. n
    BY <1>1
  <2>. QED
    BY <1>1, <2>1 DEF Reverse
<1>4. IsSuffix(s, t) <=> m <= n /\ SubSeq(a, 1, m) = SubSeq(b, 1, m)
  BY <1>2, <1>3 DEF IsSuffix, IsPrefix
<1> HIDE DEF m, n, a, b
<1>5. ASSUME m <= n
      PROVE  SubSeq(a, 1, m) = SubSeq(b, 1, m) <=> \A i \in 1 .. m : s[i] = t[n - m + i]
  <2> DEFINE x == SubSeq(a, 1, m)
             y == SubSeq(b, 1, m)
  <2>1. x \in Seq(S) /\ Len(x) = m /\ \A i \in 1 .. m : x[i] = a[i]
    BY <1>1, <1>2, ElementOfSeq, SubSeqProperties
  <2>2. y \in Seq(S) /\ Len(y) = m /\ \A i \in 1 .. m : y[i] = b[i]
    BY <1>1, <1>3, <1>5, ElementOfSeq, SubSeqProperties
  <2> HIDE DEF x, y
  <2>3. x = y <=> \A i \in 1 .. m : a[i] = b[i]
    <3>1. x = y => \A i \in 1 .. m : a[i] = b[i]
      BY <2>1, <2>2
    <3>2. (\A i \in 1 .. m : a[i] = b[i]) => x = y
      BY <2>1, <2>2, SeqEqual
    <3>. QED
      BY <3>1, <3>2
  <2>4. \A i \in 1 .. m : (m - i) + 1 \in 1 .. m /\ i \in 1 .. n
                          /\ (n - i) + 1 = n - m + ((m - i) + 1) /\ (m - ((m - i) + 1)) + 1 = i
    BY <1>1, <1>5
  <2>5. (\A i \in 1 .. m : a[i] = b[i]) => \A i \in 1 .. m : s[i] = t[n - m + i]
    <3> SUFFICES ASSUME \A i \in 1 .. m : a[i] = b[i], NEW i \in 1 .. m
                 PROVE  s[i] = t[n - m + i]
      OBVIOUS
    <3>1. PICK j \in 1 .. m : (m - j) + 1 = i
      BY <2>4
    <3>2. j \in 1 .. n /\ (n - j) + 1 = n - m + i
      BY <2>4, <3>1
    <3>3. a[j] = s[i]
      BY <1>2, <3>1
    <3>4. b[j] = t[n - m + i]
      BY <1>3, <3>2
    <3>. QED
      BY <3>3, <3>4
  <2>6. (\A i \in 1 .. m : s[i] = t[n - m + i]) => \A i \in 1 .. m : a[i] = b[i]
    <3> SUFFICES ASSUME \A i \in 1 .. m : s[i] = t[n - m + i], NEW i \in 1 .. m
                 PROVE  a[i] = b[i]
      OBVIOUS
    <3> DEFINE j == (m - i) + 1
    <3>1. i \in 1 .. n /\ j \in 1 .. m /\ (n - i) + 1 = n - m + j
      BY <2>4
    <3>2. a[i] = s[j]
      BY <1>2
    <3>3. b[i] = t[n - m + j]
      BY <1>3, <3>1
    <3> HIDE DEF j
    <3>. QED
      BY <3>1, <3>2, <3>3
  <2>. QED
    BY <2>3, <2>5, <2>6 DEF x, y
<1>. QED
  BY <1>4, <1>5 DEF m, n

(* The characters of names, and the dot.                                   *)
Chars == STRING \cup {Dot}

LEMMA WiderChars == Names \subseteq Seq(Chars)
<1> SUFFICES ASSUME NEW s \in Seq(STRING) PROVE s \in Seq(Chars)
  BY DEF Names
<1>1. Len(s) \in Nat /\ \A i \in 1 .. Len(s) : s[i] \in Chars
  BY ElementOfSeq, LenProperties DEF Chars
<1>. QED
  BY <1>1

(* The look at the character before the suffix makes it a whole number of  *)
(* labels.                                                                 *)
LEMMA MatchSuffixIs ==
  ASSUME NEW name \in Names, NEW item \in Names
  PROVE  MatchSuffix(name, item) <=> UnderName(name, item)
<1> DEFINE n == Len(name)
           m == Len(item)
           d == n - m
           w == <<Dot>> \o item
<1>1. /\ n \in Nat /\ m \in Nat /\ d \in Int
      /\ name \in Seq(Chars) /\ item \in Seq(Chars) /\ Dot \in Chars
  <2>1. name \in Seq(Chars) /\ item \in Seq(Chars) /\ Dot \in Chars
    BY WiderChars DEF Chars
  <2>2. n \in Nat /\ m \in Nat
    BY <2>1, LenProperties
  <2>3. d \in Int
    BY <2>2
  <2>. QED
    BY <2>1, <2>2, <2>3
<1>2. MatchSuffix(name, item) <=>
        /\ m <= n /\ \A i \in 1 .. m : item[i] = name[d + i]
        /\ n = m \/ name[d] = Dot
  BY <1>1, SuffixIs DEF MatchSuffix
<1>3. /\ w \in Seq(Chars) /\ Len(w) = m + 1 /\ w[1] = Dot
      /\ \A i \in 1 .. m : w[1 + i] = item[i]
  <2>1. <<Dot>> \in Seq(Chars) /\ Len(<<Dot>>) = 1 /\ <<Dot>>[1] = Dot
    BY <1>1
  <2> DEFINE one == <<Dot>>
  <2> HIDE DEF one
  <2>2. one \in Seq(Chars) /\ Len(one) = 1 /\ one[1] = Dot
    BY <2>1 DEF one
  <2>3. one \o item \in Seq(Chars) /\ Len(one \o item) = m + 1 /\ (one \o item)[1] = Dot
    <3>1. one \o item \in Seq(Chars) /\ Len(one \o item) = m + 1
      <4>1. one \o item \in Seq(Chars) /\ Len(one \o item) = Len(one) + Len(item)
        BY <1>1, <2>2, ConcatProperties
      <4>2. Len(one) + Len(item) = m + 1
        BY <1>1, <2>2
      <4>. QED
        BY <4>1, <4>2
    <3>2. 1 \in 1 .. Len(one) + Len(item) /\ 1 <= Len(one)
      BY <1>1, <2>2
    <3>3. (one \o item)[1] = one[1]
      BY <1>1, <2>2, <3>2, ConcatProperties
    <3>. QED
      BY <2>2, <3>1, <3>3
  <2>4. ASSUME NEW i \in 1 .. m PROVE (one \o item)[1 + i] = item[i]
    <3> DEFINE j == 1 + i
    <3>1. j \in 1 .. Len(one) + Len(item) /\ ~(j <= Len(one)) /\ j - Len(one) = i
      BY <1>1, <2>2
    <3> HIDE DEF j
    <3>2. (one \o item)[j] = item[j - Len(one)]
      BY <1>1, <2>2, <3>1, ConcatProperties
    <3>. QED
      BY <3>1, <3>2 DEF j
  <2>. QED
    BY <2>3, <2>4 DEF one
<1>4. UnderName(name, item) <=> name = item \/ \E k \in 1 .. n : SubSeq(name, k, n) = w
  BY DEF UnderName
<1>5. ASSUME NEW k \in 1 .. n
      PROVE  /\ SubSeq(name, k, n) \in Seq(Chars) /\ Len(SubSeq(name, k, n)) = n - k + 1
             /\ \A i \in 1 .. n - k + 1 : SubSeq(name, k, n)[i] = name[k + i - 1]
  <2>1. \A i \in k .. n : name[i] \in Chars
    BY <1>1, ElementOfSeq
  <2>. QED
    BY <1>1, <2>1, SubSeqProperties
<1> HIDE DEF w, n, m
<1>6. ASSUME m <= n, \A i \in 1 .. m : item[i] = name[d + i], n = m \/ name[d] = Dot
      PROVE  name = item \/ \E k \in 1 .. n : SubSeq(name, k, n) = w
  <2>1. CASE n = m
    <3>1. \A i \in 1 .. m : item[i] = name[i]
      BY <1>1, <1>6, <2>1
    <3>. QED
      BY <1>1, <2>1, <3>1, SeqEqual DEF n, m
  <2>2. CASE n # m
    <3>0. d \in 1 .. n /\ n - d + 1 = m + 1
      <4>1. m < n
        BY <1>1, <1>6, <2>2
      <4>. QED
        BY <1>1, <4>1
    <3>1. d \in 1 .. n /\ n - d + 1 = m + 1 /\ name[d] = Dot
      BY <1>6, <2>2, <3>0
    <3> DEFINE x == SubSeq(name, d, n)
    <3>2. /\ x \in Seq(Chars) /\ Len(x) = m + 1
          /\ \A i \in 1 .. m + 1 : x[i] = name[d + i - 1]
      BY <1>5, <3>1
    <3> HIDE DEF x
    <3>3. ASSUME NEW i \in 1 .. m + 1 PROVE x[i] = w[i]
      <4>1. CASE i = 1
        <5>1. d + i - 1 = d /\ x[i] = name[d + i - 1]
          BY <1>1, <3>2, <4>1
        <5>. QED
          BY <1>3, <3>1, <4>1, <5>1
      <4>2. CASE i # 1
        <5>1. i - 1 \in 1 .. m /\ 1 + (i - 1) = i /\ d + i - 1 = d + (i - 1)
          BY <1>1, <4>2
        <5>2. w[i] = item[i - 1]
          BY <1>3, <5>1
        <5>3. x[i] = name[d + (i - 1)]
          BY <3>2, <5>1
        <5>. QED
          BY <1>6, <5>1, <5>2, <5>3
      <4>. QED
        BY <4>1, <4>2
    <3>4. x = w
      BY <1>1, <1>3, <3>2, <3>3, SeqEqual
    <3>. QED
      BY <3>1, <3>4 DEF x
  <2>. QED
    BY <2>1, <2>2
<1>7. ASSUME name = item
      PROVE  /\ m <= n /\ \A i \in 1 .. m : item[i] = name[d + i]
             /\ n = m \/ name[d] = Dot
  BY <1>1, <1>7 DEF n, m
<1>8. ASSUME NEW k \in 1 .. n, SubSeq(name, k, n) = w
      PROVE  /\ m <= n /\ \A i \in 1 .. m : item[i] = name[d + i]
             /\ n = m \/ name[d] = Dot
  <2>1. n - k + 1 = m + 1 /\ \A i \in 1 .. m + 1 : w[i] = name[k + i - 1]
    BY <1>3, <1>5, <1>8
  <2>2. k = d /\ m <= n
    BY <1>1, <2>1
  <2>3. name[d] = Dot
    <3>1. 1 \in 1 .. m + 1 /\ k + 1 - 1 = d
      BY <1>1, <2>2
    <3>. QED
      BY <1>3, <2>1, <3>1
  <2>4. ASSUME NEW i \in 1 .. m PROVE item[i] = name[d + i]
    <3>1. 1 + i \in 1 .. m + 1 /\ k + (1 + i) - 1 = d + i
      BY <1>1, <2>2
    <3>. QED
      BY <1>3, <2>1, <3>1
  <2>. QED
    BY <2>2, <2>3, <2>4
<1>. QED
  BY <1>2, <1>4, <1>6, <1>7, <1>8

(* A keyword is somewhere in the name.                                     *)
LEMMA MatchKeywordIs ==
  ASSUME NEW name \in Names, NEW word \in Names
  PROVE  MatchKeyword(name, word) <=>
           \E i, j \in 0 .. Len(name) : SubSeq(name, i + 1, j) = word
<1> DEFINE n == Len(name)
           m == Len(word)
<1>1. n \in Nat /\ m \in Nat /\ name \in Seq(STRING) /\ word \in Seq(STRING)
  BY LenProperties DEF Names
<1>2. ASSUME NEW i \in 0 .. n - m, SubSeq(name, i + 1, i + m) = word
      PROVE  \E k, j \in 0 .. n : SubSeq(name, k + 1, j) = word
  <2>1. i \in 0 .. n /\ i + m \in 0 .. n
    BY <1>1
  <2>. QED
    BY <1>2, <2>1
<1>3. ASSUME NEW i \in 0 .. n, NEW j \in 0 .. n, SubSeq(name, i + 1, j) = word
      PROVE  \E k \in 0 .. n - m : SubSeq(name, k + 1, k + m) = word
  <2>1. CASE i + 1 <= j
    <3>1. \A k \in i + 1 .. j : name[k] \in STRING
      BY <1>1, ElementOfSeq
    <3>2. m = j - (i + 1) + 1
      BY <1>1, <1>3, <2>1, <3>1, SubSeqProperties
    <3>3. i \in 0 .. n - m /\ i + m = j
      BY <1>1, <3>2
    <3>. QED
      BY <1>3, <3>3
  <2>2. CASE ~(i + 1 <= j)
    <3>1. i + 1 > j
      BY <2>2
    <3>2. SubSeq(name, i + 1, j) = <<>>
      BY <3>1, <1>1, SubSeqEmpty
    <3>3. word = <<>> /\ m = 0
      BY <1>3, <3>2, EmptySeq
    <3>4. SubSeq(name, 0 + 1, 0 + m) = <<>> /\ 0 \in 0 .. n - m
      BY <1>1, <3>3, SubSeqEmpty
    <3>. QED
      BY <3>3, <3>4
  <2>. QED
    BY <2>1, <2>2
<1>. QED
  BY <1>2, <1>3 DEF MatchKeyword

-----------------------------------------------------------------------------
(* What was built is what the document says.                               *)
(* The compiled rule has the domains of the configured one, and matching   *)
(* looks at nothing else.                                                  *)
LEMMA BuiltRuleMatches ==
  ASSUME NEW rule \in RuleConfig, NEW name \in Names
  PROVE  /\ matchDomain(rule, name) <=> DomainIn(rule, name)
         /\ matchDomain(buildRule(rule), name) <=> DomainIn(rule, name)
<1>1. /\ rule.domainSuffix \subseteq Names /\ rule.domainKeyword \subseteq Names
      /\ buildRule(rule).domain = rule.domain
      /\ buildRule(rule).domainSuffix = rule.domainSuffix
      /\ buildRule(rule).domainKeyword = rule.domainKeyword
      /\ buildRule(rule).domainRegex = rule.domainRegex
  BY DEF RuleConfig, buildRule
<1>2. \A item \in rule.domainSuffix : MatchSuffix(name, item) <=> UnderName(name, item)
  BY <1>1, MatchSuffixIs
<1>3. \A word \in rule.domainKeyword :
        MatchKeyword(name, word) <=> \E i, j \in 0 .. Len(name) : SubSeq(name, i + 1, j) = word
  BY <1>1, MatchKeywordIs
<1>4. matchDomain(rule, name) <=> DomainIn(rule, name)
  BY <1>2, <1>3 DEF matchDomain, DomainIn
<1>5. matchDomain(buildRule(rule), name) <=> matchDomain(rule, name)
  BY <1>1 DEF matchDomain
<1>. QED
  BY <1>4, <1>5

(* Flattening keeps the elements.                                          *)
LEMMA FlatRange ==
  ASSUME NEW S, NEW ss \in Seq(Seq(S))
  PROVE  /\ FlattenSeq(ss) \in Seq(S)
         /\ Range(FlattenSeq(ss)) = UNION {Range(ss[j]) : j \in 1 .. Len(ss)}
<1> DEFINE flat == FlattenSeq(ss)
<1>1. flat \in Seq(S)
  BY FlattenAppend, EmptySeq
<1>2. DOMAIN flat = 1 .. Len(flat) /\ \A j \in 1 .. Len(ss) : DOMAIN ss[j] = 1 .. Len(ss[j])
  BY <1>1, ElementOfSeq
<1>3. PICK p : Places(p, ss)
  BY FlattenPlaces
<1>4. /\ p \in [1 .. Len(flat) -> 1 .. Len(ss)]
      /\ \A k \in 1 .. Len(flat) : \E m \in 1 .. Len(ss[p[k]]) : flat[k] = ss[p[k]][m]
      /\ \A i \in 1 .. Len(ss) : \A m \in 1 .. Len(ss[i]) :
           \E k \in 1 .. Len(flat) : p[k] = i /\ flat[k] = ss[i][m]
  BY <1>3 DEF Places
<1> HIDE DEF flat
<1>5. ASSUME NEW k \in 1 .. Len(flat)
      PROVE  \E j \in 1 .. Len(ss) : flat[k] \in Range(ss[j])
  <2>1. p[k] \in 1 .. Len(ss)
    BY <1>4
  <2>2. PICK m \in 1 .. Len(ss[p[k]]) : flat[k] = ss[p[k]][m]
    BY <1>4
  <2>3. m \in DOMAIN ss[p[k]]
    BY <1>2, <2>1
  <2>. QED
    BY <2>1, <2>2, <2>3 DEF Range
<1>6. ASSUME NEW j \in 1 .. Len(ss), NEW m \in DOMAIN ss[j]
      PROVE  ss[j][m] \in Range(flat)
  <2>1. m \in 1 .. Len(ss[j])
    BY <1>2
  <2>2. PICK k \in 1 .. Len(flat) : flat[k] = ss[j][m]
    BY <1>4, <2>1
  <2>3. k \in DOMAIN flat
    BY <1>2
  <2>. QED
    BY <2>2, <2>3 DEF Range
<1>7. Range(flat) = UNION {Range(ss[j]) : j \in 1 .. Len(ss)}
  <2>1. \A x \in Range(flat) : \E k \in 1 .. Len(flat) : x = flat[k]
    BY <1>2 DEF Range
  <2>2. Range(flat) \subseteq UNION {Range(ss[j]) : j \in 1 .. Len(ss)}
    BY <1>5, <2>1
  <2>3. \A j \in 1 .. Len(ss) : \A x \in Range(ss[j]) : x \in Range(flat)
    BY <1>6 DEF Range
  <2>. QED
    BY <2>2, <2>3
<1>. QED
  BY <1>1, <1>7 DEF flat

(* Compiled rules, and the state once Builder::loadRuleSets has run.       *)
BuiltRules == {buildRule(rule) : rule \in RuleConfig}

Loaded == config \in Configs /\ ruleSets_ = ruleSets(config.ruleSets)

(* The map holds, under every tag, the built rules of its last definition. *)
LEMMA LoadedSet ==
  ASSUME Loaded, NEW tag \in Tags(config.ruleSets)
  PROVE  /\ Definition(tag).rules \in Seq(RuleConfig)
         /\ ruleSets_[tag]
              = [i \in DOMAIN Definition(tag).rules |-> buildRule(Definition(tag).rules[i])]
         /\ ruleSets_[tag] \in Seq(BuiltRules)
<1> DEFINE S == {i \in DOMAIN config.ruleSets : config.ruleSets[i].tag = tag}
           n == Len(config.ruleSets)
           rules == Definition(tag).rules
<1>1. config.ruleSets \in Seq(RuleSetConfig)
  BY ConfigsAssumption DEF Loaded
<1>2. n \in Nat /\ DOMAIN config.ruleSets = 1 .. n
  BY <1>1, LenProperties
<1>3. S \subseteq 1 .. n /\ S # {}
  BY <1>2 DEF Tags
<1>4. Max(S) \in 1 .. n
  BY <1>2, <1>3, MaxIsMember
<1>5. Definition(tag) \in RuleSetConfig /\ Definition(tag) = config.ruleSets[Max(S)]
  BY <1>1, <1>4, ElementOfSeq DEF Definition
<1>6. rules \in Seq(RuleConfig)
  BY <1>5 DEF RuleSetConfig
<1>7. LastOf(config.ruleSets)[tag] = Max(S)
  BY DEF LastOf
<1>8. ruleSets_[tag] = [i \in DOMAIN rules |-> buildRule(rules[i])]
  BY <1>5, <1>7 DEF Loaded, ruleSets
<1> HIDE DEF rules
<1>9. [i \in DOMAIN rules |-> buildRule(rules[i])] \in Seq(BuiltRules)
  <2>1. Len(rules) \in Nat /\ DOMAIN rules = 1 .. Len(rules)
        /\ \A i \in 1 .. Len(rules) : rules[i] \in RuleConfig
    BY <1>6, ElementOfSeq, LenProperties
  <2>2. \A i \in 1 .. Len(rules) : buildRule(rules[i]) \in BuiltRules
    BY <2>1 DEF BuiltRules
  <2>. QED
    BY <2>1, <2>2
<1>. QED
  BY <1>6, <1>8, <1>9 DEF rules

(* The rules of the rule sets of an item, flattened.                       *)
LEMMA SetsFlattened ==
  ASSUME Loaded, NEW refs \in Seq(STRING), Range(refs) \subseteq Tags(config.ruleSets)
  PROVE  LET sets == [j \in DOMAIN refs |-> ruleSets_[refs[j]]]
         IN  /\ FlattenSeq(sets) \in Seq(BuiltRules)
             /\ Range(FlattenSeq(sets))
                  = {buildRule(r) : r \in UNION {Range(Definition(tag).rules) : tag \in Range(refs)}}
<1> DEFINE sets == [j \in DOMAIN refs |-> ruleSets_[refs[j]]]
           rules == UNION {Range(Definition(tag).rules) : tag \in Range(refs)}
<1>1. Len(refs) \in Nat /\ DOMAIN refs = 1 .. Len(refs)
  BY LenProperties
<1>2. \A j \in 1 .. Len(refs) : refs[j] \in Range(refs) /\ refs[j] \in Tags(config.ruleSets)
  BY <1>1 DEF Range
<1>3. \A j \in 1 .. Len(refs) : ruleSets_[refs[j]] \in Seq(BuiltRules)
  BY <1>2, LoadedSet
<1>4. sets \in Seq(Seq(BuiltRules)) /\ Len(sets) = Len(refs)
      /\ \A j \in 1 .. Len(refs) : sets[j] = ruleSets_[refs[j]]
  BY <1>1, <1>3
<1>5. \A tag \in Range(refs) : \E j \in 1 .. Len(refs) : tag = refs[j]
  BY <1>1 DEF Range
<1>6. ASSUME NEW tag \in Range(refs)
      PROVE  Range(ruleSets_[tag]) = {buildRule(r) : r \in Range(Definition(tag).rules)}
  <2> DEFINE list == Definition(tag).rules
  <2>1. ruleSets_[tag] = [i \in DOMAIN list |-> buildRule(list[i])]
    BY LoadedSet
  <2> HIDE DEF list
  <2>2. Range(ruleSets_[tag]) = {buildRule(list[i]) : i \in DOMAIN list}
    BY <2>1 DEF Range
  <2>3. {buildRule(list[i]) : i \in DOMAIN list} = {buildRule(r) : r \in Range(list)}
    BY DEF Range
  <2>. QED
    BY <2>2, <2>3 DEF list
<1> HIDE DEF sets
<1>7. /\ FlattenSeq(sets) \in Seq(BuiltRules)
      /\ Range(FlattenSeq(sets)) = UNION {Range(sets[j]) : j \in 1 .. Len(refs)}
  BY <1>4, FlatRange
<1>8. UNION {Range(sets[j]) : j \in 1 .. Len(refs)}
        = UNION {Range(ruleSets_[tag]) : tag \in Range(refs)}
  <2>1. ASSUME NEW j \in 1 .. Len(refs)
        PROVE  \E tag \in Range(refs) : Range(sets[j]) = Range(ruleSets_[tag])
    BY <1>2, <1>4
  <2>2. ASSUME NEW tag \in Range(refs)
        PROVE  \E j \in 1 .. Len(refs) : Range(sets[j]) = Range(ruleSets_[tag])
    <3>1. PICK j \in 1 .. Len(refs) : tag = refs[j]
      BY <1>5
    <3>2. sets[j] = ruleSets_[tag]
      BY <1>4, <3>1
    <3>. QED
      BY <3>2
  <2> DEFINE A == {Range(sets[j]) : j \in 1 .. Len(refs)}
             B == {Range(ruleSets_[tag]) : tag \in Range(refs)}
  <2>3. A \subseteq B /\ B \subseteq A
    BY <2>1, <2>2
  <2> HIDE DEF A, B
  <2>4. UNION A = UNION B
    BY <2>3
  <2>. QED
    BY <2>4 DEF A, B
<1>9. UNION {Range(ruleSets_[tag]) : tag \in Range(refs)} = {buildRule(r) : r \in rules}
  <2>1. \A x \in UNION {Range(ruleSets_[tag]) : tag \in Range(refs)} :
          \E tag \in Range(refs) : \E r \in Range(Definition(tag).rules) : x = buildRule(r)
    BY <1>6
  <2>2. \A r \in rules : \E tag \in Range(refs) : buildRule(r) \in Range(ruleSets_[tag])
    BY <1>6
  <2>3. \A x \in UNION {Range(ruleSets_[tag]) : tag \in Range(refs)} :
          \E r \in rules : x = buildRule(r)
    BY <2>1
  <2> HIDE DEF rules
  <2>4. \A r \in rules : buildRule(r) \in UNION {Range(ruleSets_[tag]) : tag \in Range(refs)}
    BY <2>2
  <2>. QED
    BY <2>3, <2>4
<1>. QED
  BY <1>7, <1>8, <1>9 DEF sets

(* The rules of an item's rule sets are rules.                             *)
LEMMA ItemRules ==
  ASSUME Loaded, NEW refs \in Seq(STRING),
         Range(refs) \subseteq Tags(config.ruleSets)
  PROVE  \A tag \in Range(refs) : Range(Definition(tag).rules) \subseteq RuleConfig
<1>1. ASSUME NEW tag \in Range(refs) PROVE Range(Definition(tag).rules) \subseteq RuleConfig
  <2> DEFINE list == Definition(tag).rules
  <2>1. list \in Seq(RuleConfig)
    BY LoadedSet
  <2> HIDE DEF list
  <2>2. DOMAIN list = 1 .. Len(list) /\ \A i \in 1 .. Len(list) : list[i] \in RuleConfig
    BY <2>1, ElementOfSeq
  <2>3. Range(list) \subseteq RuleConfig
    BY <2>2 DEF Range
  <2>. QED
    BY <2>3 DEF list
<1>. QED
  BY <1>1

(* The rules of a built route rule are those of the configured one, built. *)
LEMMA RouteRuleRules ==
  ASSUME Loaded, NEW item \in RouteRuleConfig,
         Range(item.rule_set) \subseteq Tags(config.ruleSets)
  PROVE  /\ Range(buildRouteRule(item).rules) = {buildRule(r) : r \in RulesOf(item)}
         /\ RulesOf(item) \subseteq RuleConfig
<1> DEFINE sets == [j \in DOMAIN item.rule_set |-> ruleSets_[item.rule_set[j]]]
           flat == FlattenSeq(sets)
           one == <<buildRule(item.rule)>>
           rules == one \o flat
           others == UNION {Range(Definition(tag).rules) : tag \in Range(item.rule_set)}
<1>1. item.rule \in RuleConfig /\ item.rule_set \in Seq(STRING)
  BY DEF RouteRuleConfig
<1>2. flat \in Seq(BuiltRules) /\ Range(flat) = {buildRule(r) : r \in others}
  BY <1>1, SetsFlattened
<1>3. others \subseteq RuleConfig
  BY <1>1, ItemRules
<1>4. buildRouteRule(item).rules = rules /\ RulesOf(item) = {item.rule} \cup others
  BY DEF buildRouteRule, RulesOf
<1>5. one \in Seq(BuiltRules) /\ Range(one) = {buildRule(item.rule)}
  BY <1>1 DEF BuiltRules, Range
<1> HIDE DEF flat, others, one
<1>6. Range(rules) = Range(one) \cup Range(flat)
  BY <1>2, <1>5, RangeConcatenation
<1>7. Range(rules) = {buildRule(r) : r \in RulesOf(item)}
  BY <1>2, <1>4, <1>5, <1>6
<1>. QED
  BY <1>1, <1>3, <1>4, <1>7

(* A route rule matches a name when one of its configured rules does.      *)
LEMMA RouteRuleHits ==
  ASSUME Loaded, NEW item \in RouteRuleConfig, NEW name \in Names,
         Range(item.rule_set) \subseteq Tags(config.ruleSets)
  PROVE  (\E i \in DOMAIN buildRouteRule(item).rules :
            match(buildRouteRule(item).rules[i], Domain(name)))
         <=> \E rule \in RulesOf(item) : DomainIn(rule, name)
<1> DEFINE rules == buildRouteRule(item).rules
<1>1. Range(rules) = {buildRule(r) : r \in RulesOf(item)} /\ RulesOf(item) \subseteq RuleConfig
  BY RouteRuleRules
<1>2. \A r \in RulesOf(item) : matchDomain(buildRule(r), name) <=> DomainIn(r, name)
  BY <1>1, BuiltRuleMatches
<1>3. \A r : match(r, Domain(name)) <=> matchDomain(r, name)
  BY DEF match, Domain
<1> HIDE DEF rules
<1>4. (\E i \in DOMAIN rules : match(rules[i], Domain(name)))
        <=> \E x \in Range(rules) : matchDomain(x, name)
  BY <1>3 DEF Range
<1>. QED
  BY <1>1, <1>2, <1>4 DEF rules

(* The entries of DnsCenter's list.                                        *)
DnsEntries == [rule : BuiltRules \cup RuleConfig, server : STRING]

(* The entries of a DNS rule all name its server, and one of them matches  *)
(* a name when one of its configured rules does.                           *)
LEMMA DnsRuleHits ==
  ASSUME Loaded, NEW item \in DnsRuleConfig,
         Range(item.rule_set) \subseteq Tags(config.ruleSets)
  PROVE  /\ dnsEntries(item) \in Seq(DnsEntries)
         /\ \A k \in DOMAIN dnsEntries(item) : dnsEntries(item)[k].server = item.server
         /\ \A name \in Names :
              (\E k \in DOMAIN dnsEntries(item) : matchDomain(dnsEntries(item)[k].rule, name))
              <=> \E rule \in RulesOf(item) : DomainIn(rule, name)
<1> DEFINE refs == item.rule_set
           entry(r) == [rule |-> r, server |-> item.server]
           fromSet(tag) == [k \in DOMAIN ruleSets_[tag] |-> entry(ruleSets_[tag][k])]
           sets == [j \in DOMAIN refs |-> fromSet(refs[j])]
           flat == FlattenSeq(sets)
           one == <<entry(item.rule)>>
           all == flat \o one
           others == UNION {Range(Definition(tag).rules) : tag \in Range(refs)}
<1>1. item.rule \in RuleConfig /\ refs \in Seq(STRING) /\ item.server \in STRING
  BY DEF DnsRuleConfig
<1>2. Len(refs) \in Nat /\ DOMAIN refs = 1 .. Len(refs)
      /\ \A j \in 1 .. Len(refs) : refs[j] \in Range(refs)
  BY <1>1, LenProperties DEF Range
<1>3. \A tag \in Range(refs) : \E j \in 1 .. Len(refs) : tag = refs[j]
  BY <1>2 DEF Range
<1>4. others \subseteq RuleConfig
  BY <1>1, ItemRules
<1>5. ASSUME NEW tag \in Range(refs)
      PROVE  /\ fromSet(tag) \in Seq(DnsEntries)
             /\ Range(fromSet(tag)) = {entry(buildRule(r)) : r \in Range(Definition(tag).rules)}
  <2> DEFINE list == Definition(tag).rules
             built == ruleSets_[tag]
  <2>1. built = [i \in DOMAIN list |-> buildRule(list[i])] /\ built \in Seq(BuiltRules)
    BY LoadedSet
  <2>2. Len(built) \in Nat /\ DOMAIN built = 1 .. Len(built)
        /\ \A i \in 1 .. Len(built) : built[i] \in BuiltRules
    BY <2>1, ElementOfSeq, LenProperties
  <2>3. \A r \in BuiltRules : entry(r) \in DnsEntries
    BY <1>1 DEF DnsEntries
  <2> HIDE DEF list, built
  <2>4. DOMAIN built = DOMAIN list /\ \A i \in DOMAIN list : built[i] = buildRule(list[i])
    BY <2>1
  <2>5. fromSet(tag) = [k \in DOMAIN built |-> entry(built[k])]
    BY DEF built
  <2> HIDE DEF entry
  <2>6. [k \in DOMAIN built |-> entry(built[k])] \in Seq(DnsEntries)
    BY <2>2, <2>3
  <2>7. Range([k \in DOMAIN built |-> entry(built[k])])
          = {entry(buildRule(list[i])) : i \in DOMAIN list}
    BY <2>4 DEF Range
  <2>8. {entry(buildRule(list[i])) : i \in DOMAIN list} = {entry(buildRule(r)) : r \in Range(list)}
    BY DEF Range
  <2>. QED
    BY <2>5, <2>6, <2>7, <2>8 DEF list
<1> HIDE DEF fromSet
<1>6. sets \in Seq(Seq(DnsEntries)) /\ Len(sets) = Len(refs)
      /\ \A j \in 1 .. Len(refs) : sets[j] = fromSet(refs[j])
  BY <1>2, <1>5
<1> HIDE DEF sets
<1>7. /\ flat \in Seq(DnsEntries)
      /\ Range(flat) = UNION {Range(sets[j]) : j \in 1 .. Len(refs)}
  BY <1>6, FlatRange
<1>8. Range(flat) = {entry(buildRule(r)) : r \in others}
  <2>1. \A x \in Range(flat) : \E tag \in Range(refs) : x \in Range(fromSet(tag))
    BY <1>2, <1>6, <1>7
  <2>2. \A tag \in Range(refs) : \A x \in Range(fromSet(tag)) : x \in Range(flat)
    BY <1>3, <1>6, <1>7
  <2>3. \A x \in Range(flat) : \E r \in others : x = entry(buildRule(r))
    BY <1>5, <2>1
  <2>4. \A r \in others : entry(buildRule(r)) \in Range(flat)
    BY <1>5, <2>2
  <2>. QED
    BY <2>3, <2>4
<1>9. one \in Seq(DnsEntries) /\ Range(one) = {entry(item.rule)}
  BY <1>1 DEF DnsEntries, Range
<1>10. dnsEntries(item) = all /\ RulesOf(item) = {item.rule} \cup others
  BY DEF dnsEntries, RulesOf, flat, sets, fromSet
<1> HIDE DEF flat, others, one
<1>11. all \in Seq(DnsEntries) /\ Range(all) = Range(flat) \cup Range(one)
  BY <1>7, <1>9, ConcatProperties, RangeConcatenation
<1>12. \A x \in Range(all) : x.server = item.server
  BY <1>8, <1>9, <1>11
<1>13. \A r \in RulesOf(item) : r \in RuleConfig
  BY <1>1, <1>4, <1>10
<1>14. ASSUME NEW name \in Names
       PROVE  (\E x \in Range(all) : matchDomain(x.rule, name))
              <=> \E r \in RulesOf(item) : DomainIn(r, name)
  <2>1. (\E x \in Range(all) : matchDomain(x.rule, name))
        <=> \/ \E r \in others : matchDomain(buildRule(r), name)
            \/ matchDomain(item.rule, name)
    <3>1. \A r : entry(r).rule = r
      OBVIOUS
    <3> HIDE DEF entry
    <3>2. \A x \in Range(all) : (\E r \in others : x = entry(buildRule(r))) \/ x = entry(item.rule)
      BY <1>8, <1>9, <1>11
    <3>3. (\A r \in others : entry(buildRule(r)) \in Range(all)) /\ entry(item.rule) \in Range(all)
      BY <1>8, <1>9, <1>11
    <3>. QED
      BY <3>1, <3>2, <3>3
  <2>2. \A r \in RulesOf(item) : /\ matchDomain(buildRule(r), name) <=> DomainIn(r, name)
                                 /\ matchDomain(r, name) <=> DomainIn(r, name)
    BY <1>13, BuiltRuleMatches
  <2>. QED
    BY <1>10, <2>1, <2>2
<1> HIDE DEF all
<1>15. \A k \in DOMAIN all : all[k] \in Range(all)
  BY DEF Range
<1>16. \A x \in Range(all) : \E k \in DOMAIN all : x = all[k]
  BY DEF Range
<1>. QED
  BY <1>10, <1>11, <1>12, <1>14, <1>15, <1>16

-----------------------------------------------------------------------------
(* The items that match a name, and the answers of NamesRoutedAsConfigured *)
(* and ServersChosenAsConfigured, without operators as parameters.         *)
RouteHits(name) ==
  {i \in DOMAIN config.routeRules :
     \E rule \in RulesOf(config.routeRules[i]) : DomainIn(rule, name)}
RoutedSo(name, tag, is) ==
  /\ tag = IF RouteHits(name) = {} THEN config.final
           ELSE config.routeRules[Min(RouteHits(name))].outbound
  /\ is = IF tag \in Tags(config.outbounds) THEN LastOf(config.outbounds)[tag] ELSE Null

DnsHits(name) ==
  {i \in DOMAIN config.dnsRules : \E rule \in RulesOf(config.dnsRules[i]) : DomainIn(rule, name)}
ServedSo(name, tag, is) ==
  /\ tag = IF DnsHits(name) = {} THEN config.dnsFinal
           ELSE config.dnsRules[Min(DnsHits(name))].server
  /\ is = IF tag \in Tags(config.dnsServers) THEN FirstOf(config.dnsServers)[tag] ELSE Null

(* They are the same.                                                      *)
LEMMA NamesAre ==
  NamesRoutedAsConfigured <=>
    (asked # NoAnswer /\ asked.kind = "domain" => RoutedSo(asked.name, answer.tag, answer.is))
<1>1. (asked # NoAnswer /\ asked.kind = "domain") =>
      (Decides(config.routeRules, LAMBDA rule : DomainIn(rule, asked.name),
               config.final, LAMBDA item : item.outbound)
         <=> answer.tag = IF RouteHits(asked.name) = {} THEN config.final
                          ELSE config.routeRules[Min(RouteHits(asked.name))].outbound)
  BY DEF Decides, RouteHits
<1>2. Object(config.outbounds, answer.tag, Max)
        <=> answer.is = IF answer.tag \in Tags(config.outbounds)
                        THEN LastOf(config.outbounds)[answer.tag] ELSE Null
  <2> DEFINE positions == {i \in DOMAIN config.outbounds : config.outbounds[i].tag = answer.tag}
  <2>1. answer.tag \in Tags(config.outbounds) <=> positions # {}
    BY DEF Tags
  <2>2. answer.tag \in Tags(config.outbounds) => LastOf(config.outbounds)[answer.tag] = Max(positions)
    BY DEF LastOf
  <2>3. Object(config.outbounds, answer.tag, Max)
          <=> answer.is = IF positions = {} THEN Null ELSE Max(positions)
    BY DEF Object
  <2>. QED
    BY <2>1, <2>2, <2>3
<1>. QED
  BY <1>1, <1>2 DEF NamesRoutedAsConfigured, RoutedSo

LEMMA ServersAre ==
  ServersChosenAsConfigured <=>
    (asked # NoAnswer /\ asked.kind = "dns" => ServedSo(asked.name, answer.tag, answer.is))
<1>1. (asked # NoAnswer /\ asked.kind = "dns") =>
      (Decides(config.dnsRules, LAMBDA rule : DomainIn(rule, asked.name),
               config.dnsFinal, LAMBDA item : item.server)
         <=> answer.tag = IF DnsHits(asked.name) = {} THEN config.dnsFinal
                          ELSE config.dnsRules[Min(DnsHits(asked.name))].server)
  BY DEF Decides, DnsHits
<1>2. Object(config.dnsServers, answer.tag, Min)
        <=> answer.is = IF answer.tag \in Tags(config.dnsServers)
                        THEN FirstOf(config.dnsServers)[answer.tag] ELSE Null
  <2> DEFINE positions == {i \in DOMAIN config.dnsServers : config.dnsServers[i].tag = answer.tag}
  <2>1. answer.tag \in Tags(config.dnsServers) <=> positions # {}
    BY DEF Tags
  <2>2. answer.tag \in Tags(config.dnsServers) => FirstOf(config.dnsServers)[answer.tag] = Min(positions)
    BY DEF FirstOf
  <2>3. Object(config.dnsServers, answer.tag, Min)
          <=> answer.is = IF positions = {} THEN Null ELSE Min(positions)
    BY DEF Object
  <2>. QED
    BY <2>1, <2>2, <2>3
<1>. QED
  BY <1>1, <1>2 DEF ServersChosenAsConfigured, ServedSo

LEMMA OutboundOf == ASSUME NEW item PROVE buildRouteRule(item).outbound = item.outbound
BY DEF buildRouteRule

(* Router::match chooses what the configuration says.                      *)
LEMMA RouteAgrees ==
  ASSUME Loaded, NEW name \in Names,
         Referenced(config.routeRules) \subseteq Tags(config.ruleSets),
         rules_ = [i \in DOMAIN config.routeRules |-> buildRouteRule(config.routeRules[i])]
  PROVE  routerMatch(Domain(name)) =
           IF RouteHits(name) = {} THEN config.final
           ELSE config.routeRules[Min(RouteHits(name))].outbound
<1> DEFINE items == config.routeRules
           Hits == {i \in 1 .. Len(rules_) :
                      \E k \in DOMAIN rules_[i].rules : match(rules_[i].rules[k], Domain(name))}
<1>1. items \in Seq(RouteRuleConfig)
  BY ConfigsAssumption DEF Loaded
<1>2. Len(items) \in Nat /\ DOMAIN items = 1 .. Len(items)
      /\ \A i \in 1 .. Len(items) : items[i] \in RouteRuleConfig
  BY <1>1, ElementOfSeq, LenProperties
<1>3. \A i \in 1 .. Len(items) : Range(items[i].rule_set) \subseteq Tags(config.ruleSets)
  BY <1>2 DEF Referenced
<1>4. Len(rules_) = Len(items) /\ \A i \in 1 .. Len(items) : rules_[i] = buildRouteRule(items[i])
  BY <1>2
<1>5. \A i \in 1 .. Len(items) :
        (\E k \in DOMAIN rules_[i].rules : match(rules_[i].rules[k], Domain(name)))
        <=> \E rule \in RulesOf(items[i]) : DomainIn(rule, name)
  BY <1>2, <1>3, <1>4, RouteRuleHits
<1>6. Hits = RouteHits(name)
  BY <1>2, <1>4, <1>5 DEF RouteHits
<1>7. routerMatch(Domain(name)) =
        LET first == IF Hits # {} THEN Min(Hits) ELSE 0
        IN  IF first = 0 THEN config.final ELSE rules_[first].outbound
  BY DEF routerMatch, SelectInSeq
<1>8. \A i \in 1 .. Len(items) : rules_[i].outbound = items[i].outbound
  BY <1>4, OutboundOf, Zenon
<1>9. Hits # {} => Min(Hits) \in 1 .. Len(items)
  <2>1. Hits \subseteq 1 .. Len(rules_)
    OBVIOUS
  <2> HIDE DEF Hits, items
  <2>2. Hits \in SUBSET Nat /\ Hits \subseteq 1 .. Len(items)
    BY <1>2, <1>4, <2>1
  <2>. QED
    BY <2>2, MinIsMember
<1> HIDE DEF Hits
<1> DEFINE first == IF Hits # {} THEN Min(Hits) ELSE 0
<1>11. routerMatch(Domain(name)) = IF first = 0 THEN config.final ELSE rules_[first].outbound
  BY <1>7
<1>12. CASE Hits = {}
  <2>1. first = 0
    BY <1>12
  <2>. QED
    BY <1>6, <1>11, <1>12, <2>1
<1>13. CASE Hits # {}
  <2>1. first = Min(Hits) /\ first \in 1 .. Len(items) /\ rules_[first].outbound = items[first].outbound
    BY <1>8, <1>9, <1>13
  <2>2. first # 0
    BY <1>2, <2>1
  <2> HIDE DEF first
  <2>. QED
    BY <1>6, <1>11, <1>13, <2>1, <2>2
<1>. QED
  BY <1>12, <1>13

(* DnsCenter::match_ does too: the entries of a rule are next to each      *)
(* other, in the order of the rules.                                       *)
LEMMA ServerAgrees ==
  ASSUME Loaded, NEW name \in Names,
         Referenced(config.dnsRules) \subseteq Tags(config.ruleSets),
         dnsRules_ = dnsRules
  PROVE  match_(name) =
           IF DnsHits(name) = {} THEN config.dnsFinal
           ELSE config.dnsRules[Min(DnsHits(name))].server
<1> DEFINE items == config.dnsRules
           n == Len(items)
           list(i) == dnsEntries(items[i])
           entries == [i \in DOMAIN items |-> list(i)]
           flat == FlattenSeq(entries)
           N == Len(flat)
           Hit(e) == matchDomain(e.rule, name)
           Found == {k \in 1 .. N : Hit(flat[k])}
           hits == DnsHits(name)
<1>1. items \in Seq(DnsRuleConfig)
  BY ConfigsAssumption DEF Loaded
<1>2. n \in Nat /\ DOMAIN items = 1 .. n
      /\ \A i \in 1 .. n : items[i] \in DnsRuleConfig
  BY <1>1, ElementOfSeq, LenProperties
<1>3. \A i \in 1 .. n : Range(items[i].rule_set) \subseteq Tags(config.ruleSets)
  BY <1>2 DEF Referenced
<1>4. ASSUME NEW i \in 1 .. n
      PROVE  /\ entries[i] \in Seq(DnsEntries)
             /\ DOMAIN entries[i] = 1 .. Len(entries[i])
             /\ \A m \in 1 .. Len(entries[i]) : entries[i][m].server = items[i].server
             /\ (\E m \in 1 .. Len(entries[i]) : Hit(entries[i][m])) <=> i \in hits
  <2> DEFINE e == dnsEntries(items[i])
  <2>1. /\ e \in Seq(DnsEntries)
        /\ \A k \in DOMAIN e : e[k].server = items[i].server
        /\ (\E k \in DOMAIN e : Hit(e[k])) <=> \E rule \in RulesOf(items[i]) : DomainIn(rule, name)
    BY <1>2, <1>3, DnsRuleHits
  <2>2. entries[i] = e
    BY <1>2
  <2> HIDE DEF e
  <2>3. DOMAIN e = 1 .. Len(e)
    BY <2>1, LenProperties
  <2>4. i \in hits <=> \E rule \in RulesOf(items[i]) : DomainIn(rule, name)
    BY <1>2 DEF DnsHits
  <2> HIDE DEF entries, hits
  <2>. QED
    BY <2>1, <2>2, <2>3, <2>4
<1>5. entries \in Seq(Seq(DnsEntries)) /\ Len(entries) = n
  <2>1. \A i \in 1 .. n : list(i) \in Seq(DnsEntries)
    BY <1>2, <1>4
  <2> HIDE DEF list
  <2>. QED
    BY <1>2, <2>1
<1>6. flat = dnsRules_
  BY DEF dnsRules
<1>7. match_(name) =
        LET first == IF Found # {} THEN Min(Found) ELSE 0
        IN  IF first = 0 THEN config.dnsFinal ELSE flat[first].server
  BY <1>6 DEF match_, SelectInSeq
<1>8. hits \subseteq 1 .. n
  BY <1>2 DEF DnsHits
<1> HIDE DEF entries, hits, items
<1>9. PICK p : Places(p, entries)
  BY <1>5, FlattenPlaces
<1>10. /\ p \in [1 .. N -> 1 .. n]
       /\ \A k \in 1 .. N : \E m \in 1 .. Len(entries[p[k]]) : flat[k] = entries[p[k]][m]
       /\ \A k, l \in 1 .. N : k <= l => p[k] <= p[l]
       /\ \A i \in 1 .. n : \A m \in 1 .. Len(entries[i]) :
            \E k \in 1 .. N : p[k] = i /\ flat[k] = entries[i][m]
  BY <1>5, <1>9 DEF Places
<1> HIDE DEF flat, n
<1>11. ASSUME NEW k \in Found PROVE p[k] \in hits /\ flat[k].server = items[p[k]].server
  <2>1. p[k] \in 1 .. n
    BY <1>10
  <2>2. PICK m \in 1 .. Len(entries[p[k]]) : flat[k] = entries[p[k]][m]
    BY <1>10
  <2>3. Hit(entries[p[k]][m])
    BY <2>2
  <2>. QED
    BY <1>4, <2>1, <2>2, <2>3
<1>12. ASSUME NEW i \in hits PROVE \E k \in Found : p[k] = i
  <2>1. i \in 1 .. n
    BY <1>8
  <2>2. PICK m \in 1 .. Len(entries[i]) : Hit(entries[i][m])
    BY <1>4, <2>1
  <2>3. PICK k \in 1 .. N : p[k] = i /\ flat[k] = entries[i][m]
    BY <1>10, <2>1
  <2>. QED
    BY <2>2, <2>3
<1>13. CASE Found = {}
  <2> HIDE DEF Found
  <2>1. hits = {}
    BY <1>12, <1>13
  <2>. QED
    BY <1>7, <1>13, <2>1 DEF hits
<1>14. CASE Found # {}
  <2> DEFINE first == Min(Found)
  <2>1. Found \in SUBSET Nat
    OBVIOUS
  <2>2. first \in Found /\ \A k \in Found : first <= k
    <3> HIDE DEF Found
    <3>. QED
      BY <1>14, <2>1, MinIsMember
  <2>3. p[first] \in hits /\ flat[first].server = items[p[first]].server
    BY <1>11, <2>2
  <2>4. first \in 1 .. N /\ first # 0 /\ \A k \in Found : k \in 1 .. N
    BY <2>2
  <2> HIDE DEF first, Found
  <2>5. \A i \in hits : p[first] <= i
    BY <1>10, <1>12, <2>2, <2>4
  <2>6. hits \in SUBSET Nat
    BY <1>8
  <2>7. Min(hits) = p[first]
    BY <2>3, <2>5, <2>6, MinIs
  <2>. QED
    BY <1>7, <1>14, <2>3, <2>4, <2>7 DEF first, items, hits
<1>. QED
  BY <1>13, <1>14

-----------------------------------------------------------------------------
(* What was built, exactly.                                                *)
RuleSetsBuilt ==
  phase \in {"dns", "router", "outbounds", "inbounds", "running"} =>
    ruleSets_ = ruleSets(config.ruleSets)
DnsBuilt ==
  phase \in {"router", "outbounds", "inbounds", "running"} =>
    dnsRules_ = dnsRules /\ servers_ = FirstOf(config.dnsServers)
RouterBuilt ==
  phase \in {"outbounds", "inbounds", "running"} =>
    rules_ = [i \in DOMAIN config.routeRules |-> buildRouteRule(config.routeRules[i])]
OutboundsBuilt ==
  phase \in {"inbounds", "running"} =>
    /\ Tags(config.outbounds) \subseteq DOMAIN outbounds
    /\ \A t \in DOMAIN outbounds :
         outbounds[t] = IF t \in Tags(config.outbounds) THEN LastOf(config.outbounds)[t] ELSE Null

Built == RuleSetsBuilt /\ DnsBuilt /\ RouterBuilt /\ OutboundsBuilt
Answered == NamesRoutedAsConfigured /\ ServersChosenAsConfigured

LEMMA InitBuilt == Init => Built /\ Answered
BY DEF Init, Built, RuleSetsBuilt, DnsBuilt, RouterBuilt, OutboundsBuilt, Answered,
       NamesRoutedAsConfigured, ServersChosenAsConfigured

(* What is built depends on the document and the rule sets only.           *)
LEMMA SameDocument ==
  ASSUME UNCHANGED <<config, ruleSets_>>
  PROVE  /\ dnsRules' = dnsRules
         /\ ruleSets(config.ruleSets)' = ruleSets(config.ruleSets)
         /\ \A item : buildRouteRule(item)' = buildRouteRule(item)
BY DEF dnsRules, dnsEntries, buildRouteRule

LEMMA NextBuilt == IInv /\ Built /\ [Next]_vars => Built'
<1> SUFFICES ASSUME IInv, Built, [Next]_vars PROVE Built'
  OBVIOUS
<1> USE DEF Built
<1>0. UNCHANGED ruleSets_ \/ loadRuleSets
  BY DEF Next, vars, paresAppConfig, buildDnsCenter, buildRouter, buildOutbounds, buildInbounds,
         Route, ChooseServer
<1>1. CASE paresAppConfig
  BY <1>1 DEF paresAppConfig, Step, RuleSetsBuilt, DnsBuilt, RouterBuilt, OutboundsBuilt
<1>2. CASE loadRuleSets
  BY <1>2 DEF loadRuleSets, Step, RuleSetsBuilt, DnsBuilt, RouterBuilt, OutboundsBuilt
<1>3. CASE buildDnsCenter
  <2>1. UNCHANGED <<config, ruleSets_>> /\ phase = "dns" /\ phase' \in {"router", "failed"}
    BY <1>3 DEF buildDnsCenter, Step
  <2>2. RuleSetsBuilt'
    BY <2>1, SameDocument DEF RuleSetsBuilt
  <2>3. DnsBuilt'
    BY <1>3, <2>1, SameDocument DEF buildDnsCenter, Step, DnsBuilt
  <2>. QED
    BY <2>1, <2>2, <2>3 DEF RouterBuilt, OutboundsBuilt
<1>4. CASE buildRouter
  <2>1. UNCHANGED <<config, ruleSets_, servers_, dnsRules_>>
        /\ phase = "router" /\ phase' \in {"outbounds", "failed"}
    BY <1>4 DEF buildRouter, Step
  <2>2. RuleSetsBuilt' /\ DnsBuilt'
    BY <2>1, SameDocument DEF RuleSetsBuilt, DnsBuilt
  <2>3. RouterBuilt'
    BY <1>4, <2>1, SameDocument DEF buildRouter, Step, RouterBuilt
  <2>. QED
    BY <2>1, <2>2, <2>3 DEF OutboundsBuilt
<1>5. CASE buildOutbounds
  <2>1. UNCHANGED <<config, ruleSets_, servers_, dnsRules_, rules_>>
        /\ phase = "outbounds" /\ phase' \in {"inbounds", "failed"}
        /\ outbounds' = LastOf(config.outbounds)
    BY <1>5 DEF buildOutbounds, Step
  <2>2. RuleSetsBuilt' /\ DnsBuilt' /\ RouterBuilt'
    BY <2>1, SameDocument DEF RuleSetsBuilt, DnsBuilt, RouterBuilt
  <2>3. DOMAIN LastOf(config.outbounds) = Tags(config.outbounds)
    BY DEF LastOf
  <2>4. OutboundsBuilt'
    BY <2>1, <2>3 DEF OutboundsBuilt
  <2>. QED
    BY <2>2, <2>4
<1>6. CASE buildInbounds \/ \E addr \in Addresses : ChooseServer(addr)
  <2>1. UNCHANGED <<config, ruleSets_, servers_, dnsRules_, rules_, outbounds>>
        /\ (phase' = phase \/ (phase = "inbounds" /\ phase' \in {"running", "failed"}))
    BY <1>6 DEF buildInbounds, Step, ChooseServer
  <2>. QED
    BY <2>1, SameDocument DEF RuleSetsBuilt, DnsBuilt, RouterBuilt, OutboundsBuilt
<1>7. ASSUME NEW addr \in Addresses, Route(addr) PROVE Built'
  <2> DEFINE tag == routerMatch(addr)
  <2>1. UNCHANGED <<config, ruleSets_, servers_, dnsRules_, rules_>>
        /\ phase = "running" /\ phase' \in {"running", "crashed"} /\ takeOutbound(tag)
    BY <1>7 DEF Route
  <2> HIDE DEF tag
  <2>2. RuleSetsBuilt' /\ DnsBuilt' /\ RouterBuilt'
    BY <2>1, SameDocument DEF RuleSetsBuilt, DnsBuilt, RouterBuilt
  <2>3. OutboundsBuilt'
    BY <2>1 DEF OutboundsBuilt, takeOutbound
  <2>. QED
    BY <2>2, <2>3
<1>8. CASE UNCHANGED vars
  BY <1>8, SameDocument DEF vars, RuleSetsBuilt, DnsBuilt, RouterBuilt, OutboundsBuilt
<1>. QED
  BY <1>1, <1>2, <1>3, <1>4, <1>5, <1>6, <1>7, <1>8 DEF Next

(* No step changes the document.                                           *)
LEMMA DocumentStays == [Next]_vars => UNCHANGED config
BY DEF Next, vars, paresAppConfig, loadRuleSets, buildDnsCenter, buildRouter, buildOutbounds,
       buildInbounds, Route, ChooseServer

(* With the document, what a right answer is stays the same.               *)
LEMMA SameQuestion ==
  ASSUME UNCHANGED config
  PROVE  \A name, tag, is : /\ RoutedSo(name, tag, is)' = RoutedSo(name, tag, is)
                            /\ ServedSo(name, tag, is)' = ServedSo(name, tag, is)
BY DEF RoutedSo, ServedSo, RouteHits, DnsHits, RulesOf, Definition

LEMMA AnsweredIs ==
  /\ NamesRoutedAsConfigured' <=>
       (asked' # NoAnswer /\ asked'.kind = "domain"
          => RoutedSo(asked.name, answer.tag, answer.is)')
  /\ ServersChosenAsConfigured' <=>
       (asked' # NoAnswer /\ asked'.kind = "dns"
          => ServedSo(asked.name, answer.tag, answer.is)')
<1>1. (NamesRoutedAsConfigured <=>
         (asked # NoAnswer /\ asked.kind = "domain" => RoutedSo(asked.name, answer.tag, answer.is)))'
  BY NamesAre, PTL
<1>2. (ServersChosenAsConfigured <=>
         (asked # NoAnswer /\ asked.kind = "dns" => ServedSo(asked.name, answer.tag, answer.is)))'
  BY ServersAre, PTL
<1>. QED
  BY <1>1, <1>2

LEMMA NextAnswered == IInv /\ Built /\ Answered /\ [Next]_vars => Answered'
<1> SUFFICES ASSUME IInv, Built, Answered, [Next]_vars PROVE Answered'
  OBVIOUS
<1>0. UNCHANGED config
  BY DocumentStays
<1>1. ASSUME phase = "running"
      PROVE  /\ Loaded
             /\ Referenced(config.routeRules) \subseteq Tags(config.ruleSets)
             /\ Referenced(config.dnsRules) \subseteq Tags(config.ruleSets)
             /\ rules_ = [i \in DOMAIN config.routeRules |-> buildRouteRule(config.routeRules[i])]
             /\ dnsRules_ = dnsRules
             /\ servers_ = FirstOf(config.dnsServers)
             /\ OutboundsBuilt
  BY <1>1 DEF IInv, Built, Loaded, RuleSetsLoaded, DnsComplete, RoutesBuilt, RouteRulesBuild,
              RuleSetsBuilt, DnsBuilt, RouterBuilt
<1>2. CASE UNCHANGED <<asked, answer>>
  BY <1>0, <1>2, NamesAre, ServersAre, AnsweredIs, SameQuestion DEF Answered
<1>3. ASSUME NEW addr \in Addresses, Route(addr) PROVE Answered'
  <2> DEFINE tag == routerMatch(addr)
             is == IF tag \in DOMAIN outbounds THEN outbounds[tag] ELSE Null
  <2>1. phase = "running" /\ asked' = addr /\ answer'.tag = tag /\ answer'.is = is
    BY <1>3 DEF Route
  <2>2. addr.kind \in {"domain", "v4", "v6"}
        /\ (addr.kind = "domain" => addr = Domain(addr.name) /\ addr.name \in Names)
    BY AddressesAssumption
  <2>3. addr.kind = "domain" => RoutedSo(addr.name, tag, is)
    BY <1>1, <2>1, <2>2, RouteAgrees DEF RoutedSo, OutboundsBuilt
  <2> HIDE DEF tag, is
  <2>4. NamesRoutedAsConfigured'
    BY <1>0, <2>1, <2>3, AnsweredIs, SameQuestion
  <2>5. ServersChosenAsConfigured'
    BY <2>1, <2>2 DEF ServersChosenAsConfigured
  <2>. QED
    BY <2>4, <2>5 DEF Answered
<1>4. ASSUME NEW addr \in Addresses, ChooseServer(addr) PROVE Answered'
  <2> DEFINE tag == match_(addr.name)
             is == IF tag \in DOMAIN servers_ THEN servers_[tag] ELSE Null
  <2>1. /\ phase = "running" /\ addr.kind = "domain" /\ asked' = [addr EXCEPT !.kind = "dns"]
        /\ answer'.tag = tag /\ answer'.is = is
    BY <1>4 DEF ChooseServer
  <2>2. addr = Domain(addr.name) /\ addr.name \in Names
    BY <2>1, AddressesAssumption
  <2>3. asked'.kind = "dns" /\ asked'.name = addr.name
    BY <2>1, <2>2 DEF Domain
  <2>4. ServedSo(addr.name, tag, is)
    <3>1. DOMAIN servers_ = Tags(config.dnsServers)
      BY <1>1, <2>1 DEF FirstOf
    <3>. QED
      BY <1>1, <2>1, <2>2, <3>1, ServerAgrees DEF ServedSo
  <2> HIDE DEF tag, is
  <2>5. ServersChosenAsConfigured'
    BY <1>0, <2>1, <2>3, <2>4, AnsweredIs, SameQuestion
  <2>6. NamesRoutedAsConfigured'
    BY <2>3 DEF NamesRoutedAsConfigured
  <2>. QED
    BY <2>5, <2>6 DEF Answered
<1>. QED
  BY <1>2, <1>3, <1>4 DEF Next, vars, paresAppConfig, loadRuleSets, buildDnsCenter, buildRouter,
                          buildOutbounds, buildInbounds

LEMMA AlwaysAnswered == Spec => [](IInv /\ Built /\ Answered)
BY InitIInv, InitBuilt, NextIInv, NextBuilt, NextAnswered, PTL DEF Spec

(* A session for a name goes where the document says, for any document:    *)
(* neither the flattening of rule sets, nor duplicate tags, nor the        *)
(* character arithmetic of matchDomain change the outbound that            *)
(* App::handleSession_ takes.                                              *)
THEOREM NamesRouted == Spec => []NamesRoutedAsConfigured
BY AlwaysAnswered, PTL DEF Answered

(* A name is resolved by the server the document says, for any document:   *)
(* the entries buildDnsCenter makes of a rule stay together, and in the    *)
(* order of the rules.                                                     *)
THEOREM ServersChosen == Spec => []ServersChosenAsConfigured
BY AlwaysAnswered, PTL DEF Answered

-----------------------------------------------------------------------------
(* The outbounds a session can be sent to: those the rules name, and the   *)
(* final one.                                                              *)
RoutedTags ==
  {config.final} \cup {config.routeRules[i].outbound : i \in DOMAIN config.routeRules}

(* Router::match answers with one of them, whatever the address.           *)
LEMMA RoutedTag ==
  ASSUME config \in Configs, NEW addr,
         rules_ = [i \in DOMAIN config.routeRules |-> buildRouteRule(config.routeRules[i])]
  PROVE  routerMatch(addr) \in RoutedTags
<1> DEFINE items == config.routeRules
           Hits == {i \in 1 .. Len(rules_) :
                      \E k \in DOMAIN rules_[i].rules : match(rules_[i].rules[k], addr)}
<1>1. items \in Seq(RouteRuleConfig)
  BY ConfigsAssumption
<1>2. Len(items) \in Nat /\ DOMAIN items = 1 .. Len(items)
  BY <1>1, LenProperties
<1>3. Len(rules_) = Len(items) /\ \A i \in 1 .. Len(items) : rules_[i] = buildRouteRule(items[i])
  BY <1>2
<1>4. \A i \in 1 .. Len(items) : rules_[i].outbound = items[i].outbound
  BY <1>3, OutboundOf, Zenon
<1>5. routerMatch(addr) = LET first == IF Hits # {} THEN Min(Hits) ELSE 0
                          IN  IF first = 0 THEN config.final ELSE rules_[first].outbound
  BY DEF routerMatch, SelectInSeq
<1>6. Hits # {} => Min(Hits) \in 1 .. Len(items)
  <2>1. Hits \subseteq 1 .. Len(rules_)
    OBVIOUS
  <2> HIDE DEF Hits, items
  <2>2. Hits \in SUBSET Nat /\ Hits \subseteq 1 .. Len(items)
    BY <1>2, <1>3, <2>1
  <2>. QED
    BY <2>2, MinIsMember
<1> HIDE DEF Hits
<1>. QED
  BY <1>2, <1>4, <1>5, <1>6 DEF RoutedTags

(* A defined outbound is in its place of the document, and no place is 0.  *)
LEMMA PlaceIsNotNull ==
  ASSUME config \in Configs, NEW tag \in Tags(config.outbounds)
  PROVE  LastOf(config.outbounds)[tag] # Null
<1> DEFINE S == {i \in DOMAIN config.outbounds : config.outbounds[i].tag = tag}
<1>1. PICK n \in Nat : DOMAIN config.outbounds = 1 .. n
  BY ConfigsAssumption
<1>2. S \subseteq 1 .. n /\ S # {}
  BY <1>1 DEF Tags
<1>3. Max(S) \in 1 .. n
  BY <1>2, MaxIsMember
<1>4. LastOf(config.outbounds)[tag] = Max(S)
  BY DEF LastOf
<1>. QED
  BY <1>3, <1>4 DEF Null

LEMMA NextNeverCrashes ==
  IInv /\ Built /\ DefinedTagsNeverCrash /\ [Next]_vars => DefinedTagsNeverCrash'
<1> SUFFICES ASSUME IInv, Built, DefinedTagsNeverCrash, [Next]_vars,
                    RoutedTags \subseteq Tags(config.outbounds)
             PROVE  phase' # "crashed"
  <2>1. [Next]_vars => UNCHANGED config
    BY DocumentStays
  <2>. QED
    BY <2>1 DEF DefinedTagsNeverCrash, RoutedTags
<1>1. phase # "crashed"
  BY DEF DefinedTagsNeverCrash, RoutedTags
<1>2. ASSUME NEW addr \in Addresses, Route(addr) PROVE phase' # "crashed"
  <2> DEFINE tag == routerMatch(addr)
  <2>1. /\ phase = "running"
        /\ tag \in DOMAIN outbounds /\ outbounds[tag] # Null => phase' = "running"
    BY <1>2 DEF Route
  <2>2. tag \in Tags(config.outbounds)
    BY <2>1, RoutedTag DEF IInv, Built, RouterBuilt
  <2> HIDE DEF tag
  <2>3. tag \in DOMAIN outbounds /\ outbounds[tag] = LastOf(config.outbounds)[tag]
    BY <2>1, <2>2 DEF Built, OutboundsBuilt
  <2>4. outbounds[tag] # Null
    BY <2>2, <2>3, PlaceIsNotNull DEF IInv
  <2>. QED
    BY <2>1, <2>3, <2>4
<1>. QED
  BY <1>1, <1>2 DEF Next, vars, Step, paresAppConfig, loadRuleSets, buildDnsCenter, buildRouter,
                    buildOutbounds, buildInbounds, ChooseServer

(* A document that defines the outbounds its rules name and its final one  *)
(* never makes App::handleSession_ dereference a null outbound, whatever   *)
(* sessions are routed.                                                    *)
THEOREM NeverCrashes == Spec => []DefinedTagsNeverCrash
<1>1. Init => DefinedTagsNeverCrash
  BY DEF Init, DefinedTagsNeverCrash
<1>. QED
  BY <1>1, AlwaysAnswered, NextNeverCrashes, PTL DEF Spec

-----------------------------------------------------------------------------
(* A prefix within the bytes of an address touches no more than these.     *)
LEMMA BytesTouched ==
  ASSUME NEW w \in Nat \ {0}, NEW n \in Nat, NEW p \in Nat, p <= n * w
  PROVE  p \div w <= n /\ (p % w # 0 => p \div w < n)
<1> DEFINE q == p \div w
           r == p % w
<1>1. q \in Nat /\ r \in 0 .. w - 1 /\ p = w * q + r
  OBVIOUS
<1> HIDE DEF q, r
<1>2. ASSUME q >= n + 1 PROVE FALSE
  <2>1. w * q >= w * (n + 1)
    BY <1>1, <1>2
  <2>2. w * (n + 1) = n * w + w
    OBVIOUS
  <2>. QED
    BY <1>1, <2>1, <2>2
<1>3. ASSUME r # 0, q = n PROVE FALSE
  BY <1>1, <1>3
<1>. QED
  BY <1>1, <1>2, <1>3 DEF q, r

LEMMA ParsedInside ==
  ASSUME NEW item \in CidrConfig, CidrParses(item)
  PROVE  Inside(parseCidr(item))
<1> DEFINE n == parseCidr(item)
           kind == item.network.kind
<1>1. V4Bits \in Nat /\ V6Bytes \in Nat /\ ByteBits \in Nat \ {0} /\ V6Bytes * ByteBits \in Nat
  BY WidthAssumption
<1>2. kind \in {"v4", "v6"} /\ item.prefix \in Nat \cup {NoPrefix} /\ item.prefix <= Width(kind)
  BY DEF CidrConfig, CidrParses
<1>3. Width(kind) \in Nat
  BY <1>1 DEF Width
<1>4. n.network.kind = kind /\ n.prefix = IF item.prefix = NoPrefix THEN Width(kind) ELSE item.prefix
  BY DEF parseCidr, CidrConfig
<1>5. n.prefix \in Nat /\ n.prefix <= Width(kind)
  BY <1>2, <1>3, <1>4
<1> HIDE DEF n, kind
<1>6. CASE kind = "v4"
  <2>1. Width(kind) = V4Bits
    BY <1>6 DEF Width
  <2>2. n.prefix # 0 => V4Bits - n.prefix \in 0 .. V4Bits - 1
    BY <1>1, <1>5, <2>1
  <2>. QED
    BY <1>4, <1>6, <2>2 DEF Inside, n
<1>7. CASE kind # "v4"
  <2>1. Width(kind) = V6Bytes * ByteBits
    BY <1>7 DEF Width
  <2>2. n.prefix \div ByteBits <= V6Bytes
        /\ (n.prefix % ByteBits # 0 => n.prefix \div ByteBits < V6Bytes)
    BY <1>1, <1>5, <2>1, BytesTouched
  <2>. QED
    BY <1>4, <1>7, <2>2 DEF Inside, n
<1>. QED
  BY <1>6, <1>7

LEMMA BuiltInside ==
  ASSUME NEW rule \in RuleConfig, RuleParses(rule), NEW n \in buildRule(rule).cidr
  PROVE  Inside(n)
<1>1. rule.cidr \subseteq CidrConfig /\ buildRule(rule).cidr = {parseCidr(item) : item \in rule.cidr}
  BY DEF RuleConfig, CidrConfig, buildRule
<1>2. PICK item \in rule.cidr : n = parseCidr(item)
  BY <1>1
<1>. QED
  BY <1>1, <1>2, ParsedInside DEF RuleParses

(* When the Router is built, its own networks and those of its rule sets   *)
(* have parsed.                                                            *)
LEMMA RouterInside ==
  ASSUME Loaded, \A item \in Range(config.ruleSets) : RuleSetLoads(item),
         DOMAIN ruleSets_ = Tags(config.ruleSets), RouteRulesBuild,
         NEW i \in DOMAIN config.routeRules,
         NEW rule \in Range(buildRouteRule(config.routeRules[i]).rules), NEW n \in rule.cidr
  PROVE  Inside(n)
<1> DEFINE item == config.routeRules[i]
<1>1. item \in RouteRuleConfig
  <2>1. config.routeRules \in Seq(RouteRuleConfig)
    BY ConfigsAssumption DEF Loaded
  <2>. QED
    BY <2>1, ElementOfSeq, LenProperties
<1>2. Range(item.rule_set) \subseteq Tags(config.ruleSets)
  BY DEF RouteRulesBuild, Referenced
<1>3. PICK r \in RulesOf(item) : rule = buildRule(r) /\ r \in RuleConfig
  BY <1>1, <1>2, RouteRuleRules
<1>4. RuleParses(r)
  <2>1. CASE r = item.rule
    BY <2>1 DEF RouteRulesBuild
  <2>2. ASSUME NEW tag \in Range(item.rule_set), r \in Range(Definition(tag).rules)
        PROVE  RuleParses(r)
    BY <1>2, <2>2, DefinitionsLoad DEF Loaded
  <2>. QED
    BY <2>1, <2>2 DEF RulesOf
<1>. QED
  BY <1>3, <1>4, BuiltInside

LEMMA NextInside ==
  IInv /\ Built /\ ContainsStaysInside /\ [Next]_vars => ContainsStaysInside'
<1> SUFFICES ASSUME IInv, Built, ContainsStaysInside, [Next]_vars PROVE ContainsStaysInside'
  OBVIOUS
<1>1. CASE UNCHANGED rules_
  BY <1>1 DEF ContainsStaysInside
<1>2. CASE buildRouter
  <2>1. CASE RouteRulesBuild
    <3>1. rules_' = [i \in DOMAIN config.routeRules |-> buildRouteRule(config.routeRules[i])]
      BY <1>2, <2>1 DEF buildRouter
    <3>2. /\ Loaded /\ DOMAIN ruleSets_ = Tags(config.ruleSets)
          /\ \A item \in Range(config.ruleSets) : RuleSetLoads(item)
      BY <1>2 DEF buildRouter, Step, IInv, RuleSetsLoaded, Built, RuleSetsBuilt, Loaded
    <3>3. \A i \in DOMAIN config.routeRules :
            \A rule \in Range(buildRouteRule(config.routeRules[i]).rules) :
              \A n \in rule.cidr : Inside(n)
      BY <2>1, <3>2, RouterInside
    <3>. QED
      BY <3>1, <3>3 DEF ContainsStaysInside
  <2>2. CASE ~RouteRulesBuild
    <3>1. rules_' = <<>>
      BY <1>2, <2>2 DEF buildRouter
    <3>. QED
      BY <3>1 DEF ContainsStaysInside
  <2>. QED
    BY <2>1, <2>2
<1>. QED
  BY <1>1, <1>2 DEF Next, vars, paresAppConfig, loadRuleSets, buildDnsCenter, buildOutbounds,
                    buildInbounds, Route, ChooseServer

(* Of any document that parseCidr lets pass, IpNetwork::contains reads the *)
(* bytes of an address only, in the rules of every rule set as well.       *)
THEOREM ReadsInside == Spec => []ContainsStaysInside
<1>1. Init => ContainsStaysInside
  BY DEF Init, ContainsStaysInside
<1>. QED
  BY <1>1, AlwaysAnswered, NextInside, PTL DEF Spec
=============================================================================
