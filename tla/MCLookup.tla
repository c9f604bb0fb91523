------------------------------ MODULE MCLookup ------------------------------
(***************************************************************************)
(* Instances of Lookup for TLC: names at the limits of a label and of a    *)
(* name, queries cut anywhere, answers with aliases, pointers and records  *)
(* of other kinds, cut at every length.                                    *)
(***************************************************************************)
EXTENDS Lookup

Letter(n) == [i \in 1 .. n |-> 97]
Ab == <<Letter(1), Letter(2)>>

Asked(domain, valid, labels) ==
  [caller |-> "resolve", domain |-> domain, data |-> <<>>, valid |-> valid, labels |-> labels]
Valid(domain, labels) == Asked(domain, TRUE, labels)
Invalid(domain, labels) == Asked(domain, FALSE, labels)
Long(n) == <<Letter(63), Letter(63), Letter(63), Letter(n)>>
TooLong == <<Letter(63), Letter(63), Letter(63), Letter(62), Letter(1)>>
Resolves ==
  { Valid(Dotted(Ab), Ab), Valid(Dotted(Ab) \o <<Dot>>, Ab), Valid(Dotted(Ab) \o <<Dot, Dot>>, Ab),
    Valid(Letter(63), <<Letter(63)>>), Valid(Letter(63) \o <<Dot>>, <<Letter(63)>>),
    Valid(Dotted(Long(63)), Long(63)),
    Invalid(<<>>, <<>>), Invalid(<<Dot>>, <<>>), Invalid(<<Dot, Dot>>, <<>>),
    Invalid(<<97, Dot, Dot, 97>>, <<<<97>>, <<>>, <<97>>>>), Invalid(<<Dot, 97>>, <<<<>>, <<97>>>>),
    Invalid(<<97, Dot, Dot, Dot>>, <<<<97>>, <<>>>>),
    Invalid(Letter(64), <<Letter(64)>>),
    Invalid(<<97, Dot>> \o Letter(64) \o <<Dot>>, <<<<97>>, Letter(64)>>),
    Invalid(Dotted(TooLong), TooLong) }

Header(questions, answers) ==
  <<0, 7, 129, 128>> \o write_u16(questions) \o write_u16(answers) \o <<0, 0, 0, 0>>
Question(labels) == WireName(labels) \o <<0, 1, 0, 1>>
FromClient(data, valid, labels) ==
  [caller |-> "client", domain |-> <<>>, data |-> data, valid |-> valid, labels |-> labels]
ClientQuery == Header(1, 0) \o Question(Ab)
Clients ==
  { FromClient(ClientQuery, TRUE, Ab), FromClient(ClientQuery \o <<0, 0, 41>>, TRUE, Ab),
    FromClient(Header(1, 0) \o Question(<<>>), TRUE, <<>>) }
  \cup { FromClient(SubSeq(ClientQuery, 1, n), FALSE, Ab) : n \in 0 .. 12 + Len(WireName(Ab)) - 1 }

(* Records: an alias, addresses of both kinds, and what only looks like one. *)
Named(labels) == [labels |-> labels, end |-> <<0>>]
Pointer == [labels |-> <<>>, end |-> <<192, 12>>]
Mixed == [labels |-> <<<<97>>>>, end |-> <<192, 14>>]
Record(owner, type, class, rdata) ==
  [owner |-> owner, type |-> type, class |-> class, ttl |-> <<0, 0, 0, 9>>, rdata |-> rdata]
Ip4 == <<10, 0, 0, 1>>
Ip6 == [i \in 1 .. 16 |-> i]
With(a, more) == a @@ [data |-> AnswerBytes(a) \o more]
Answer(names, records, more) ==
  With([head |-> <<0, 7, 129, 128>>, counts |-> <<0, 0, 0, 0>>, records |-> records,
        questions |-> [i \in DOMAIN names |-> [name |-> Named(names[i]), kind |-> <<0, 1, 0, 1>>]]],
       more)
One == Answer(<<Ab>>, <<Record(Pointer, A, 1, Ip4)>>, <<>>)
Aliased ==
  Answer(<<Ab>>, << Record(Pointer, 5, 1, <<1, 97, 192, 12>>), Record(Mixed, A, 1, Ip4),
                Record(Named(Ab), AAAA, 1, Ip6), Record(Pointer, A, 3, Ip4),
                Record(Named(<<>>), A, 1, Ip6) >>, <<0, 0, 41, 0, 0>>)
Refused == Answer(<<Ab>>, <<>>, <<>>)
Twice == Answer(<<Ab, <<>>>>, <<Record(Pointer, AAAA, 1, Ip6)>>, <<>>)
Unasked == Answer(<<>>, <<Record(Named(Ab), A, 1, Ip4)>>, <<>>)
Cut(a) == { [a EXCEPT !.data = SubSeq(a.data, 1, n)] : n \in 0 .. Len(a.data) }

MCCases ==
  LET first == Valid(Dotted(Ab), Ab)
      second == FromClient(ClientQuery, TRUE, Ab)
  IN  [ask : Resolves \cup Clients, server : {"https", "none"}, answers : {{One}}]
      \cup [ask : {first, second}, server : {"https"},
            answers : {Cut(Aliased) \cup {Refused, Twice, Unasked}}]
      \cup [ask : {first, second}, server : {"udp"}, answers : {{One, Aliased}}]
MCReplies == {Received(a.data) : a \in {One, Aliased}}
MCIds == {0, 65535}
=============================================================================
