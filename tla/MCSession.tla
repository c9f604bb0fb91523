----------------------------- MODULE MCSession ------------------------------
(***************************************************************************)
(* Instances of Session for TLC: a name, a name too long for its length    *)
(* byte, IP addresses; first data that is no TLS, a TLS hello whole, with  *)
(* more data behind it, and cut at every length.                           *)
(***************************************************************************)
EXTENDS Session

NoHello == <<>>
Other(type, data) == [type |-> type, data |-> data, body |-> <<>>]
ServerNames(names) == [type |-> 0, data |-> <<>>, body |-> names]
Hello(sessionId, extensions) ==
  [minor |-> 1, random |-> <<3, 3>> \o [i \in 1 .. 32 |-> 0], sessionId |-> sessionId,
   ciphers |-> <<19, 1, 19, 2>>, compression |-> <<0>>, extensions |-> extensions]

HostName == [type |-> 0, body |-> <<98, 99>>]
LastName == [type |-> 0, body |-> <<100>>]
OtherName == [type |-> 1, body |-> <<0>>]
Empty == Other(2570, <<>>)
Low0 == Other(256, <<0, 0, 0, 1, 0>>)

None(data) == [firstData |-> data, hello |-> NoHello, name |-> <<>>]
Whole(hello, more) ==
  [firstData |-> HelloBytes(hello) \o more, hello |-> hello, name |-> HostIn(hello)]
Simple == Hello(<<>>, <<ServerNames(<<HostName>>)>>)
Rich == Hello(<<0, 5>>, <<Low0, Empty, ServerNames(<<OtherName, HostName, LastName>>), Empty>>)
Firsts ==
  { None(<<1>>), Whole(Simple, <<>>), Whole(Rich, <<20, 3>>),
    Whole(Hello(<<>>, <<Empty, Low0>>), <<>>), Whole(Hello(<<>>, <<>>), <<>>),
    Whole(Hello(<<>>, <<ServerNames(<<>>), ServerNames(<<HostName>>)>>), <<>>),
    Whole(Hello(<<>>, <<ServerNames(<<OtherName>>), Empty>>), <<>>) }
Cuts == { [firstData |-> SubSeq(HelloBytes(Rich), 1, n), hello |-> Rich, name |-> <<>>] :
            n \in 1 .. Len(HelloBytes(Rich)) - 1 }

At(kind, host, port) == [kind |-> kind, host |-> host, port |-> port]
To(addr, first) ==
  [address |-> addr, firstData |-> first.firstData, hello |-> first.hello, name |-> first.name]
V4 == At("v4", <<1, 2, 3, 4>>, 443)
Sessions ==
  { To(addr, first) :
      addr \in { At("domain", <<97, 97>>, 258), At("domain", <<97, 98, 99, 97, 98>>, 80),
                 V4, At("v6", [i \in 1 .. 16 |-> i], 443) },
      first \in {None(<<1>>), Whole(Simple, <<>>)} }

Direct == [type |-> "direct", transport |-> "tcp"]
Outbounds == {Direct} \cup [type : {"vless"}, transport : {"tcp", "tls", "ws"}]
Answers == {<<0, 0, 5, 6>>, <<0, 0>>, <<1, 0, 5>>}

MCCases ==
  [session : Sessions, outbound : Outbounds, answer : Answers]
  \cup [session : {To(V4, first) : first \in Firsts \cup Cuts}, outbound : {Direct},
        answer : {<<0>>}]
MCUuid == <<9, 9>>
=============================================================================
