----------------------------- MODULE DnsCenter ------------------------------
(***************************************************************************)
(* DnsCenter of src/dns/dns.cpp with the DnsCache of src/dns/cache.cpp.    *)
(* Names are asked for by the program itself (resolve, which goes through  *)
(* the cache) and by DNS clients (mainWork_ takes their datagrams from an  *)
(* AsyncQueue and spawns handleClient_ for each, which does not).  Both    *)
(* suspend while the server of the name answers, so calls for one name     *)
(* overlap; the cache is swept by a coroutine of its own.  The choice of   *)
(* the server (match_) is modelled in Startup, the servers in              *)
(* UdpDnsServer; here a server is asked, and may answer.                   *)
(***************************************************************************)
EXTENDS Naturals, Sequences, Functions

CONSTANTS Resolvers,  \* calls of DnsCenter::resolve
          Clients,    \* queries of DNS clients, each from an endpoint of its own
          Domains,
          Known,      \* the domains whose tag names a DNS server
          Ips,        \* what a server's answer may list
          NoEntry,    \* not in the cache
          expTime_,   \* an hour, in ticks
          Late,       \* bound: how late the io_context runs the sweep
          MaxTime     \* bound: the clock

ASSUME TimeAssumption == expTime_ \in Nat /\ Late \in Nat /\ MaxTime \in Nat
ASSUME DomainAssumption == Known \subseteq Domains
ASSUME CallAssumption == Resolvers \cap Clients = {}
ASSUME NoEntryAssumption == NoEntry \notin [lastAccess : Nat, ips : SUBSET Ips]

Calls == Resolvers \cup Clients

VARIABLES now,       \* steady_clock
          sweepAt,   \* expiry of the timer of DnsCache::mainWork_
          data_,     \* the cache: [lastAccess, ips] or NoEntry for each domain
          sessions,  \* the AsyncQueue of the DNS socket
          pc,        \* pc[p]: where the coroutine of call p is
          domain,    \* domain[p]: the name call p asks for
          result,    \* result[p]: what it returned, or what its client was sent
          replies,   \* history: <<domain, ips>> of every answer parsed from a server
          used       \* history: used[d] is when resolve() last returned addresses of d

vars == <<now, sweepAt, data_, sessions, pc, domain, result, replies, used>>

Init == /\ now = 0
        /\ sweepAt = expTime_
        /\ data_ = [d \in Domains |-> NoEntry]
        /\ sessions = <<>>
        /\ pc = [p \in Calls |-> "idle"]
        /\ domain \in [Calls -> Domains]
        /\ result = [p \in Calls |-> {}]
        /\ replies = {}
        /\ used = [d \in Domains |-> 0]

-----------------------------------------------------------------------------
(* DnsCache::lookup finds the name: it stamps the entry, also an empty     *)
(* one, which resolve() takes for a miss.                                  *)
Hit(d) == data_[d] # NoEntry /\ data_[d].ips # {}

(* Mutant: the entry is not stamped. *)
lookupUnstamped(d) == UNCHANGED data_

lookup(d) == data_' = IF data_[d] = NoEntry THEN data_
                      ELSE [data_ EXCEPT ![d].lastAccess = now]

(* Mutant: the entry holds its expiry, and the sweep adds the hour again.  *)
storeExpiry(d, ips) ==
  data_' = [data_ EXCEPT ![d] = [lastAccess |-> now + expTime_, ips |-> ips]]

(* DnsCache::store replaces whatever the cache holds by now. *)
store(d, ips) == data_' = [data_ EXCEPT ![d] = [lastAccess |-> now, ips |-> ips]]

(* Asking: relay() throws if match_ names no server, and suspends else. *)
Ask(p) == pc' = [pc EXCEPT ![p] = IF domain[p] \in Known THEN "asking" ELSE "threw"]

(* resolve() up to its suspension. *)
ResolveHit(p) == /\ pc[p] = "idle" /\ Hit(domain[p])
                 /\ lookup(domain[p])
                 /\ pc' = [pc EXCEPT ![p] = "cached"]
                 /\ result' = [result EXCEPT ![p] = data_[domain[p]].ips]
                 /\ used' = [used EXCEPT ![domain[p]] = now]
                 /\ UNCHANGED <<now, sweepAt, sessions, domain, replies>>

ResolveMiss(p) == /\ pc[p] = "idle" /\ ~Hit(domain[p])
                  /\ lookup(domain[p])
                  /\ Ask(p)
                  /\ UNCHANGED <<now, sweepAt, sessions, domain, result, replies, used>>

(* A client's query reaches the DNS socket and is queued. *)
Arrive(p) == /\ pc[p] = "idle"
             /\ pc' = [pc EXCEPT ![p] = "queued"]
             /\ sessions' = Append(sessions, p)
             /\ UNCHANGED <<now, sweepAt, data_, domain, result, replies, used>>

(* mainWork_ takes a query and spawns handleClient_, which runs to its     *)
(* suspension in relay().                                                  *)
mainWork_ == /\ sessions # <<>>
             /\ Ask(Head(sessions))
             /\ sessions' = Tail(sessions)
             /\ UNCHANGED <<now, sweepAt, data_, domain, result, replies, used>>

(* Mutants: the answer is stored under every name being asked for; the     *)
(* answer goes to all the clients that wait.                               *)
FinishForAll(p, ips) ==
  /\ IF p \in Resolvers
     THEN data_' = [d \in Domains |-> IF \E q \in Resolvers : pc[q] = "asking" /\ domain[q] = d
                                      THEN [lastAccess |-> now, ips |-> ips] ELSE data_[d]]
     ELSE UNCHANGED data_
  /\ result' = [result EXCEPT ![p] = ips]

FinishToAll(p, ips) ==
  /\ UNCHANGED data_
  /\ result' = [q \in Calls |-> IF pc[q] = "asking" THEN ips ELSE result[q]]

(* What becomes of an answer: resolve() stores it, also when it is empty,  *)
(* and returns it; handleClient_ sends it to the endpoint of its session.  *)
Finish(p, ips) ==
  /\ IF p \in Resolvers THEN store(domain[p], ips) ELSE UNCHANGED data_
  /\ result' = [result EXCEPT ![p] = ips]

(* The server answers, and the suspended call runs to its end. *)
Answer(p, ips) == /\ pc[p] = "asking"
                  /\ pc' = [pc EXCEPT ![p] = "answered"]
                  /\ Finish(p, ips)
                  /\ replies' = replies \cup {<<domain[p], ips>>}
                  /\ used' = IF p \in Resolvers THEN [used EXCEPT ![domain[p]] = now] ELSE used
                  /\ UNCHANGED <<now, sweepAt, sessions, domain>>

(* The server fails, or its answer does not parse: resolve() throws to its *)
(* caller, handleClient_ logs and sends nothing.                           *)
Fail(p) == /\ pc[p] = "asking"
           /\ pc' = [pc EXCEPT ![p] = "threw"]
           /\ UNCHANGED <<now, sweepAt, data_, sessions, domain, result, replies, used>>

-----------------------------------------------------------------------------
Tick == /\ now < MaxTime /\ now < sweepAt + Late
        /\ now' = now + 1
        /\ UNCHANGED <<sweepAt, data_, sessions, pc, domain, result, replies, used>>

(* Mutant: only empty entries go. *)
ExpiredEmpty(d) == data_[d] # NoEntry /\ data_[d].ips = {}

Expired(d) == data_[d] # NoEntry /\ now - data_[d].lastAccess > expTime_

(* DnsCache::mainWork_: the timer fires, idle entries are erased, and a    *)
(* new timer is set.                                                       *)
Sweep == /\ now >= sweepAt
         /\ data_' = [d \in Domains |-> IF Expired(d) THEN NoEntry ELSE data_[d]]
         /\ sweepAt' = now + expTime_
         /\ UNCHANGED <<now, sessions, pc, domain, result, replies, used>>

Next == \/ \E p \in Resolvers : ResolveHit(p) \/ ResolveMiss(p)
        \/ \E p \in Clients : Arrive(p)
        \/ mainWork_
        \/ \E p \in Calls : Fail(p) \/ \E ips \in SUBSET Ips : Answer(p, ips)
        \/ Tick
        \/ Sweep

Spec == Init /\ [][Next]_vars

-----------------------------------------------------------------------------
Entry == [lastAccess : 0 .. MaxTime, ips : SUBSET Ips]

TypeOK ==
  /\ now \in 0 .. MaxTime
  /\ sweepAt \in 0 .. MaxTime + expTime_
  /\ data_ \in [Domains -> Entry \cup {NoEntry}]
  /\ sessions \in Seq(Clients)
  /\ pc \in [Calls -> {"idle", "queued", "asking", "cached", "answered", "threw"}]
  /\ domain \in [Calls -> Domains]
  /\ result \in [Calls -> SUBSET Ips]
  /\ replies \subseteq Domains \X SUBSET Ips
  /\ used \in [Domains -> 0 .. MaxTime]

(* However calls for several names overlap, the cache holds under a name   *)
(* only what a server answered for that name.                              *)
CacheHoldsAnswers ==
  \A d \in Domains : data_[d] # NoEntry => <<d, data_[d].ips>> \in replies

(* Every call gets an answer to its own question: resolve() from the cache *)
(* or the server, and each client the answer to the name it asked for.     *)
OwnAnswer ==
  \A p \in Calls :
    /\ pc[p] \in {"cached", "answered"} => <<domain[p], result[p]>> \in replies
    /\ pc[p] \notin {"cached", "answered"} => result[p] = {}

(* An empty answer is stored but not served from the cache: connecting to  *)
(* the name asks again.                                                    *)
EmptyAsksAgain == \A p \in Calls : pc[p] = "cached" => result[p] # {}

(* An entry nobody looks up is gone within two periods of the sweep.       *)
IdleEntriesGo ==
  \A d \in Domains :
    data_[d] # NoEntry => now - data_[d].lastAccess <= 2 * expTime_ + Late

(* What resolve() returned addresses of stays in the cache for an hour,    *)
(* whatever the sweep's phase.                                             *)
LookupBuysAnHour ==
  [][\A d \in Domains :
       data_[d] # NoEntry /\ data_'[d] = NoEntry => now - used[d] > expTime_]_vars
=============================================================================
