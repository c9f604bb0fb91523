-------------------------- MODULE DnsCenterProofs ---------------------------
(***************************************************************************)
(* Proofs about DnsCenter for all sets of calls and names, every period    *)
(* and every delay of the sweep.                                           *)
(***************************************************************************)
EXTENDS DnsCenter, SequenceTheorems, TLAPS

(* The clock, the sweep's timer and the stamps.  After a sweep every entry *)
(* left has been used within the period, and the next sweep is a period    *)
(* away; later entries are younger.                                        *)
Stamps ==
  /\ sweepAt <= now + expTime_
  /\ now <= sweepAt + Late
  /\ \A d \in Domains : used[d] <= now
  /\ \A d \in Domains : data_[d] # NoEntry =>
       /\ used[d] <= data_[d].lastAccess
       /\ data_[d].lastAccess <= now
       /\ sweepAt <= data_[d].lastAccess + 2 * expTime_

(* The queue holds each waiting client once. *)
QueueOfWaiting ==
  \A i \in 1 .. Len(sessions) :
    /\ pc[sessions[i]] = "queued"
    /\ \A j \in 1 .. Len(sessions) : sessions[i] = sessions[j] => i = j

IInv == /\ TypeOK
        /\ QueueOfWaiting
        /\ CacheHoldsAnswers
        /\ OwnAnswer
        /\ EmptyAsksAgain
        /\ Stamps

(* No entry is the mark of an absent one. *)
LEMMA EntryIsThere == \A e \in Entry : e # NoEntry
<1> SUFFICES ASSUME NEW e \in Entry PROVE e \in [lastAccess : Nat, ips : SUBSET Ips]
  BY NoEntryAssumption
<1>. QED
  BY TimeAssumption DEF Entry

(* What an entry of the cache is made of, also after a stamp. *)
LEMMA EntryFields ==
  ASSUME NEW e \in Entry \cup {NoEntry}, e # NoEntry
  PROVE  /\ e \in Entry /\ e.lastAccess \in 0 .. MaxTime /\ e.ips \in SUBSET Ips
         /\ \A t \in 0 .. MaxTime : [e EXCEPT !.lastAccess = t] \in Entry
                                    /\ [e EXCEPT !.lastAccess = t].ips = e.ips
                                    /\ [e EXCEPT !.lastAccess = t].lastAccess = t
BY DEF Entry

LEMMA InitIInv == Init => IInv
BY TimeAssumption DEF Init, IInv, QueueOfWaiting, TypeOK, CacheHoldsAnswers, OwnAnswer, EmptyAsksAgain, Stamps

(* What lookup() does to the cache. *)
LEMMA LookupEffect ==
  ASSUME TypeOK, NEW d \in Domains, lookup(d)
  PROVE  /\ data_' \in [Domains -> Entry \cup {NoEntry}]
         /\ \A e \in Domains : data_'[e] # NoEntry =>
              /\ data_[e] # NoEntry /\ data_'[e].ips = data_[e].ips
              /\ data_'[e].lastAccess = IF e = d THEN now ELSE data_[e].lastAccess
         /\ \A e \in Domains : data_[e] # NoEntry => data_'[e] # NoEntry
<1>1. CASE data_[d] = NoEntry
  BY <1>1 DEF lookup, TypeOK
<1>2. CASE data_[d] # NoEntry
  <2>1. data_' = [data_ EXCEPT ![d] = [data_[d] EXCEPT !.lastAccess = now]]
    BY <1>2 DEF lookup
  <2>2. /\ [data_[d] EXCEPT !.lastAccess = now] \in Entry
        /\ [data_[d] EXCEPT !.lastAccess = now].ips = data_[d].ips
        /\ [data_[d] EXCEPT !.lastAccess = now].lastAccess = now
    BY <1>2, EntryFields DEF TypeOK
  <2>3. \A e \in Domains : data_'[e] = IF e = d THEN [data_[d] EXCEPT !.lastAccess = now]
                                       ELSE data_[e]
    BY <2>1 DEF TypeOK
  <2>4. data_' \in [Domains -> Entry \cup {NoEntry}]
    BY <2>1, <2>2 DEF TypeOK
  <2>. QED
    BY <1>2, <2>2, <2>3, <2>4, EntryIsThere
<1>. QED
  BY <1>1, <1>2

LEMMA StepIInv == IInv /\ [Next]_vars => IInv'
<1> SUFFICES ASSUME IInv, [Next]_vars PROVE IInv'
  OBVIOUS
<1> USE DEF IInv
<1>0. /\ now \in Nat /\ sweepAt \in Nat /\ expTime_ \in Nat /\ Late \in Nat /\ MaxTime \in Nat
      /\ now <= MaxTime /\ sweepAt <= MaxTime + expTime_
      /\ \A d \in Domains : used[d] \in Nat
      /\ \A d \in Domains : data_[d] # NoEntry =>
           data_[d].lastAccess \in Nat /\ data_[d].ips \in SUBSET Ips
  BY TimeAssumption, EntryFields DEF TypeOK
<1>q. ASSUME NEW p \in Calls, pc[p] # "queued", sessions' = sessions,
             \A q \in Calls : q # p => pc'[q] = pc[q]
      PROVE  QueueOfWaiting'
  <2>1. \A i \in 1 .. Len(sessions) : sessions[i] \in Calls /\ sessions[i] # p
    BY <1>q, ElementOfSeq DEF QueueOfWaiting, TypeOK, Calls
  <2>. QED
    BY <1>q, <2>1 DEF QueueOfWaiting
<1>1. ASSUME NEW p \in Resolvers, ResolveHit(p) PROVE IInv'
  <2>0. p \in Calls /\ domain[p] \in Domains
    BY DEF Calls, TypeOK
  <2>1. /\ data_' \in [Domains -> Entry \cup {NoEntry}]
        /\ \A e \in Domains : data_'[e] # NoEntry =>
              /\ data_[e] # NoEntry /\ data_'[e].ips = data_[e].ips
              /\ data_'[e].lastAccess = IF e = domain[p] THEN now ELSE data_[e].lastAccess
    BY <1>1, <2>0, LookupEffect DEF ResolveHit
  <2>2. /\ data_[domain[p]] # NoEntry /\ data_[domain[p]].ips # {}
        /\ data_[domain[p]].ips \in SUBSET Ips
        /\ pc' = [pc EXCEPT ![p] = "cached"]
        /\ result' = [result EXCEPT ![p] = data_[domain[p]].ips]
        /\ used' = [used EXCEPT ![domain[p]] = now]
        /\ UNCHANGED <<now, sweepAt, sessions, domain, replies>>
    BY <1>0, <1>1, <2>0 DEF ResolveHit, Hit
  <2>3. TypeOK'
    BY <2>0, <2>1, <2>2 DEF TypeOK
  <2>4. CacheHoldsAnswers'
    BY <2>1, <2>2 DEF CacheHoldsAnswers
  <2>5. OwnAnswer' /\ EmptyAsksAgain'
    BY <2>0, <2>2 DEF OwnAnswer, EmptyAsksAgain, CacheHoldsAnswers, TypeOK
  <2>6. Stamps'
    <3>1. \A e \in Domains : used'[e] = IF e = domain[p] THEN now ELSE used[e]
      BY <2>0, <2>2 DEF TypeOK
    <3>. QED
      BY <1>0, <2>1, <2>2, <3>1 DEF Stamps
  <2>9. QueueOfWaiting'
    <3>1. pc[p] = "idle"
      BY <1>1 DEF ResolveHit
    <3>2. \A q \in Calls : q # p => pc'[q] = pc[q]
      BY <2>2 DEF TypeOK
    <3>. QED
      BY <1>q, <2>0, <2>2, <3>1, <3>2
  <2>. QED
    BY <2>9, <2>3, <2>4, <2>5, <2>6
<1>2. ASSUME NEW p \in Resolvers, ResolveMiss(p) PROVE IInv'
  <2>0. p \in Calls /\ domain[p] \in Domains
    BY DEF Calls, TypeOK
  <2>1. /\ data_' \in [Domains -> Entry \cup {NoEntry}]
        /\ \A e \in Domains : data_'[e] # NoEntry =>
              /\ data_[e] # NoEntry /\ data_'[e].ips = data_[e].ips
              /\ data_'[e].lastAccess = IF e = domain[p] THEN now ELSE data_[e].lastAccess
    BY <1>2, <2>0, LookupEffect DEF ResolveMiss
  <2>2. /\ pc[p] = "idle"
        /\ pc' = [pc EXCEPT ![p] = "asking"] \/ pc' = [pc EXCEPT ![p] = "threw"]
        /\ UNCHANGED <<now, sweepAt, sessions, domain, result, replies, used>>
    BY <1>2 DEF ResolveMiss, Ask
  <2>3. TypeOK'
    BY <2>0, <2>1, <2>2 DEF TypeOK
  <2>4. CacheHoldsAnswers'
    BY <2>1, <2>2 DEF CacheHoldsAnswers
  <2>5. OwnAnswer' /\ EmptyAsksAgain'
    BY <2>0, <2>2 DEF OwnAnswer, EmptyAsksAgain, TypeOK
  <2>6. Stamps'
    BY <1>0, <2>1, <2>2 DEF Stamps
  <2>9. QueueOfWaiting'
    <3>1. \A q \in Calls : q # p => pc'[q] = pc[q]
      BY <2>2 DEF TypeOK
    <3>. QED
      BY <1>q, <2>0, <2>2, <3>1
  <2>. QED
    BY <2>9, <2>3, <2>4, <2>5, <2>6
<1>3. ASSUME NEW p \in Clients, Arrive(p) PROVE IInv'
  <2>0. p \in Calls
    BY DEF Calls
  <2>1. TypeOK'
    BY <1>3, <2>0, AppendProperties DEF Arrive, TypeOK
  <2>2. CacheHoldsAnswers' /\ Stamps'
    BY <1>3 DEF Arrive, CacheHoldsAnswers, Stamps
  <2>3. OwnAnswer' /\ EmptyAsksAgain'
    BY <1>3, <2>0 DEF Arrive, OwnAnswer, EmptyAsksAgain, TypeOK
  <2>9. QueueOfWaiting'
    <3>1. /\ sessions' = Append(sessions, p) /\ pc[p] = "idle"
          /\ pc'[p] = "queued" /\ \A q \in Calls : q # p => pc'[q] = pc[q]
      BY <1>3, <2>0 DEF Arrive, TypeOK
    <3>2. \A i \in 1 .. Len(sessions) : sessions[i] \in Calls /\ sessions[i] # p
      BY <3>1, ElementOfSeq DEF QueueOfWaiting, TypeOK, Calls
    <3>3. /\ Len(sessions') = Len(sessions) + 1 /\ Len(sessions) \in Nat
          /\ sessions'[Len(sessions) + 1] = p
          /\ \A i \in 1 .. Len(sessions) : sessions'[i] = sessions[i]
      BY <3>1, AppendProperties, LenProperties DEF TypeOK
    <3>. QED
      BY <3>1, <3>2, <3>3 DEF QueueOfWaiting
  <2>. QED
    BY <2>9, <2>1, <2>2, <2>3
<1>4. CASE mainWork_
  <2>1. Head(sessions) \in Clients /\ Tail(sessions) \in Seq(Clients)
    BY <1>4, HeadTailProperties DEF mainWork_, TypeOK
  <2>2. PICK q \in Calls : /\ pc' = [pc EXCEPT ![q] = "asking"] \/ pc' = [pc EXCEPT ![q] = "threw"]
                           /\ q = Head(sessions)
    BY <1>4, <2>1 DEF mainWork_, Ask, Calls
  <2>3. TypeOK'
    BY <1>4, <2>1, <2>2 DEF mainWork_, TypeOK
  <2>4. CacheHoldsAnswers' /\ Stamps'
    BY <1>4 DEF mainWork_, CacheHoldsAnswers, Stamps
  <2>5. OwnAnswer' /\ EmptyAsksAgain'
    <3>1. /\ pc[q] \notin {"cached", "answered"} /\ result' = result
          /\ domain' = domain /\ replies' = replies
      <4>1. pc[sessions[1]] = "queued" /\ q = sessions[1]
        BY <1>4, <2>2, HeadTailProperties, LenProperties, EmptySeq
           DEF mainWork_, QueueOfWaiting, TypeOK
      <4>. QED
        BY <1>4, <4>1 DEF mainWork_
    <3>2. \A p \in Calls : p # q => pc'[p] = pc[p]
      BY <2>2 DEF TypeOK
    <3>3. pc'[q] \in {"asking", "threw"}
      BY <2>2 DEF TypeOK
    <3>. QED
      BY <3>1, <3>2, <3>3 DEF OwnAnswer, EmptyAsksAgain
  <2>9. QueueOfWaiting'
    <3>1. /\ sessions' = Tail(sessions) /\ sessions # <<>>
          /\ \A r \in Calls : r # q => pc'[r] = pc[r]
      BY <1>4, <2>2 DEF mainWork_, TypeOK
    <3>2. /\ Len(sessions') = Len(sessions) - 1 /\ Len(sessions) \in Nat /\ Len(sessions) >= 1
          /\ \A i \in 1 .. Len(sessions) - 1 : sessions'[i] = sessions[i + 1]
          /\ q = sessions[1]
      BY <2>2, <3>1, HeadTailProperties, LenProperties, EmptySeq DEF TypeOK
    <3>3. \A i \in 1 .. Len(sessions) : sessions[i] \in Calls
      BY ElementOfSeq DEF TypeOK, Calls
    <3>4. \A i \in 1 .. Len(sessions) - 1 : sessions[i + 1] # q
      BY <3>2 DEF QueueOfWaiting
    <3>. QED
      BY <3>1, <3>2, <3>3, <3>4 DEF QueueOfWaiting
  <2>. QED
    BY <2>9, <2>3, <2>4, <2>5
<1>5. ASSUME NEW p \in Calls, Fail(p) PROVE IInv'
  <2>1. TypeOK' /\ CacheHoldsAnswers' /\ Stamps'
    BY <1>5 DEF Fail, TypeOK, CacheHoldsAnswers, Stamps
  <2>2. OwnAnswer' /\ EmptyAsksAgain'
    BY <1>5 DEF Fail, OwnAnswer, EmptyAsksAgain, TypeOK
  <2>9. QueueOfWaiting'
    <3>1. /\ pc[p] = "asking" /\ sessions' = sessions
          /\ \A q \in Calls : q # p => pc'[q] = pc[q]
      BY <1>5 DEF Fail, TypeOK
    <3>. QED
      BY <1>q, <3>1
  <2>. QED
    BY <2>9, <2>1, <2>2
<1>6. ASSUME NEW p \in Calls, NEW ips \in SUBSET Ips, Answer(p, ips) PROVE IInv'
  <2>0. domain[p] \in Domains
    BY DEF TypeOK
  <2> DEFINE new == [lastAccess |-> now, ips |-> ips]
  <2>1. new \in Entry /\ new # NoEntry /\ new.lastAccess = now /\ new.ips = ips
    BY <1>0, NoEntryAssumption DEF Entry, TypeOK
  <2> HIDE DEF new
  <2>2. /\ pc[p] = "asking"
        /\ pc' = [pc EXCEPT ![p] = "answered"]
        /\ result' = [result EXCEPT ![p] = ips]
        /\ replies' = replies \cup {<<domain[p], ips>>}
        /\ UNCHANGED <<now, sweepAt, sessions, domain>>
        /\ \/ data_' = data_ /\ used' = used
           \/ data_' = [data_ EXCEPT ![domain[p]] = new] /\ used' = [used EXCEPT ![domain[p]] = now]
    BY <1>6 DEF Answer, Finish, store, Calls, new
  <2>3. TypeOK'
    <3>1. data_' \in [Domains -> Entry \cup {NoEntry}]
      BY <2>0, <2>1, <2>2 DEF TypeOK
    <3>2. used' \in [Domains -> 0 .. MaxTime]
      BY <2>0, <2>2 DEF TypeOK
    <3>3. pc' \in [Calls -> {"idle", "queued", "asking", "cached", "answered", "threw"}]
      BY <2>2 DEF TypeOK
    <3>4. result' \in [Calls -> SUBSET Ips]
      BY <2>2 DEF TypeOK
    <3>5. replies' \subseteq Domains \X SUBSET Ips
      BY <2>0, <2>2 DEF TypeOK
    <3>. QED
      BY <2>2, <3>1, <3>2, <3>3, <3>4, <3>5 DEF TypeOK
  <2>4. CacheHoldsAnswers'
    BY <2>0, <2>1, <2>2 DEF CacheHoldsAnswers, TypeOK
  <2>5. OwnAnswer' /\ EmptyAsksAgain'
    BY <2>2 DEF OwnAnswer, EmptyAsksAgain, TypeOK
  <2>6. Stamps'
    <3>1. CASE data_' = data_ /\ used' = used
      BY <2>2, <3>1 DEF Stamps
    <3>2. CASE data_' = [data_ EXCEPT ![domain[p]] = new] /\ used' = [used EXCEPT ![domain[p]] = now]
      <4>1. \A e \in Domains : /\ used'[e] = IF e = domain[p] THEN now ELSE used[e]
                               /\ data_'[e] = IF e = domain[p] THEN new ELSE data_[e]
        BY <2>0, <3>2 DEF TypeOK
      <4>. QED
        BY <1>0, <2>1, <2>2, <4>1 DEF Stamps
    <3>. QED
      BY <2>2, <3>1, <3>2
  <2>9. QueueOfWaiting'
    <3>1. \A q \in Calls : q # p => pc'[q] = pc[q]
      BY <2>2 DEF TypeOK
    <3>. QED
      BY <1>q, <2>2, <3>1
  <2>. QED
    BY <2>9, <2>3, <2>4, <2>5, <2>6
<1>7. CASE Tick
  <2>1. TypeOK' /\ CacheHoldsAnswers' /\ OwnAnswer' /\ EmptyAsksAgain'
    BY <1>0, <1>7 DEF Tick, TypeOK, CacheHoldsAnswers, OwnAnswer, EmptyAsksAgain
  <2>2. Stamps'
    BY <1>0, <1>7 DEF Tick, Stamps
  <2>9. QueueOfWaiting'
    BY <1>7 DEF Tick, QueueOfWaiting
  <2>. QED
    BY <2>9, <2>1, <2>2
<1>8. CASE Sweep
  <2>1. /\ data_' = [d \in Domains |-> IF Expired(d) THEN NoEntry ELSE data_[d]]
        /\ now >= sweepAt /\ sweepAt' = now + expTime_
        /\ UNCHANGED <<now, sessions, pc, domain, result, replies, used>>
    BY <1>8 DEF Sweep
  <2>2. \A d \in Domains : data_'[d] # NoEntry =>
          data_'[d] = data_[d] /\ data_[d] # NoEntry /\ ~(now - data_[d].lastAccess > expTime_)
    BY <2>1 DEF Expired
  <2>3. TypeOK'
    BY <1>0, <2>1 DEF TypeOK
  <2>4. CacheHoldsAnswers' /\ OwnAnswer' /\ EmptyAsksAgain'
    BY <2>1, <2>2 DEF CacheHoldsAnswers, OwnAnswer, EmptyAsksAgain
  <2>5. Stamps'
    BY <1>0, <2>1, <2>2 DEF Stamps
  <2>9. QueueOfWaiting'
    BY <2>1 DEF QueueOfWaiting
  <2>. QED
    BY <2>9, <2>3, <2>4, <2>5
<1>9. CASE UNCHANGED vars
  BY <1>9 DEF vars, QueueOfWaiting, TypeOK, CacheHoldsAnswers, OwnAnswer, EmptyAsksAgain, Stamps
<1>. QED
  BY <1>1, <1>2, <1>3, <1>4, <1>5, <1>6, <1>7, <1>8, <1>9 DEF Next

LEMMA InductiveInvariant == Spec => []IInv
BY InitIInv, StepIInv, PTL DEF Spec

(* The variables keep their types. *)
THEOREM TypeCorrect == Spec => []TypeOK
BY InductiveInvariant, PTL DEF IInv

(* Overlapping calls never mix up the names in the cache. *)
THEOREM CacheIsTrue == Spec => []CacheHoldsAnswers
BY InductiveInvariant, PTL DEF IInv

(* Every call of resolve and every client gets an answer to its own name. *)
THEOREM AnswersAreOwn == Spec => []OwnAnswer
BY InductiveInvariant, PTL DEF IInv

(* Entries nobody looks up are gone after two periods. *)
THEOREM IdleIsBounded == Spec => []IdleEntriesGo
<1>1. IInv => IdleEntriesGo
  <2> SUFFICES ASSUME IInv, NEW d \in Domains, data_[d] # NoEntry
               PROVE  now - data_[d].lastAccess <= 2 * expTime_ + Late
    BY DEF IdleEntriesGo
  <2>1. data_[d].lastAccess \in Nat /\ now \in Nat /\ sweepAt \in Nat
    BY TimeAssumption, EntryFields DEF IInv, TypeOK
  <2>2. now <= sweepAt + Late /\ sweepAt <= data_[d].lastAccess + 2 * expTime_
    BY DEF IInv, Stamps
  <2>. QED
    BY <2>1, <2>2, TimeAssumption
<1>. QED
  BY <1>1, InductiveInvariant, PTL

(* What resolve() used stays for a period. *)
THEOREM UsedStays == Spec => LookupBuysAnHour
<1> DEFINE A == \A d \in Domains :
                  data_[d] # NoEntry /\ data_'[d] = NoEntry => now - used[d] > expTime_
<1>1. IInv /\ [Next]_vars => [A]_vars
  <2> SUFFICES ASSUME IInv, Next, NEW d \in Domains, data_[d] # NoEntry, data_'[d] = NoEntry
               PROVE  now - used[d] > expTime_
    OBVIOUS
  <2>1. /\ data_[d].lastAccess \in Nat /\ now \in Nat /\ used[d] \in Nat /\ expTime_ \in Nat
        /\ used[d] <= data_[d].lastAccess
    BY TimeAssumption, EntryFields DEF IInv, TypeOK, Stamps
  <2>2. ASSUME NEW p \in Resolvers, lookup(domain[p]) PROVE FALSE
    <3>1. domain[p] \in Domains
      BY DEF IInv, TypeOK, Calls
    <3>. QED
      BY <2>2, <3>1, LookupEffect DEF IInv
  <2>3. ASSUME NEW p \in Calls, NEW ips \in SUBSET Ips, Answer(p, ips) PROVE FALSE
    <3>1. [lastAccess |-> now, ips |-> ips] # NoEntry
      BY <2>1, NoEntryAssumption
    <3>. QED
      BY <2>3, <3>1 DEF Answer, Finish, store, IInv, TypeOK
  <2>4. CASE Sweep
    BY <2>1, <2>4 DEF Sweep, Expired
  <2>. QED
    BY <2>2, <2>3, <2>4 DEF Next, ResolveHit, ResolveMiss, Arrive, mainWork_, Fail, Tick
<1>. QED
  BY <1>1, InductiveInvariant, PTL DEF Spec, LookupBuysAnHour
=============================================================================
