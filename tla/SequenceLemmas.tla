--------------------------- MODULE SequenceLemmas ---------------------------
(***************************************************************************)
(* Facts about sequences that queues and streams need: data that moves     *)
(* from the front of one buffer to the end of the one before it.           *)
(***************************************************************************)
EXTENDS Integers, Sequences, SequencesExt, Bytes, SequenceTheorems, WellFoundedInduction, TLAPS

(* Taking the head off one sequence and appending it to the one before     *)
(* leaves their concatenation as it was.                                   *)
LEMMA MoveHead ==
  ASSUME NEW S, NEW s \in Seq(S), NEW t \in Seq(S), t # <<>>
  PROVE  /\ Append(s, Head(t)) \o Tail(t) = s \o t
         /\ (s \o t)[Len(s) + 1] = Head(t)
         /\ Len(s) < Len(s \o t)
<1>1. Head(t) \in S /\ Tail(t) \in Seq(S) /\ t = <<Head(t)>> \o Tail(t)
  <2>1. Head(t) \in S /\ Tail(t) \in Seq(S)
    BY HeadTailProperties
  <2>2. <<Head(t)>> \o Tail(t) \in Seq(S) /\ Len(<<Head(t)>> \o Tail(t)) = Len(t)
    BY <2>1, ConcatProperties, HeadTailProperties, LenProperties
  <2>3. \A i \in 1 .. Len(t) : (<<Head(t)>> \o Tail(t))[i] = t[i]
    BY <2>1, ConcatProperties, HeadTailProperties, LenProperties
  <2>. QED
    BY <2>1, <2>2, <2>3, SeqEqual
<1>2. Append(s, Head(t)) = s \o <<Head(t)>>
  BY <1>1, AppendIsConcat
<1>3. (s \o <<Head(t)>>) \o Tail(t) = s \o (<<Head(t)>> \o Tail(t))
  BY <1>1, ConcatAssociative
<1>4. Len(t) > 0 /\ Len(s) \in Nat
  BY EmptySeq, LenProperties
<1>5. (s \o t)[Len(s) + 1] = t[1] /\ Len(s \o t) = Len(s) + Len(t)
  BY <1>4, ConcatProperties, LenProperties
<1>. QED
  BY <1>1, <1>2, <1>3, <1>4, <1>5

(* Appending to the second of two concatenated sequences. *)
LEMMA AppendRight ==
  ASSUME NEW S, NEW s \in Seq(S), NEW t \in Seq(S), NEW e \in S
  PROVE  s \o Append(t, e) = Append(s \o t, e)
<1>1. Append(t, e) = t \o <<e>> /\ Append(s \o t, e) = (s \o t) \o <<e>>
  BY AppendIsConcat, ConcatProperties
<1>. QED
  BY <1>1, ConcatAssociative

(* What is left of a sequence from a position on.                          *)
LEMMA Suffix ==
  ASSUME NEW S, NEW s \in Seq(S)
  PROVE  LET n == Len(s)
         IN  /\ SubSeq(s, 1, n) = s /\ SubSeq(s, n + 1, n) = <<>>
             /\ \A i \in 1 .. n + 1 : SubSeq(s, i, n) \in Seq(S)
             /\ \A i \in 1 .. n : SubSeq(s, i, n) = <<s[i]>> \o SubSeq(s, i + 1, n)
<1> DEFINE n == Len(s)
<1>1. n \in Nat
  BY LenProperties
<1>2. SubSeq(s, 1, n) = s
  BY SubSeqFull
<1>3. SubSeq(s, n + 1, n) = <<>>
  BY <1>1, SubSeqEmpty
<1>4. ASSUME NEW i \in 1 .. n + 1 PROVE SubSeq(s, i, n) \in Seq(S)
  <2>1. \A k \in i .. n : s[k] \in S
    BY <1>1, ElementOfSeq
  <2>. QED
    BY <1>1, <2>1, SubSeqProperties
<1>5. ASSUME NEW i \in 1 .. n PROVE SubSeq(s, i, n) = <<s[i]>> \o SubSeq(s, i + 1, n)
  <2>1. i \in 1 .. Len(s) /\ n \in i .. Len(s)
    BY <1>1
  <2>. QED
    BY <2>1, SubSeqRecursiveFirst
<1>. QED
  BY <1>2, <1>3, <1>4, <1>5

(* The slice of a sequence that holds the elements of another one.         *)
LEMMA Slice ==
  ASSUME NEW S, NEW s \in Seq(S), NEW t \in Seq(S), NEW a \in Nat, a + Len(t) <= Len(s),
         \A k \in 1 .. Len(t) : s[a + k] = t[k]
  PROVE  SubSeq(s, a + 1, a + Len(t)) = t
<1> DEFINE m == Len(t)
           n == Len(s)
           x == SubSeq(s, a + 1, a + m)
<1>1. m \in Nat /\ n \in Nat /\ a + m <= n
  BY LenProperties
<1>2. \A k \in a + 1 .. a + m : s[k] \in S
  <2>1. \A k \in a + 1 .. a + m : k \in 1 .. n
    BY <1>1
  <2>. QED
    BY <2>1, ElementOfSeq
<1>3. CASE m = 0
  <2>1. t = <<>>
    BY <1>3, EmptySeq
  <2>2. a + m < a + 1
    BY <1>1, <1>3
  <2>3. x = <<>>
    BY <1>1, <2>2, SubSeqEmpty
  <2>. QED
    BY <2>1, <2>3
<1>4. CASE m # 0
  <2>1. a + 1 <= a + m
    BY <1>1, <1>4
  <2>2. /\ x \in Seq(S) /\ Len(x) = (a + m) - (a + 1) + 1
        /\ \A k \in 1 .. (a + m) - (a + 1) + 1 : x[k] = s[a + 1 + k - 1]
    BY <1>1, <1>2, <2>1, SubSeqProperties
  <2>3. \A k \in 1 .. m : s[a + k] = t[k]
    OBVIOUS
  <2> HIDE DEF x, m
  <2>4. (a + m) - (a + 1) + 1 = m /\ \A k \in 1 .. m : a + 1 + k - 1 = a + k
    BY <1>1
  <2>5. Len(x) = m /\ \A k \in 1 .. m : x[k] = t[k]
    BY <2>2, <2>3, <2>4
  <2>. QED
    BY <2>2, <2>5, SeqEqual DEF m, x
<1>. QED
  BY <1>3, <1>4

-----------------------------------------------------------------------------
(* Induction over the naturals, for a property given as a set.             *)
LEMMA SetInduction ==
  ASSUME NEW G, 0 \in G, \A n \in Nat : n \in G => n + 1 \in G
  PROVE  Nat \subseteq G
<1> SUFFICES ASSUME Nat \ G # {} PROVE FALSE
  OBVIOUS
<1>1. PICK m \in Nat \ G : \A k \in Nat \ G : ~(<<k, m>> \in OpToRel(<, Nat))
  BY NatLessThanWellFounded, WFMin
<1>2. \A k \in Nat : k < m => k \in G
  BY <1>1 DEF OpToRel
<1>3. m \in Nat /\ m # 0
  OBVIOUS
<1>4. m - 1 \in Nat /\ m - 1 < m /\ (m - 1) + 1 = m
  BY <1>3
<1>. QED
  BY <1>1, <1>2, <1>4

(* The first of a set of positions.                                        *)
LEMMA FirstIs ==
  ASSUME NEW D \in SUBSET Nat, D # {}
  PROVE  LET e == CHOOSE i \in D : \A j \in D : i <= j
         IN  e \in D /\ \A j \in D : e <= j
<1>1. PICK m \in D : \A y \in D : ~(<<y, m>> \in OpToRel(<, Nat))
  BY NatLessThanWellFounded, WFMin
<1>2. ASSUME NEW y \in D PROVE m <= y
  <2>1. m \in Nat /\ y \in Nat /\ ~(y < m)
    BY <1>1 DEF OpToRel
  <2>. QED
    BY <2>1
<1>. QED
  BY <1>2

(* A recursive function exists: its values depend only on values of lower  *)
(* measure, and the measure is bounded.  F[x] makes the value at x from    *)
(* the function.                                                           *)
Recursive(S, V, m, B, F) ==
  /\ V # {} /\ m \in [S -> Nat] /\ B \in Nat /\ \A x \in S : m[x] <= B
  /\ F \in [S -> [[S -> V] -> V]]
  /\ \A x \in S : \A f, g \in [S -> V] :
       (\A y \in S : m[y] < m[x] => f[y] = g[y]) => F[x][f] = F[x][g]

Solvable(S, V, F) == \E f \in [S -> V] : \A x \in S : f[x] = F[x][f]

LEMMA Recursion ==
  ASSUME NEW S, NEW V, NEW m, NEW B, NEW F, Recursive(S, V, m, B, F)
  PROVE  Solvable(S, V, F)
<1> USE DEF Recursive
<1> DEFINE Upto(f, n) == \A x \in S : m[x] < n => f[x] = F[x][f]
           P(n) == \E f \in [S -> V] : Upto(f, n)
           G == {n \in Nat : P(n)}
<1>0. \A x \in S : m[x] \in Nat
  OBVIOUS
<1>1. \A x \in S : \A f \in [S -> V] : F[x][f] \in V
  OBVIOUS
<1>2. P(0)
  <2>1. PICK v \in V : TRUE
    OBVIOUS
  <2> DEFINE f == [x \in S |-> v]
  <2>2. f \in [S -> V]
    OBVIOUS
  <2>3. Upto(f, 0)
    BY <1>0
  <2>. QED
    BY <2>2, <2>3
<1>3. ASSUME NEW n \in Nat, P(n) PROVE P(n + 1)
  <2>1. PICK f \in [S -> V] : Upto(f, n)
    BY <1>3
  <2> DEFINE g == [x \in S |-> IF m[x] < n THEN f[x] ELSE F[x][f]]
  <2>2. g \in [S -> V]
    BY <1>1
  <2>3. \A y \in S : m[y] < n => f[y] = g[y]
    OBVIOUS
  <2>4. \A x \in S : g[x] = F[x][f]
    BY <2>1
  <2> HIDE DEF g
  <2>5. ASSUME NEW x \in S, m[x] < n + 1 PROVE F[x][f] = F[x][g]
    <3>1. \A y \in S : m[y] < m[x] => m[y] < n
      BY <1>0, <2>5
    <3>. QED
      BY <2>2, <2>3, <3>1
  <2>6. Upto(g, n + 1)
    BY <2>4, <2>5
  <2>. QED
    BY <2>2, <2>6
<1>4. P(B + 1)
  <2> HIDE DEF P
  <2>1. 0 \in G /\ \A n \in Nat : n \in G => n + 1 \in G
    BY <1>2, <1>3
  <2>2. Nat \subseteq G
    BY <2>1, SetInduction
  <2>. QED
    BY <2>2
<1>5. \A x \in S : m[x] < B + 1
  BY <1>0
<1>. QED
  BY <1>4, <1>5 DEF Solvable

(* The recursion of FlattenSeq has a solution, and only one.               *)
Flattens(f, ss) ==
  /\ DOMAIN f = 1 .. Len(ss)
  /\ \A i \in 1 .. Len(ss) : f[i] = IF i = 1 THEN ss[i] ELSE f[i - 1] \o ss[i]

LEMMA FlattenExists ==
  ASSUME NEW S, NEW ss \in Seq(Seq(S))
  PROVE  \E f \in [1 .. Len(ss) -> Seq(S)] : Flattens(f, ss)
<1> DEFINE Upto(f, n) == \A i \in 1 .. n : f[i] = IF i = 1 THEN ss[i] ELSE f[i - 1] \o ss[i]
           P(n) == n <= Len(ss) => \E f \in [1 .. n -> Seq(S)] : Upto(f, n)
           G == {n \in Nat : P(n)}
<1>1. Len(ss) \in Nat
  BY LenProperties
<1>2. P(0)
  <2> DEFINE none == [i \in 1 .. 0 |-> <<>>]
  <2>1. none \in [1 .. 0 -> Seq(S)] /\ Upto(none, 0)
    OBVIOUS
  <2>. QED
    BY <2>1
<1>3. ASSUME NEW n \in Nat, P(n) PROVE P(n + 1)
  <2> SUFFICES ASSUME n + 1 <= Len(ss)
               PROVE  \E f \in [1 .. n + 1 -> Seq(S)] : Upto(f, n + 1)
    OBVIOUS
  <2>1. PICK f \in [1 .. n -> Seq(S)] : Upto(f, n)
    BY <1>1, <1>3
  <2> DEFINE last == IF n = 0 THEN ss[1] ELSE f[n] \o ss[n + 1]
             g == [i \in 1 .. n + 1 |-> IF i = n + 1 THEN last ELSE f[i]]
  <2>2. last \in Seq(S)
    <3>1. ss[n + 1] \in Seq(S)
      BY <1>1, ElementOfSeq
    <3>2. n # 0 => f[n] \in Seq(S)
      BY <2>1
    <3>. QED
      BY <3>1, <3>2, ConcatProperties
  <2>3. g \in [1 .. n + 1 -> Seq(S)]
    BY <2>1, <2>2
  <2>4. ASSUME NEW i \in 1 .. n + 1
        PROVE  g[i] = IF i = 1 THEN ss[i] ELSE g[i - 1] \o ss[i]
    <3>1. CASE i = n + 1
      <4>1. i # 1 => g[i - 1] = f[n]
        BY <3>1
      <4>. QED
        BY <3>1, <4>1
    <3>2. CASE i # n + 1
      <4>1. i \in 1 .. n /\ g[i] = f[i] /\ (i # 1 => g[i - 1] = f[i - 1])
        BY <3>2
      <4>. QED
        BY <4>1, <2>1
    <3>. QED
      BY <3>1, <3>2
  <2>. QED
    BY <2>3, <2>4
<1>4. P(Len(ss))
  <2> HIDE DEF P
  <2>1. 0 \in G /\ \A n \in Nat : n \in G => n + 1 \in G
    BY <1>2, <1>3
  <2>2. Nat \subseteq G
    BY <2>1, SetInduction
  <2>. QED
    BY <1>1, <2>2
<1>. QED
  BY <1>1, <1>4 DEF Flattens

LEMMA FlattenIs ==
  ASSUME NEW S, NEW ss \in Seq(Seq(S)), ss # <<>>,
         NEW f, Flattens(f, ss)
  PROVE  FlattenSeq(ss) = f[Len(ss)]
<1> DEFINE Rec(h) == h = [i \in 1 .. Len(ss) |-> IF i = 1 THEN ss[i] ELSE h[i - 1] \o ss[i]]
           chosen == CHOOSE h : Rec(h)
<1>1. Len(ss) \in Nat \ {0}
  BY EmptySeq
<1>2. PICK e \in [1 .. Len(ss) -> Seq(S)] : Flattens(e, ss)
  BY FlattenExists
<1>3. Rec(e)
  BY <1>2 DEF Flattens
<1>4. Rec(chosen)
  BY <1>3
<1>5. FlattenSeq(ss) = chosen[Len(ss)]
  BY <1>1 DEF FlattenSeq
<1> DEFINE P(n) == n \in 1 .. Len(ss) => f[n] = chosen[n]
           G == {n \in Nat : P(n)}
<1> HIDE DEF chosen
<1>6. \A i \in 1 .. Len(ss) : chosen[i] = IF i = 1 THEN ss[i] ELSE chosen[i - 1] \o ss[i]
  BY <1>4
<1>7. ASSUME NEW n \in Nat, P(n) PROVE P(n + 1)
  <2> SUFFICES ASSUME n + 1 \in 1 .. Len(ss) PROVE f[n + 1] = chosen[n + 1]
    OBVIOUS
  <2>1. CASE n = 0
    <3>1. n + 1 = 1
      BY <2>1
    <3>2. 1 \in 1 .. Len(ss)
      BY <1>1
    <3>3. f[1] = ss[1]
      BY <3>2 DEF Flattens
    <3>4. chosen[1] = ss[1]
      BY <3>2, <1>6
    <3>. QED
      BY <3>1, <3>3, <3>4
  <2>2. CASE n # 0
    <3>1. n \in 1 .. Len(ss) /\ (n + 1) - 1 = n /\ n + 1 # 1
      BY <2>2, <1>1
    <3>2. f[n] = chosen[n]
      BY <3>1, <1>7
    <3>3. f[n + 1] = f[n] \o ss[n + 1] /\ chosen[n + 1] = chosen[n] \o ss[n + 1]
      BY <3>1, <1>6 DEF Flattens
    <3>. QED
      BY <3>2, <3>3
  <2>. QED
    BY <2>1, <2>2
<1>8. P(Len(ss))
  <2>1. P(0)
    OBVIOUS
  <2> HIDE DEF P
  <2>2. 0 \in G /\ \A n \in Nat : n \in G => n + 1 \in G
    BY <2>1, <1>7
  <2>3. Nat \subseteq G
    BY <2>2, SetInduction
  <2>. QED
    BY <1>1, <2>3
<1>. QED
  BY <1>1, <1>5, <1>8

(* FlattenSeq by the last sequence: what it does to the empty sequence and *)
(* to one sequence more.                                                   *)
LEMMA FlattenAppend ==
  ASSUME NEW S, NEW ss \in Seq(Seq(S)), NEW t \in Seq(S)
  PROVE  /\ FlattenSeq(<<>>) = <<>>
         /\ FlattenSeq(ss) \in Seq(S)
         /\ FlattenSeq(Append(ss, t)) = FlattenSeq(ss) \o t
<1>1. FlattenSeq(<<>>) = <<>>
  BY EmptySeq DEF FlattenSeq
<1>2. PICK f \in [1 .. Len(ss) -> Seq(S)] : Flattens(f, ss)
  BY FlattenExists
<1>3. Len(ss) \in Nat /\ (ss # <<>> => Len(ss) # 0) /\ (ss = <<>> => Len(ss) = 0)
  BY EmptySeq, LenProperties
<1>4. ss # <<>> => FlattenSeq(ss) = f[Len(ss)]
  BY <1>2, FlattenIs
<1>5. FlattenSeq(ss) \in Seq(S)
  <2>1. CASE ss = <<>>
    BY <2>1, <1>1, EmptySeq
  <2>2. CASE ss # <<>>
    <3>1. Len(ss) \in 1 .. Len(ss)
      BY <2>2, <1>3
    <3>2. f[Len(ss)] \in Seq(S)
      BY <3>1
    <3>. QED
      BY <2>2, <3>2, <1>4
  <2>. QED
    BY <2>1, <2>2
<1> DEFINE all == Append(ss, t)
           n == Len(ss)
           g == [i \in 1 .. n + 1 |-> IF i = n + 1 THEN FlattenSeq(ss) \o t ELSE f[i]]
<1>6. /\ all \in Seq(Seq(S)) /\ all # <<>> /\ Len(all) = n + 1 /\ all[n + 1] = t
      /\ \A i \in 1 .. n : all[i] = ss[i]
  BY AppendProperties
<1> HIDE DEF all
<1>7. ASSUME NEW i \in 1 .. n + 1
      PROVE  g[i] = IF i = 1 THEN all[i] ELSE g[i - 1] \o all[i]
  <2>1. CASE i = n + 1 /\ n # 0
    <3>1. i # 1 /\ g[i - 1] = f[n] /\ ss # <<>>
      BY <2>1, <1>3
    <3>. QED
      BY <3>1, <2>1, <1>4, <1>6
  <2>2. CASE i = n + 1 /\ n = 0
    <3>1. ss = <<>> /\ i = 1
      BY <2>2, <1>3
    <3>2. FlattenSeq(ss) \o t = t
      BY <3>1, <1>1, ConcatEmptySeq
    <3>. QED
      BY <2>2, <3>1, <3>2, <1>6
  <2>3. CASE i # n + 1
    <3>1. i \in 1 .. n /\ g[i] = f[i] /\ (i # 1 => g[i - 1] = f[i - 1])
      BY <2>3, <1>3
    <3>. QED
      BY <3>1, <1>2, <1>6 DEF Flattens
  <2>. QED
    BY <2>1, <2>2, <2>3
<1>8. Flattens(g, all)
  BY <1>6, <1>7, <1>3 DEF Flattens
<1>9. FlattenSeq(all) = g[n + 1]
  BY <1>8, <1>6, FlattenIs
<1>. QED
  BY <1>1, <1>3, <1>5, <1>9 DEF all

(* Concatenation associates.  The equation has a name since an instance of *)
(* an equation between concatenations matches itself again.                *)
Associates(s, t, u) == (s \o t) \o u = s \o (t \o u)

LEMMA AssociatedOver ==
  ASSUME NEW S, NEW s \in Seq(S), NEW t \in Seq(S), NEW u \in Seq(S)
  PROVE  Associates(s, t, u)
<1>1. (s \o t) \o u = s \o (t \o u)
  BY ConcatAssociative
<1>. QED
  BY <1>1 DEF Associates

(* FlattenSeq by the first sequence.                                       *)
LEMMA FlattenHeadOfLength ==
  ASSUME NEW S, NEW m \in Nat
  PROVE  \A s \in Seq(Seq(S)) : Len(s) = m + 1 =>
           FlattenSeq(s) = Head(s) \o FlattenSeq(Tail(s))
<1> DEFINE P(n) == \A s \in Seq(Seq(S)) : Len(s) = n + 1 =>
                     FlattenSeq(s) = Head(s) \o FlattenSeq(Tail(s))
           G == {n \in Nat : P(n)}
<1>1. P(0)
  <2> SUFFICES ASSUME NEW s \in Seq(Seq(S)), Len(s) = 1
               PROVE  FlattenSeq(s) = Head(s) \o FlattenSeq(Tail(s))
    OBVIOUS
  <2>0. s # <<>>
    OBVIOUS
  <2>1. PICK r \in Seq(Seq(S)), t \in Seq(S) : s = Append(r, t)
    BY <2>0, SequenceEmptyOrAppend
  <2>2. r = <<>>
    BY <2>1, AppendProperties, EmptySeq, LenProperties
  <2>3. Head(s) = t /\ Tail(s) = <<>>
    BY <2>1, <2>2, HeadTailAppend
  <2>4. FlattenSeq(s) = FlattenSeq(<<>>) \o t /\ FlattenSeq(<<>>) = <<>>
    BY <2>1, <2>2, FlattenAppend
  <2>5. <<>> \o t = t /\ t \o <<>> = t
    BY ConcatEmptySeq
  <2>. QED
    BY <2>3, <2>4, <2>5
<1>2. ASSUME NEW n \in Nat, P(n) PROVE P(n + 1)
  <2> SUFFICES ASSUME NEW s \in Seq(Seq(S)), Len(s) = (n + 1) + 1
               PROVE  FlattenSeq(s) = Head(s) \o FlattenSeq(Tail(s))
    OBVIOUS
  <2>0. s # <<>>
    OBVIOUS
  <2>1. PICK r \in Seq(Seq(S)), t \in Seq(S) : s = Append(r, t)
    BY <2>0, SequenceEmptyOrAppend
  <2>2. r # <<>> /\ Len(r) = n + 1
    BY <2>1, AppendProperties, EmptySeq, LenProperties
  <2>3. Head(s) = Head(r) /\ Tail(s) = Append(Tail(r), t)
    BY <2>1, <2>2, HeadTailAppend
  <2>4. Head(r) \in Seq(S) /\ Tail(r) \in Seq(Seq(S))
    BY <2>2, HeadTailProperties
  <2>5. FlattenSeq(r) = Head(r) \o FlattenSeq(Tail(r))
    BY <1>2, <2>2
  <2>6. FlattenSeq(s) = FlattenSeq(r) \o t /\ FlattenSeq(Tail(s)) = FlattenSeq(Tail(r)) \o t
    BY <2>1, <2>3, <2>4, FlattenAppend
  <2>7. FlattenSeq(Tail(r)) \in Seq(S)
    BY <2>4, FlattenAppend
  <2> DEFINE first == Head(r)
             rest == FlattenSeq(Tail(r))
  <2>8. first \in Seq(S) /\ rest \in Seq(S)
    BY <2>4, <2>7
  <2> HIDE DEF first, rest
  <2>9. Associates(first, rest, t)
    BY <2>8, AssociatedOver
  <2>. QED
    BY <2>3, <2>5, <2>6, <2>9 DEF first, rest, Associates
<1>3. P(m)
  <2> HIDE DEF P
  <2>1. 0 \in G /\ \A n \in Nat : n \in G => n + 1 \in G
    BY <1>1, <1>2
  <2>2. Nat \subseteq G
    BY <2>1, SetInduction
  <2>. QED
    BY <2>2
<1>. QED
  BY <1>3

LEMMA FlattenHead ==
  ASSUME NEW S, NEW ss \in Seq(Seq(S)), ss # <<>>
  PROVE  FlattenSeq(ss) = Head(ss) \o FlattenSeq(Tail(ss))
<1>1. Len(ss) - 1 \in Nat /\ Len(ss) = (Len(ss) - 1) + 1
  BY EmptySeq
<1>. QED
  BY <1>1, FlattenHeadOfLength

(* Where the elements of a flattened sequence come from: their places are  *)
(* in order, and no element is missing.                                    *)
Places(p, ss) ==
  LET flat == FlattenSeq(ss)
  IN  /\ p \in [1 .. Len(flat) -> 1 .. Len(ss)]
      /\ \A k \in 1 .. Len(flat) : \E m \in 1 .. Len(ss[p[k]]) : flat[k] = ss[p[k]][m]
      /\ \A k, l \in 1 .. Len(flat) : k <= l => p[k] <= p[l]
      /\ \A i \in 1 .. Len(ss) : \A m \in 1 .. Len(ss[i]) :
           \E k \in 1 .. Len(flat) : p[k] = i /\ flat[k] = ss[i][m]

LEMMA PlacesAppend ==
  ASSUME NEW S, NEW r \in Seq(Seq(S)), NEW t \in Seq(S), NEW q, Places(q, r)
  PROVE  \E p : Places(p, Append(r, t))
<1> DEFINE n == Len(r)
           ss == Append(r, t)
           old == FlattenSeq(r)
           flat == FlattenSeq(ss)
           N == Len(old)
           T == Len(t)
           p == [k \in 1 .. N + T |-> IF k <= N THEN q[k] ELSE n + 1]
<1>1. /\ ss \in Seq(Seq(S)) /\ Len(ss) = n + 1 /\ ss[n + 1] = t /\ n \in Nat
      /\ \A i \in 1 .. n : ss[i] = r[i]
  BY AppendProperties, LenProperties
<1>2. old \in Seq(S) /\ flat = old \o t
  BY FlattenAppend
<1>3. N \in Nat /\ T \in Nat /\ Len(flat) = N + T
  BY <1>2, ConcatProperties, LenProperties
<1>4. \A k \in 1 .. N : flat[k] = old[k]
  <2>1. ASSUME NEW k \in 1 .. N PROVE flat[k] = old[k]
    <3>1. k \in 1 .. N + T /\ k <= N
      BY <1>3
    <3>. QED
      BY <1>2, <3>1, ConcatProperties
  <2>. QED
    BY <2>1
<1>5. ASSUME NEW m \in 1 .. T PROVE flat[N + m] = t[m] /\ N + m \in 1 .. N + T
  <2> DEFINE j == N + m
  <2>1. j \in 1 .. N + T /\ ~(j <= N) /\ j - N = m
    BY <1>3
  <2> HIDE DEF j
  <2>2. flat[j] = t[j - N]
    BY <1>2, <2>1, ConcatProperties
  <2>. QED
    BY <2>1, <2>2 DEF j
<1>6. /\ q \in [1 .. N -> 1 .. n]
      /\ \A k \in 1 .. N : \E m \in 1 .. Len(r[q[k]]) : old[k] = r[q[k]][m]
      /\ \A k, l \in 1 .. N : k <= l => q[k] <= q[l]
      /\ \A i \in 1 .. n : \A m \in 1 .. Len(r[i]) :
           \E k \in 1 .. N : q[k] = i /\ old[k] = r[i][m]
  BY DEF Places
<1> HIDE DEF n, ss, old, flat, N, T
<1>7. \A k \in 1 .. N + T : (k <= N => k \in 1 .. N /\ p[k] = q[k] /\ q[k] \in 1 .. n)
                              /\ (~(k <= N) =>
                                     p[k] = n + 1 /\ k - N \in 1 .. T /\ N + (k - N) = k)
  BY <1>3, <1>6
<1>8. p \in [1 .. N + T -> 1 .. n + 1]
  BY <1>1, <1>7
<1>9. \A k \in 1 .. N : k \in 1 .. N + T /\ k <= N
  BY <1>3
<1> HIDE DEF p
<1>10. ASSUME NEW k \in 1 .. N + T
       PROVE  \E m \in 1 .. Len(ss[p[k]]) : flat[k] = ss[p[k]][m]
  <2>1. CASE k <= N
    <3>1. k \in 1 .. N /\ p[k] = q[k] /\ q[k] \in 1 .. n
      BY <1>7, <2>1
    <3>2. PICK m \in 1 .. Len(r[q[k]]) : old[k] = r[q[k]][m]
      BY <1>6, <3>1
    <3>3. ss[p[k]] = r[q[k]] /\ flat[k] = old[k]
      BY <1>1, <1>4, <3>1
    <3>. QED
      BY <3>2, <3>3
  <2>2. CASE ~(k <= N)
    <3>1. p[k] = n + 1 /\ k - N \in 1 .. T /\ N + (k - N) = k
      BY <1>7, <2>2
    <3>2. ss[p[k]] = t /\ flat[k] = t[k - N]
      BY <1>1, <1>5, <3>1
    <3>. QED
      BY <3>1, <3>2 DEF T
  <2>. QED
    BY <2>1, <2>2
<1>11. ASSUME NEW k \in 1 .. N + T, NEW l \in 1 .. N + T, k <= l
       PROVE  p[k] <= p[l]
  <2>1. CASE l <= N
    <3>1. k <= N
      BY <1>3, <1>11, <2>1
    <3>2. k \in 1 .. N /\ p[k] = q[k] /\ l \in 1 .. N /\ p[l] = q[l]
      BY <1>7, <2>1, <3>1
    <3>. QED
      BY <1>6, <1>11, <3>2
  <2>2. CASE ~(l <= N)
    <3>1. p[l] = n + 1 /\ p[k] \in 1 .. n + 1
      BY <1>7, <1>8, <2>2
    <3>. QED
      BY <1>1, <3>1
  <2>. QED
    BY <2>1, <2>2
<1>12. ASSUME NEW i \in 1 .. n + 1, NEW m \in 1 .. Len(ss[i])
       PROVE  \E k \in 1 .. N + T : p[k] = i /\ flat[k] = ss[i][m]
  <2>1. CASE i = n + 1
    <3>1. ss[i] = t /\ m \in 1 .. T
      BY <1>1, <2>1 DEF T
    <3>2. flat[N + m] = t[m] /\ N + m \in 1 .. N + T /\ ~(N + m <= N)
      BY <1>3, <1>5, <3>1
    <3>3. p[N + m] = n + 1
      BY <1>7, <3>2
    <3>. QED
      BY <2>1, <3>1, <3>2, <3>3
  <2>2. CASE i # n + 1
    <3>1. i \in 1 .. n /\ ss[i] = r[i]
      BY <1>1, <2>2
    <3>2. PICK k \in 1 .. N : q[k] = i /\ old[k] = r[i][m]
      BY <1>6, <3>1
    <3>3. k \in 1 .. N + T /\ p[k] = q[k] /\ flat[k] = old[k]
      BY <1>4, <1>7, <1>9
    <3>. QED
      BY <3>1, <3>2, <3>3
  <2>. QED
    BY <2>1, <2>2
<1>13. Places(p, ss)
  BY <1>1, <1>3, <1>8, <1>10, <1>11, <1>12 DEF Places, flat
<1>. QED
  BY <1>13 DEF ss

LEMMA FlattenPlaces ==
  ASSUME NEW S, NEW ss \in Seq(Seq(S))
  PROVE  \E p : Places(p, ss)
<1> DEFINE P(n) == \A s \in Seq(Seq(S)) : Len(s) = n => \E p : Places(p, s)
           G == {n \in Nat : P(n)}
<1>1. P(0)
  <2> SUFFICES ASSUME NEW s \in Seq(Seq(S)), Len(s) = 0 PROVE \E p : Places(p, s)
    OBVIOUS
  <2>1. s = <<>>
    BY EmptySeq
  <2>2. FlattenSeq(<<>>) = <<>> /\ Len(<<>>) = 0
    BY EmptySeq DEF FlattenSeq
  <2> DEFINE none == [i \in 1 .. 0 |-> 0]
  <2>3. Places(none, <<>>)
    BY <2>2 DEF Places
  <2>. QED
    BY <2>1, <2>3
<1>2. ASSUME NEW n \in Nat, P(n) PROVE P(n + 1)
  <2> SUFFICES ASSUME NEW s \in Seq(Seq(S)), Len(s) = n + 1 PROVE \E p : Places(p, s)
    OBVIOUS
  <2>0. s # <<>>
    OBVIOUS
  <2>1. PICK r \in Seq(Seq(S)), t \in Seq(S) : s = Append(r, t)
    BY <2>0, SequenceEmptyOrAppend
  <2>2. Len(r) = n
    BY <2>1, AppendProperties, LenProperties
  <2>3. PICK q : Places(q, r)
    BY <1>2, <2>2
  <2>. QED
    BY <2>1, <2>3, PlacesAppend
<1>3. Len(ss) \in Nat
  BY LenProperties
<1>4. P(Len(ss))
  <2> HIDE DEF P
  <2>1. 0 \in G /\ \A n \in Nat : n \in G => n + 1 \in G
    BY <1>1, <1>2
  <2>2. Nat \subseteq G
    BY <2>1, SetInduction
  <2>. QED
    BY <1>3, <2>2
<1>. QED
  BY <1>4

(* Where each of the flattened sequences begins.                           *)
Offsets(st, ss) ==
  LET flat == FlattenSeq(ss)
  IN  /\ st \in [1 .. Len(ss) + 1 -> Nat]
      /\ st[1] = 0 /\ st[Len(ss) + 1] = Len(flat)
      /\ \A i \in 1 .. Len(ss) : st[i + 1] = st[i] + Len(ss[i])
      /\ \A i \in 1 .. Len(ss) : \A k \in 1 .. Len(ss[i]) : flat[st[i] + k] = ss[i][k]
      /\ \A i \in 1 .. Len(ss) : st[i + 1] <= Len(flat)

LEMMA OffsetsAppend ==
  ASSUME NEW S, NEW r \in Seq(Seq(S)), NEW t \in Seq(S), NEW q, Offsets(q, r)
  PROVE  \E st : Offsets(st, Append(r, t))
<1> DEFINE n == Len(r)
           ss == Append(r, t)
           old == FlattenSeq(r)
           flat == FlattenSeq(ss)
           N == Len(old)
           T == Len(t)
           st == [i \in 1 .. n + 2 |-> IF i <= n + 1 THEN q[i] ELSE N + T]
<1>1. /\ ss \in Seq(Seq(S)) /\ Len(ss) = n + 1 /\ ss[n + 1] = t /\ n \in Nat
      /\ \A i \in 1 .. n : ss[i] = r[i]
  BY AppendProperties, LenProperties
<1>2. old \in Seq(S) /\ flat = old \o t
  BY FlattenAppend
<1>3. N \in Nat /\ T \in Nat /\ Len(flat) = N + T
  BY <1>2, ConcatProperties, LenProperties
<1>4. \A k \in 1 .. N : flat[k] = old[k]
  <2>1. ASSUME NEW k \in 1 .. N PROVE flat[k] = old[k]
    <3>1. k \in 1 .. N + T /\ k <= N
      BY <1>3
    <3>. QED
      BY <1>2, <3>1, ConcatProperties
  <2>. QED
    BY <2>1
<1>5. ASSUME NEW m \in 1 .. T PROVE flat[N + m] = t[m]
  <2> DEFINE j == N + m
  <2>1. j \in 1 .. N + T /\ ~(j <= N) /\ j - N = m
    BY <1>3
  <2> HIDE DEF j
  <2>2. flat[j] = t[j - N]
    BY <1>2, <2>1, ConcatProperties
  <2>. QED
    BY <2>1, <2>2 DEF j
<1>6. /\ q \in [1 .. n + 1 -> Nat] /\ q[1] = 0 /\ q[n + 1] = N
      /\ \A i \in 1 .. n : q[i + 1] = q[i] + Len(r[i])
      /\ \A i \in 1 .. n : \A k \in 1 .. Len(r[i]) : old[q[i] + k] = r[i][k]
      /\ \A i \in 1 .. n : q[i + 1] <= N
  BY DEF Offsets
<1>7. \A i \in 1 .. n : Len(r[i]) \in Nat
  BY ElementOfSeq, LenProperties
<1> HIDE DEF n, ss, old, flat, N, T
<1>8. /\ st \in [1 .. n + 2 -> Nat] /\ (\A i \in 1 .. n + 1 : st[i] = q[i]) /\ st[n + 2] = N + T
  <2>1. \A i \in 1 .. n + 1 : q[i] \in Nat /\ i \in 1 .. n + 2 /\ i <= n + 1
    BY <1>1, <1>6
  <2>2. \A i \in 1 .. n + 2 : i <= n + 1 => i \in 1 .. n + 1
    BY <1>1
  <2>3. n + 2 \in 1 .. n + 2 /\ ~(n + 2 <= n + 1)
    BY <1>1
  <2>. QED
    BY <1>3, <2>1, <2>2, <2>3
<1> HIDE DEF st
<1>9. st[1] = 0
  BY <1>1, <1>6, <1>8
<1>10. ASSUME NEW i \in 1 .. n + 1
       PROVE  /\ st[i + 1] = st[i] + Len(ss[i]) /\ st[i + 1] <= N + T
              /\ \A k \in 1 .. Len(ss[i]) : flat[st[i] + k] = ss[i][k]
  <2>1. CASE i = n + 1
    <3>1. st[i] = N /\ i + 1 = n + 2 /\ st[i + 1] = N + T /\ ss[i] = t
      BY <1>1, <1>6, <1>8, <2>1
    <3>2. Len(ss[i]) = T
      BY <3>1 DEF T
    <3>. QED
      BY <1>3, <1>5, <3>1, <3>2
  <2>2. CASE i # n + 1
    <3>1. i \in 1 .. n /\ i \in 1 .. n + 1 /\ i + 1 \in 1 .. n + 1
      BY <1>1, <2>2
    <3>2. st[i] = q[i] /\ st[i + 1] = q[i + 1] /\ ss[i] = r[i]
      BY <1>1, <1>8, <3>1
    <3>3. q[i + 1] = q[i] + Len(r[i]) /\ q[i + 1] <= N /\ q[i + 1] \in Nat /\ q[i] \in Nat
      BY <1>6, <3>1
    <3>4. ASSUME NEW k \in 1 .. Len(r[i]) PROVE flat[q[i] + k] = r[i][k]
      <4> DEFINE a == q[i]
                 z == q[i + 1]
                 l == Len(r[i])
      <4>1. l \in Nat /\ a \in Nat /\ z = a + l /\ z <= N /\ k \in 1 .. l
        BY <1>7, <3>1, <3>3
      <4> HIDE DEF a, z, l
      <4>2. a + k \in 1 .. N
        BY <1>3, <4>1
      <4> USE DEF a
      <4>3. old[q[i] + k] = r[i][k]
        BY <1>6, <3>1
      <4>. QED
        BY <1>4, <4>2, <4>3
    <3>. QED
      BY <1>3, <3>2, <3>3, <3>4
  <2>. QED
    BY <2>1, <2>2
<1>11. Offsets(st, ss)
  <2>1. n + 1 + 1 = n + 2
    BY <1>1
  <2>. QED
    BY <1>1, <1>3, <1>8, <1>9, <1>10, <2>1 DEF Offsets, flat
<1>. QED
  BY <1>11 DEF ss

LEMMA FlattenOffsets ==
  ASSUME NEW S, NEW ss \in Seq(Seq(S))
  PROVE  \E st : Offsets(st, ss)
<1> DEFINE P(n) == \A s \in Seq(Seq(S)) : Len(s) = n => \E st : Offsets(st, s)
           G == {n \in Nat : P(n)}
<1>1. P(0)
  <2> SUFFICES ASSUME NEW s \in Seq(Seq(S)), Len(s) = 0 PROVE \E st : Offsets(st, s)
    OBVIOUS
  <2>1. s = <<>>
    BY EmptySeq
  <2>2. FlattenSeq(<<>>) = <<>> /\ Len(<<>>) = 0
    BY EmptySeq DEF FlattenSeq
  <2> DEFINE none == [i \in 1 .. 1 |-> 0]
  <2>3. Offsets(none, <<>>)
    BY <2>2 DEF Offsets
  <2>. QED
    BY <2>1, <2>3
<1>2. ASSUME NEW n \in Nat, P(n) PROVE P(n + 1)
  <2> SUFFICES ASSUME NEW s \in Seq(Seq(S)), Len(s) = n + 1 PROVE \E st : Offsets(st, s)
    OBVIOUS
  <2>0. s # <<>>
    OBVIOUS
  <2>1. PICK r \in Seq(Seq(S)), t \in Seq(S) : s = Append(r, t)
    BY <2>0, SequenceEmptyOrAppend
  <2>2. Len(r) = n
    BY <2>1, AppendProperties, LenProperties
  <2>3. PICK q : Offsets(q, r)
    BY <1>2, <2>2
  <2>. QED
    BY <2>1, <2>3, OffsetsAppend
<1>3. Len(ss) \in Nat
  BY LenProperties
<1>4. P(Len(ss))
  <2> HIDE DEF P
  <2>1. 0 \in G /\ \A n \in Nat : n \in G => n + 1 \in G
    BY <1>1, <1>2
  <2>2. Nat \subseteq G
    BY <2>1, SetInduction
  <2>. QED
    BY <1>3, <2>2
<1>. QED
  BY <1>4

-----------------------------------------------------------------------------
(* Concatenations of bytes: how they associate, and how they are taken     *)
(* apart again.                                                            *)
LEMMA Associated ==
  ASSUME NEW s \in Seq(Nat), NEW t \in Seq(Nat), NEW u \in Seq(Nat)
  PROVE  Associates(s, t, u)
BY AssociatedOver

Regroups(s, t, u, v) == ((s \o t) \o u) \o v = s \o (t \o (u \o v))

LEMMA Regroup ==
  ASSUME NEW s \in Seq(Nat), NEW t \in Seq(Nat), NEW u \in Seq(Nat), NEW v \in Seq(Nat)
  PROVE  Regroups(s, t, u, v)
<1> DEFINE st == s \o t
           uv == u \o v
<1>1. st \in Seq(Nat) /\ uv \in Seq(Nat)
  BY ConcatProperties
<1> HIDE DEF st, uv
<1>2. Associates(st, u, v)
  BY <1>1, Associated
<1>3. Associates(s, t, uv)
  BY <1>1, Associated
<1>. QED
  BY <1>2, <1>3 DEF st, uv, Associates, Regroups

(* The elements of a concatenation.                                        *)
LEMMA Joined ==
  ASSUME NEW a \in Seq(Nat), NEW b \in Seq(Nat)
  PROVE  /\ a \o b \in Seq(Nat) /\ Len(a \o b) = Len(a) + Len(b)
         /\ Len(a) \in Nat /\ Len(b) \in Nat
         /\ \A i \in 1 .. Len(a) : (a \o b)[i] = a[i]
         /\ \A i \in 1 .. Len(b) : (a \o b)[Len(a) + i] = b[i]
<1>1. a \o b \in Seq(Nat) /\ Len(a \o b) = Len(a) + Len(b) /\ Len(a) \in Nat /\ Len(b) \in Nat
  BY ConcatProperties, LenProperties
<1>2. ASSUME NEW i \in 1 .. Len(a) PROVE (a \o b)[i] = a[i]
  <2>1. i \in 1 .. Len(a) + Len(b) /\ i <= Len(a)
    BY <1>1
  <2>. QED
    BY <2>1, ConcatProperties
<1>3. ASSUME NEW i \in 1 .. Len(b) PROVE (a \o b)[Len(a) + i] = b[i]
  <2>1. Len(a) + i \in 1 .. Len(a) + Len(b) /\ ~(Len(a) + i <= Len(a)) /\ (Len(a) + i) - Len(a) = i
    BY <1>1
  <2>. QED
    BY <2>1, ConcatProperties
<1>. QED
  BY <1>1, <1>2, <1>3

(* A part of a concatenation read back.                                    *)
Parts(a, b, c) ==
  /\ SubSeq((a \o b) \o c, Len(a) + 1, Len(a) + Len(b)) = b
  /\ SubSeq((a \o b) \o c, Len(a) + Len(b) + 1, Len((a \o b) \o c)) = c

LEMMA PartsOf ==
  ASSUME NEW a \in Seq(Nat), NEW b \in Seq(Nat), NEW c \in Seq(Nat)
  PROVE  Parts(a, b, c)
<1> DEFINE ab == a \o b
           s == ab \o c
           p == Len(ab)
<1>1. /\ ab \in Seq(Nat) /\ p = Len(a) + Len(b) /\ Len(a) \in Nat /\ Len(b) \in Nat
      /\ \A i \in 1 .. Len(b) : ab[Len(a) + i] = b[i]
  BY Joined
<1> HIDE DEF ab
<1>2. /\ s \in Seq(Nat) /\ Len(s) = p + Len(c) /\ Len(c) \in Nat
      /\ \A i \in 1 .. p : s[i] = ab[i]
      /\ \A i \in 1 .. Len(c) : s[p + i] = c[i]
  BY <1>1, Joined
<1> HIDE DEF s, p
<1>3. SubSeq(s, Len(a) + 1, Len(a) + Len(b)) = b
  <2>1. Len(a) + Len(b) <= Len(s)
    BY <1>1, <1>2
  <2>2. ASSUME NEW i \in 1 .. Len(b) PROVE s[Len(a) + i] = b[i]
    <3>1. Len(a) + i \in 1 .. p
      BY <1>1
    <3>. QED
      BY <1>1, <1>2, <3>1
  <2>. QED
    BY <1>1, <1>2, <2>1, <2>2, Slice
<1>4. SubSeq(s, p + 1, p + Len(c)) = c
  <2>1. p \in Nat /\ p + Len(c) <= Len(s)
    BY <1>1, <1>2
  <2>. QED
    BY <1>2, <2>1, Slice
<1>. QED
  BY <1>1, <1>2, <1>3, <1>4 DEF ab, s, p, Parts

(* What was received has all of a field in front: reading the field leaves *)
(* the rest of the request.                                                *)
Divides(x, u, a, b) ==
  LET w == SubSeq(x, Len(a) + 1, Len(x))
  IN  SubSeq(x, 1, Len(a)) = a /\ w \in Seq(Nat) /\ w \o u = b /\ x = a \o w

LEMMA Divided ==
  ASSUME NEW x \in Seq(Nat), NEW u \in Seq(Nat), NEW a \in Seq(Nat), NEW b \in Seq(Nat),
         x \o u = a \o b, Len(a) <= Len(x)
  PROVE  Divides(x, u, a, b)
<1> DEFINE n == Len(a)
           m == Len(x)
           w == SubSeq(x, n + 1, m)
<1>1. n \in Nat /\ m \in Nat /\ n <= m
  BY LenProperties
<1>2. ASSUME NEW k \in 1 .. n PROVE x[k] = a[k]
  <2>1. k \in 1 .. m
    BY <1>1
  <2>2. (x \o u)[k] = x[k] /\ (a \o b)[k] = a[k]
    BY <2>1, Joined
  <2>. QED
    BY <2>2
<1>3. SubSeq(x, 1, n) = a
  <2>1. \A k \in 1 .. n : x[0 + k] = a[k]
    BY <1>1, <1>2
  <2>2. 0 + n <= m /\ 0 + 1 = 1 /\ 0 + n = n
    BY <1>1
  <2>3. SubSeq(x, 0 + 1, 0 + n) = a
    BY <2>1, <2>2, Slice
  <2>. QED
    BY <2>2, <2>3
<1>4. w \in Seq(Nat)
  <2>1. n + 1 \in 1 .. m + 1
    BY <1>1
  <2>. QED
    BY <2>1, Suffix
<1>5. x = a \o w
  <2>1. 1 \in 1 .. m + 1 /\ n \in 1 - 1 .. m /\ m \in n .. m
    BY <1>1
  <2>2. SubSeq(x, 1, n) \o SubSeq(x, n + 1, m) = SubSeq(x, 1, m)
    BY <2>1, ConcatAdjacentSubSeq
  <2>. QED
    BY <1>3, <2>2, SubSeqFull
<1> HIDE DEF w
<1>6. a \o (w \o u) = a \o b
  <2>1. Associates(a, w, u)
    BY <1>4, Associated
  <2>. QED
    BY <1>5, <2>1 DEF Associates
<1>7. w \o u \in Seq(Nat)
  BY <1>4, ConcatProperties
<1>8. w \o u = b
  BY <1>6, <1>7, ConcatSimplifications
<1>. QED
  BY <1>3, <1>4, <1>5, <1>8 DEF Divides, w

(* A sequence from a position on, cut at a later one.                      *)
LEMMA SendsOn ==
  ASSUME NEW w \in Seq(Nat), NEW k \in Nat, NEW n \in Nat, k <= n, n <= Len(w)
  PROVE  /\ SubSeq(w, k + 1, n) \in Seq(Nat) /\ SubSeq(w, n + 1, Len(w)) \in Seq(Nat)
         /\ SubSeq(w, k + 1, n) \o SubSeq(w, n + 1, Len(w)) = SubSeq(w, k + 1, Len(w))
<1> DEFINE m == Len(w)
<1>1. /\ m \in Nat /\ k + 1 \in 1 .. m + 1 /\ n \in (k + 1) - 1 .. m
      /\ m \in n .. m /\ n + 1 \in 1 .. m + 1
  BY LenProperties
<1>2. \A i \in k + 1 .. n : w[i] \in Nat
  BY <1>1, ElementOfSeq
<1>3. SubSeq(w, k + 1, n) \in Seq(Nat)
  BY <1>1, <1>2, SubSeqProperties
<1>4. SubSeq(w, n + 1, m) \in Seq(Nat)
  BY <1>1, Suffix
<1>. QED
  BY <1>1, <1>3, <1>4, ConcatAdjacentSubSeq

(* One, two and three sequences flattened.                                 *)
Flattened(a, b, c) ==
  /\ FlattenSeq(<<a>>) = a
  /\ FlattenSeq(<<a, b>>) = a \o b
  /\ FlattenSeq(<<a, b, c>>) = (a \o b) \o c

LEMMA FlattenFew ==
  ASSUME NEW a \in Seq(Nat), NEW b \in Seq(Nat), NEW c \in Seq(Nat)
  PROVE  Flattened(a, b, c)
<1>1. <<>> \in Seq(Seq(Nat)) /\ <<a>> \in Seq(Seq(Nat)) /\ <<a, b>> \in Seq(Seq(Nat))
  OBVIOUS
<1>2. Append(<<>>, a) = <<a>>
  <2> DEFINE s == Append(<<>>, a)
             t == <<a>>
  <2>1. s \in Seq(Seq(Nat)) /\ Len(s) = 1 /\ s[1] = a
    BY <1>1, AppendProperties, EmptySeq
  <2>2. t \in Seq(Seq(Nat)) /\ Len(t) = 1 /\ t[1] = a
    OBVIOUS
  <2> HIDE DEF s, t
  <2>3. \A i \in 1 .. Len(s) : s[i] = t[i]
    BY <2>1, <2>2
  <2>4. s \in Seq(Seq(Nat)) /\ t \in Seq(Seq(Nat)) /\ Len(s) = Len(t)
    BY <2>1, <2>2
  <2>5. s = t
    BY <2>3, <2>4, SeqEqual
  <2>. QED
    BY <2>5 DEF s, t
<1>3. Append(<<a>>, b) = <<a, b>>
  <2> DEFINE s == Append(<<a>>, b)
             t == <<a, b>>
  <2>1. s \in Seq(Seq(Nat)) /\ Len(s) = 2 /\ s[1] = a /\ s[2] = b
    BY <1>1, AppendProperties
  <2>2. t \in Seq(Seq(Nat)) /\ Len(t) = 2 /\ t[1] = a /\ t[2] = b
    OBVIOUS
  <2> HIDE DEF s, t
  <2>3. \A i \in 1 .. Len(s) : s[i] = t[i]
    BY <2>1, <2>2
  <2>4. s \in Seq(Seq(Nat)) /\ t \in Seq(Seq(Nat)) /\ Len(s) = Len(t)
    BY <2>1, <2>2
  <2>5. s = t
    BY <2>3, <2>4, SeqEqual
  <2>. QED
    BY <2>5 DEF s, t
<1>4. Append(<<a, b>>, c) = <<a, b, c>>
  <2> DEFINE s == Append(<<a, b>>, c)
             t == <<a, b, c>>
  <2>1. s \in Seq(Seq(Nat)) /\ Len(s) = 3 /\ s[1] = a /\ s[2] = b /\ s[3] = c
    BY <1>1, AppendProperties
  <2>2. t \in Seq(Seq(Nat)) /\ Len(t) = 3 /\ t[1] = a /\ t[2] = b /\ t[3] = c
    OBVIOUS
  <2> HIDE DEF s, t
  <2>3. \A i \in 1 .. Len(s) : s[i] = t[i]
    BY <2>1, <2>2
  <2>4. s \in Seq(Seq(Nat)) /\ t \in Seq(Seq(Nat)) /\ Len(s) = Len(t)
    BY <2>1, <2>2
  <2>5. s = t
    BY <2>3, <2>4, SeqEqual
  <2>. QED
    BY <2>5 DEF s, t
<1>5. FlattenSeq(<<a>>) = FlattenSeq(<<>>) \o a /\ FlattenSeq(<<>>) = <<>>
  BY <1>1, <1>2, FlattenAppend
<1>6. FlattenSeq(<<a, b>>) = FlattenSeq(<<a>>) \o b
  BY <1>1, <1>3, FlattenAppend
<1>7. FlattenSeq(<<a, b, c>>) = FlattenSeq(<<a, b>>) \o c
  BY <1>1, <1>4, FlattenAppend
<1>. QED
  BY <1>5, <1>6, <1>7, ConcatEmptySeq DEF Flattened

(* What follows anything is its suffix.                                    *)
LEMMA IsSuffixOf ==
  ASSUME NEW u \in Seq(Nat), NEW s \in Seq(Nat)
  PROVE  IsSuffix(s, u \o s)
<1> DEFINE t == u \o s
           n == Len(s)
           m == Len(t)
           rs == Reverse(s)
           rt == Reverse(t)
<1>1. /\ t \in Seq(Nat) /\ m = Len(u) + n /\ n \in Nat /\ Len(u) \in Nat
      /\ \A i \in 1 .. n : t[Len(u) + i] = s[i]
  BY Joined
<1>2. n <= m /\ m \in Nat
  <2> HIDE DEF n, m
  <2>. QED
    BY <1>1
<1>3. rs \in Seq(Nat) /\ Len(rs) = n /\ \A i \in 1 .. n : rs[i] = s[n - i + 1]
  <2>1. \A i \in 1 .. n : s[n - i + 1] \in Nat
    <3>1. \A i \in 1 .. n : n - i + 1 \in 1 .. n
      BY <1>1
    <3>. QED
      BY <3>1, ElementOfSeq
  <2>. QED
    BY <1>1, <2>1 DEF Reverse
<1>4. rt \in Seq(Nat) /\ Len(rt) = m /\ \A i \in 1 .. m : rt[i] = t[m - i + 1]
  <2> HIDE DEF t
  <2>1. \A i \in 1 .. m : t[m - i + 1] \in Nat
    <3>1. \A i \in 1 .. m : m - i + 1 \in 1 .. m
      BY <1>2
    <3>. QED
      BY <1>1, <3>1, ElementOfSeq
  <2>. QED
    BY <1>1, <1>2, <2>1 DEF Reverse
<1> HIDE DEF t, n, m, rs, rt
<1>5. ASSUME NEW i \in 1 .. n PROVE rt[0 + i] = rs[i]
  <2> DEFINE j == n - i + 1
  <2>1. i \in 1 .. m /\ j \in 1 .. n /\ m - i + 1 = Len(u) + j /\ 0 + i = i
    BY <1>1, <1>2
  <2> HIDE DEF j
  <2>2. rt[i] = t[Len(u) + j] /\ t[Len(u) + j] = s[j]
    BY <1>1, <1>4, <2>1
  <2>3. rs[i] = s[j]
    BY <1>3 DEF j
  <2>. QED
    BY <2>1, <2>2, <2>3
<1>6. SubSeq(rt, 1, n) = rs
  <2>1. 0 + n <= m /\ 0 + 1 = 1 /\ 0 + n = n
    BY <1>1, <1>2
  <2>2. SubSeq(rt, 0 + 1, 0 + n) = rs
    BY <1>3, <1>4, <1>5, <2>1, Slice
  <2>. QED
    BY <2>1, <2>2
<1>7. SubSeq(rs, 1, n) = rs
  BY <1>3, SubSeqFull
<1>. QED
  BY <1>2, <1>3, <1>4, <1>6, <1>7 DEF IsSuffix, IsPrefix, rs, rt, t

(* The first few of some sequences are no longer than all of them.         *)
LEMMA FlattenPrefix ==
  ASSUME NEW S, NEW ss \in Seq(Seq(S)), NEW k \in 1 .. Len(ss)
  PROVE  /\ Len(FlattenSeq(SubSeq(ss, 1, k))) \in Nat
         /\ Len(FlattenSeq(SubSeq(ss, 1, k))) <= Len(FlattenSeq(ss))
<1> DEFINE upto(s, i) == Len(FlattenSeq(SubSeq(s, 1, i)))
           P(n) == \A s \in Seq(Seq(S)) : Len(s) = n =>
                     \A i \in 1 .. n : upto(s, i) \in Nat /\ upto(s, i) <= Len(FlattenSeq(s))
           G == {n \in Nat : P(n)}
<1>1. P(0)
  OBVIOUS
<1>2. ASSUME NEW n \in Nat, P(n) PROVE P(n + 1)
  <2> SUFFICES ASSUME NEW s \in Seq(Seq(S)), Len(s) = n + 1, NEW i \in 1 .. n + 1
               PROVE  upto(s, i) \in Nat /\ upto(s, i) <= Len(FlattenSeq(s))
    OBVIOUS
  <2>0. s # <<>>
    OBVIOUS
  <2>1. PICK r \in Seq(Seq(S)), t \in Seq(S) : s = Append(r, t)
    BY <2>0, SequenceEmptyOrAppend
  <2>2. Len(r) = n
    BY <2>1, AppendProperties, LenProperties
  <2>3. FlattenSeq(r) \in Seq(S) /\ FlattenSeq(s) = FlattenSeq(r) \o t
    BY <2>1, FlattenAppend
  <2>4. /\ Len(FlattenSeq(s)) = Len(FlattenSeq(r)) + Len(t)
        /\ Len(FlattenSeq(r)) \in Nat /\ Len(t) \in Nat
    BY <2>3, ConcatProperties, LenProperties
  <2>5. CASE i = n + 1
    <3>1. SubSeq(s, 1, i) = s
      BY <2>5, SubSeqFull
    <3>2. Len(FlattenSeq(s)) \in Nat
      BY <2>4
    <3>3. Len(FlattenSeq(s)) <= Len(FlattenSeq(s))
      BY <3>2
    <3>. QED
      BY <3>1, <3>2, <3>3
  <2>6. CASE i # n + 1
    <3>1. i \in 1 .. n
      BY <2>6
    <3>2. SubSeq(s, 1, i) = SubSeq(r, 1, i)
      <4>1. s = r \o <<t>> /\ <<t>> \in Seq(Seq(S)) /\ 1 \in 1 .. Len(r) /\ i \in 1 .. Len(r)
        BY <2>1, <2>2, <3>1, AppendIsConcat
      <4>. QED
        BY <4>1, SubSeqOfConcat1
    <3>3. upto(r, i) \in Nat /\ upto(r, i) <= Len(FlattenSeq(r))
      BY <1>2, <2>2, <3>1
    <3> DEFINE u == upto(s, i)
    <3>4. u \in Nat /\ u <= Len(FlattenSeq(r))
      BY <3>2, <3>3
    <3> HIDE DEF u
    <3>5. u <= Len(FlattenSeq(s))
      BY <2>4, <3>4
    <3>. QED
      BY <3>4, <3>5 DEF u
  <2>. QED
    BY <2>5, <2>6
<1>3. Len(ss) \in Nat
  BY LenProperties
<1>4. P(Len(ss))
  <2> HIDE DEF P
  <2>1. 0 \in G /\ \A n \in Nat : n \in G => n + 1 \in G
    BY <1>1, <1>2
  <2>2. Nat \subseteq G
    BY <2>1, SetInduction
  <2>. QED
    BY <1>3, <2>2
<1>. QED
  BY <1>4

-----------------------------------------------------------------------------
(* A function that goes on to a later place, or stops, exists.             *)
Walks(f, S, Stop, val, next) == f = [q \in S |-> IF q \in Stop THEN val[q] ELSE f[next[q]]]

LEMMA Walk ==
  ASSUME NEW S \in SUBSET Nat, NEW B \in Nat, \A q \in S : q <= B,
         NEW Stop \in SUBSET S, NEW val,
         NEW next \in [S \ Stop -> S], \A q \in S \ Stop : next[q] > q
  PROVE  \E f : Walks(f, S, Stop, val, next)
<1> DEFINE V == {val[q] : q \in S} \cup {0}
           m == [q \in S |-> B - q]
           Def(h, q) == IF q \in Stop THEN val[q] ELSE h[next[q]]
           F == [q \in S |-> [h \in [S -> V] |-> Def(h, q)]]
<1>0. V # {}
  OBVIOUS
<1>1. m \in [S -> Nat] /\ \A q \in S : m[q] <= B
  OBVIOUS
<1>2. ASSUME NEW q \in S, NEW h \in [S -> V] PROVE Def(h, q) \in V
  <2>1. q \in Stop => val[q] \in V
    OBVIOUS
  <2> HIDE DEF V
  <2>. QED
    BY <2>1
<1>3. ASSUME NEW q \in S, NEW f \in [S -> V], NEW g \in [S -> V],
             \A r \in S : m[r] < m[q] => f[r] = g[r]
      PROVE  Def(f, q) = Def(g, q)
  <2>1. CASE q \notin Stop
    <3>1. /\ next[q] \in S /\ next[q] > q /\ q \in Nat /\ next[q] \in Nat
          /\ next[q] <= B /\ q <= B
      BY <2>1
    <3>2. m[next[q]] = B - next[q] /\ m[q] = B - q
      BY <3>1
    <3>3. m[next[q]] < m[q]
      BY <3>1, <3>2
    <3>. QED
      BY <1>3, <2>1, <3>1, <3>3
  <2>. QED
    BY <2>1
<1>4. F \in [S -> [[S -> V] -> V]]
  <2> HIDE DEF Def, V
  <2>. QED
    BY <1>2
<1>5. \A q \in S : \A h \in [S -> V] : F[q][h] = Def(h, q)
  OBVIOUS
<1> HIDE DEF F, m, Def, V
<1>6. ASSUME NEW q \in S, NEW f \in [S -> V], NEW g \in [S -> V],
             \A r \in S : m[r] < m[q] => f[r] = g[r]
      PROVE  F[q][f] = F[q][g]
  <2>1. Def(f, q) = Def(g, q)
    BY <1>3, <1>6
  <2>. QED
    BY <1>5, <2>1
<1>7. Recursive(S, V, m, B, F)
  BY <1>0, <1>1, <1>4, <1>6 DEF Recursive
<1>8. PICK f \in [S -> V] : \A q \in S : f[q] = F[q][f]
  <2>1. Solvable(S, V, F)
    BY <1>7, Recursion
  <2>. QED
    BY <2>1 DEF Solvable
<1>9. \A q \in S : f[q] = Def(f, q)
  BY <1>5, <1>8
<1>10. f = [q \in S |-> Def(f, q)]
  BY <1>8, <1>9
<1>. QED
  BY <1>10 DEF Def, Walks

(* A function that makes each value from the one before exists.            *)
StepsFrom(f, n, V, base, step) ==
  f \in [0 .. n -> V] /\ f[0] = base /\ \A i \in 1 .. n : f[i] = step[i][f[i - 1]]

LEMMA Stepwise ==
  ASSUME NEW n \in Nat, NEW V, NEW base \in V, NEW step \in [1 .. n -> [V -> V]]
  PROVE  \E f : StepsFrom(f, n, V, base, step)
<1> DEFINE P(k) == k <= n => \E f \in [0 .. k -> V] :
                     f[0] = base /\ \A i \in 1 .. k : f[i] = step[i][f[i - 1]]
           G == {k \in Nat : P(k)}
<1>1. P(0)
  <2> DEFINE f == [i \in 0 .. 0 |-> base]
  <2>1. f \in [0 .. 0 -> V] /\ f[0] = base /\ \A i \in 1 .. 0 : f[i] = step[i][f[i - 1]]
    OBVIOUS
  <2>. QED
    BY <2>1
<1>2. ASSUME NEW k \in Nat, P(k) PROVE P(k + 1)
  <2> SUFFICES ASSUME k + 1 <= n PROVE \E f \in [0 .. k + 1 -> V] :
                 f[0] = base /\ \A i \in 1 .. k + 1 : f[i] = step[i][f[i - 1]]
    OBVIOUS
  <2>1. PICK f \in [0 .. k -> V] : f[0] = base /\ \A i \in 1 .. k : f[i] = step[i][f[i - 1]]
    BY <1>2
  <2> DEFINE g == [i \in 0 .. k + 1 |-> IF i = k + 1 THEN step[k + 1][f[k]] ELSE f[i]]
  <2>2. f[k] \in V /\ step[k + 1] \in [V -> V]
    OBVIOUS
  <2>3. g \in [0 .. k + 1 -> V] /\ g[0] = base
    BY <2>1, <2>2
  <2>4. ASSUME NEW i \in 1 .. k + 1 PROVE g[i] = step[i][g[i - 1]]
    <3>1. g[i - 1] = f[i - 1]
      OBVIOUS
    <3>2. CASE i = k + 1
      <4>1. g[i] = step[k + 1][f[k]] /\ i - 1 = k
        BY <3>2
      <4> HIDE DEF g
      <4>. QED
        BY <3>1, <3>2, <4>1
    <3>3. CASE i # k + 1
      <4>1. i \in 1 .. k /\ g[i] = f[i]
        BY <3>3
      <4> HIDE DEF g
      <4>. QED
        BY <2>1, <3>1, <4>1
    <3>. QED
      BY <3>2, <3>3
  <2>. QED
    BY <2>3, <2>4
<1>3. P(n)
  <2> HIDE DEF P
  <2>1. 0 \in G /\ \A k \in Nat : k \in G => k + 1 \in G
    BY <1>1, <1>2
  <2>2. Nat \subseteq G
    BY <2>1, SetInduction
  <2>. QED
    BY <2>2
<1>. QED
  BY <1>3 DEF StepsFrom

(* Mapping the elements of a sequence and flattening, taken apart. *)
Mapped(f, s) == FlattenSeq([i \in DOMAIN s |-> f[s[i]]])

MapsOn(f, s, S) ==
  /\ Mapped(f, s) \in Seq(S) /\ Mapped(f, <<>>) = <<>>
  /\ s # <<>> => Mapped(f, s) = f[Head(s)] \o Mapped(f, Tail(s))

LEMMA MapHead ==
  ASSUME NEW T, NEW S, NEW f \in [T -> Seq(S)], NEW s \in Seq(T)
  PROVE  MapsOn(f, s, S)
<1> DEFINE map(t) == [i \in DOMAIN t |-> f[t[i]]]
           flat(t) == FlattenSeq(map(t))
<1>1. ASSUME NEW t \in Seq(T) PROVE map(t) \in Seq(Seq(S)) /\ Len(map(t)) = Len(t)
  <2>1. DOMAIN t = 1 .. Len(t) /\ Len(t) \in Nat /\ \A i \in 1 .. Len(t) : t[i] \in T
    BY LenProperties, ElementOfSeq
  <2>2. \A i \in 1 .. Len(t) : f[t[i]] \in Seq(S)
    BY <2>1
  <2>3. map(t) \in [1 .. Len(t) -> Seq(S)]
    BY <2>1, <2>2
  <2>. QED
    BY <2>1, <2>2, <2>3
<1>2. flat(s) \in Seq(S)
  <2> HIDE DEF map
  <2>. QED
    BY <1>1, FlattenAppend
<1>3. <<>> \in Seq(T) /\ map(<<>>) = <<>>
  <2>1. <<>> \in Seq(T) /\ Len(<<>>) = 0
    BY EmptySeq
  <2>2. map(<<>>) \in Seq(Seq(S)) /\ Len(map(<<>>)) = 0
    BY <1>1, <2>1
  <2> HIDE DEF map
  <2>. QED
    BY <2>1, <2>2, EmptySeq
<1>4. flat(<<>>) = <<>>
  BY <1>3, FlattenAppend DEF FlattenSeq
<1>5. ASSUME s # <<>> PROVE flat(s) = f[Head(s)] \o flat(Tail(s))
  <2>1. Tail(s) \in Seq(T) /\ Len(s) \in Nat \ {0} /\ Head(s) = s[1] /\ Len(Tail(s)) = Len(s) - 1
        /\ \A i \in 1 .. Len(s) - 1 : Tail(s)[i] = s[i + 1]
    BY <1>5, HeadTailProperties, EmptySeq, LenProperties
  <2>2. map(s) \in Seq(Seq(S)) /\ Len(map(s)) = Len(s) /\ map(Tail(s)) \in Seq(Seq(S))
        /\ Len(map(Tail(s))) = Len(s) - 1
    BY <1>1, <2>1
  <2>3. /\ \A i \in 1 .. Len(s) : map(s)[i] = f[s[i]]
        /\ \A i \in 1 .. Len(s) - 1 : map(Tail(s))[i] = f[Tail(s)[i]]
    BY <2>1, LenProperties
  <2> HIDE DEF map
  <2>4. map(s) # <<>> /\ Head(map(s)) = f[Head(s)]
    BY <2>1, <2>2, <2>3, EmptySeq
  <2>5. /\ Tail(map(s)) \in Seq(Seq(S)) /\ Len(Tail(map(s))) = Len(s) - 1
        /\ \A i \in 1 .. Len(s) - 1 : Tail(map(s))[i] = map(s)[i + 1]
    BY <2>2, <2>4, HeadTailProperties
  <2>6. Tail(map(s)) = map(Tail(s))
    <3>1. \A i \in 1 .. Len(s) - 1 : Tail(map(s))[i] = map(Tail(s))[i]
      BY <2>1, <2>3, <2>5
    <3>. QED
      BY <2>1, <2>2, <2>5, <3>1, SeqEqual
  <2>7. FlattenSeq(map(s)) = Head(map(s)) \o FlattenSeq(Tail(map(s)))
    BY <2>2, <2>4, FlattenHead
  <2>. QED
    BY <2>4, <2>6, <2>7
<1>. QED
  BY <1>2, <1>4, <1>5 DEF Mapped, MapsOn

-----------------------------------------------------------------------------
(* s lies in data from p on, as far as data goes.                          *)
Lies(s, data, p) == \A k \in 1 .. Len(s) : p + k <= Len(data) => data[p + k] = s[k]

LEMMA LiesParts ==
  ASSUME NEW a \in Seq(Nat), NEW b \in Seq(Nat), NEW data \in Seq(Nat), NEW p \in Nat,
         Lies(a \o b, data, p)
  PROVE  Lies(a, data, p) /\ Lies(b, data, p + Len(a))
<1> DEFINE n == Len(a)
           m == Len(b)
           s == a \o b
<1>1. /\ n \in Nat /\ m \in Nat /\ Len(s) = n + m
      /\ \A i \in 1 .. n : s[i] = a[i]
      /\ \A i \in 1 .. m : s[n + i] = b[i]
  BY Joined
<1>2. \A k \in 1 .. Len(s) : p + k <= Len(data) => data[p + k] = s[k]
  BY DEF Lies
<1>3. Len(data) \in Nat
  BY LenProperties
<1> HIDE DEF s
<1>4. ASSUME NEW k \in 1 .. n, p + k <= Len(data) PROVE data[p + k] = a[k]
  BY <1>1, <1>2, <1>4
<1>5. ASSUME NEW k \in 1 .. m, p + n + k <= Len(data) PROVE data[p + n + k] = b[k]
  <2>1. n + k \in 1 .. Len(s) /\ p + n + k = p + (n + k)
    BY <1>1
  <2> HIDE DEF n
  <2>2. data[p + (n + k)] = s[n + k]
    BY <1>1, <1>2, <1>5, <2>1
  <2>. QED
    BY <1>1, <2>1, <2>2
<1>. QED
  BY <1>4, <1>5 DEF Lies

(* ... and all of it, where data goes far enough.                          *)
LEMMA LiesWhole ==
  ASSUME NEW s \in Seq(Nat), NEW data \in Seq(Nat), NEW p \in Nat, Lies(s, data, p),
         p + Len(s) <= Len(data)
  PROVE  SubSeq(data, p + 1, p + Len(s)) = s
<1>1. \A k \in 1 .. Len(s) : data[p + k] = s[k]
  BY LenProperties DEF Lies
<1>. QED
  BY <1>1, Slice

(* Five sequences one after the other.                                     *)
InARow(a, b, c, d, e) == a \o b \o c \o d \o e

FollowEachOther(a, b, c, d, e) ==
  /\ InARow(a, b, c, d, e) \in Seq(Nat)
  /\ Len(InARow(a, b, c, d, e)) = Len(a) + Len(b) + Len(c) + Len(d) + Len(e)
  /\ \A data \in Seq(Nat), p \in Nat :
       Lies(InARow(a, b, c, d, e), data, p) =>
         /\ Lies(a, data, p)
         /\ Lies(b, data, p + Len(a))
         /\ Lies(c, data, p + Len(a) + Len(b))
         /\ Lies(d, data, p + Len(a) + Len(b) + Len(c))
         /\ Lies(e, data, p + Len(a) + Len(b) + Len(c) + Len(d))

LEMMA FiveJoined ==
  ASSUME NEW a \in Seq(Nat), NEW b \in Seq(Nat), NEW c \in Seq(Nat), NEW d \in Seq(Nat),
         NEW e \in Seq(Nat)
  PROVE  FollowEachOther(a, b, c, d, e)
<1> DEFINE ab == a \o b
           abc == ab \o c
           abcd == abc \o d
           all == abcd \o e
<1>1. ab \in Seq(Nat) /\ Len(ab) = Len(a) + Len(b)
  BY Joined
<1>2. \A data \in Seq(Nat), p \in Nat :
        Lies(ab, data, p) => Lies(a, data, p) /\ Lies(b, data, p + Len(a))
  BY LiesParts
<1> HIDE DEF ab
<1>3. abc \in Seq(Nat) /\ Len(abc) = Len(ab) + Len(c)
  BY <1>1, Joined
<1>4. \A data \in Seq(Nat), p \in Nat :
        Lies(abc, data, p) => Lies(ab, data, p) /\ Lies(c, data, p + Len(ab))
  BY <1>1, LiesParts
<1> HIDE DEF abc
<1>5. abcd \in Seq(Nat) /\ Len(abcd) = Len(abc) + Len(d)
  BY <1>3, Joined
<1>6. \A data \in Seq(Nat), p \in Nat :
        Lies(abcd, data, p) => Lies(abc, data, p) /\ Lies(d, data, p + Len(abc))
  BY <1>3, LiesParts
<1> HIDE DEF abcd
<1>7. all \in Seq(Nat) /\ Len(all) = Len(abcd) + Len(e)
  BY <1>5, Joined
<1>8. \A data \in Seq(Nat), p \in Nat :
        Lies(all, data, p) => Lies(abcd, data, p) /\ Lies(e, data, p + Len(abcd))
  BY <1>5, LiesParts
<1>9. all = InARow(a, b, c, d, e)
  BY DEF all, abcd, abc, ab, InARow
<1> HIDE DEF all
<1> DEFINE la == Len(a)
           lb == Len(b)
           lc == Len(c)
           ld == Len(d)
           le == Len(e)
<1>10. la \in Nat /\ lb \in Nat /\ lc \in Nat /\ ld \in Nat /\ le \in Nat
  BY LenProperties
<1>11. Len(ab) = la + lb /\ Len(abc) = la + lb + lc /\ Len(abcd) = la + lb + lc + ld
       /\ Len(all) = la + lb + lc + ld + le
  BY <1>1, <1>3, <1>5, <1>7
<1> HIDE DEF la, lb, lc, ld, le
<1>12. ASSUME NEW data \in Seq(Nat), NEW p \in Nat, Lies(all, data, p)
       PROVE  /\ Lies(a, data, p)
              /\ Lies(b, data, p + la)
              /\ Lies(c, data, p + la + lb)
              /\ Lies(d, data, p + la + lb + lc)
              /\ Lies(e, data, p + la + lb + lc + ld)
  <2>1. Lies(abcd, data, p) /\ Lies(e, data, p + Len(abcd))
    BY <1>8, <1>12
  <2>2. Lies(abc, data, p) /\ Lies(d, data, p + Len(abc))
    BY <1>6, <2>1
  <2>3. Lies(ab, data, p) /\ Lies(c, data, p + Len(ab))
    BY <1>4, <2>2
  <2>4. Lies(a, data, p) /\ Lies(b, data, p + la)
    BY <1>2, <2>3 DEF la
  <2>5. /\ p + Len(ab) = p + la + lb /\ p + Len(abc) = p + la + lb + lc
        /\ p + Len(abcd) = p + la + lb + lc + ld
    BY <1>10, <1>11
  <2>. QED
    BY <2>1, <2>2, <2>3, <2>4, <2>5
<1>. QED
  BY <1>7, <1>9, <1>11, <1>12 DEF la, lb, lc, ld, le, FollowEachOther

(* The numbers read.                                                       *)
LEMMA NumberIs ==
  ASSUME NEW data \in Seq(Nat), NEW p \in Nat, NEW w \in Nat, p + w <= Len(data)
  PROVE  /\ Number(data, p, w) \in Nat
         /\ w = 1 => Number(data, p, w) = data[p + 1]
         /\ w = 2 => Number(data, p, w) = data[p + 1] * 256 + data[p + 2]
         /\ w = 3 => Number(data, p, w) = (data[p + 1] * 256 + data[p + 2]) * 256 + data[p + 3]
<1> DEFINE step == [i \in 1 .. w |-> [x \in Nat |-> x * 256 + data[p + i]]]
           Rec(h) == h = [n \in 0 .. w |-> IF n = 0 THEN 0 ELSE h[n - 1] * 256 + data[p + n]]
           up == CHOOSE h : Rec(h)
<1>1. ASSUME NEW i \in 1 .. w PROVE data[p + i] \in Nat
  <2>1. p + i \in 1 .. Len(data)
    BY LenProperties
  <2>. QED
    BY <2>1, ElementOfSeq
<1>2. step \in [1 .. w -> [Nat -> Nat]]
  <2>1. \A i \in 1 .. w : \A x \in Nat : x * 256 + data[p + i] \in Nat
    BY <1>1
  <2>. QED
    BY <2>1
<1>3. \A i \in 1 .. w : \A x \in Nat : step[i][x] = x * 256 + data[p + i]
  OBVIOUS
<1> HIDE DEF step
<1>4. PICK f \in [0 .. w -> Nat] : f[0] = 0 /\ \A i \in 1 .. w : f[i] = step[i][f[i - 1]]
  <2>1. 0 \in Nat
    OBVIOUS
  <2>2. PICK f : StepsFrom(f, w, Nat, 0, step)
    BY <1>2, <2>1, Stepwise
  <2>. QED
    BY <2>2 DEF StepsFrom
<1>5. ASSUME NEW n \in 0 .. w PROVE f[n] = IF n = 0 THEN 0 ELSE f[n - 1] * 256 + data[p + n]
  <2>1. CASE n # 0
    <3>1. n \in 1 .. w /\ n - 1 \in 0 .. w
      BY <2>1
    <3>2. f[n - 1] \in Nat
      BY <3>1
    <3>. QED
      <4>1. f[n] = step[n][f[n - 1]]
        BY <1>4, <3>1
      <4> DEFINE before == f[n - 1]
      <4>2. before \in Nat /\ f[n] = step[n][before]
        BY <3>2, <4>1
      <4> HIDE DEF before
      <4>3. f[n] = before * 256 + data[p + n]
        BY <1>3, <3>1, <4>2
      <4>. QED
        BY <2>1, <4>3 DEF before
  <2>. QED
    BY <1>4, <2>1
<1>6. Rec(f)
  BY <1>5
<1>7. Rec(up)
  BY <1>6, ZenonT(60)
<1>8. Number(data, p, w) = up[w]
  BY DEF Number
<1> HIDE DEF up
<1>9. \A n \in 0 .. w : up[n] = IF n = 0 THEN 0 ELSE up[n - 1] * 256 + data[p + n]
  BY <1>7
<1>10. up[w] \in Nat
  <2> DEFINE P(n) == n <= w => up[n] \in Nat
             G == {n \in Nat : P(n)}
  <2>1. P(0)
    BY <1>9
  <2>2. ASSUME NEW n \in Nat, P(n) PROVE P(n + 1)
    <3> SUFFICES ASSUME n + 1 <= w PROVE up[n + 1] \in Nat
      OBVIOUS
    <3>1. n + 1 \in 1 .. w /\ n + 1 \in 0 .. w /\ (n + 1) - 1 = n /\ n <= w /\ n + 1 # 0
      OBVIOUS
    <3>2. data[p + (n + 1)] \in Nat /\ up[n] \in Nat
      BY <1>1, <2>2, <3>1
    <3>3. up[n + 1] = up[n] * 256 + data[p + (n + 1)]
      BY <1>9, <3>1
    <3> DEFINE x == up[n]
               y == data[p + (n + 1)]
    <3>4. x \in Nat /\ y \in Nat /\ up[n + 1] = x * 256 + y
      BY <3>2, <3>3
    <3> HIDE DEF x, y
    <3>. QED
      BY <3>4
  <2>3. Nat \subseteq G
    <3> HIDE DEF P
    <3>1. 0 \in G /\ \A n \in Nat : n \in G => n + 1 \in G
      BY <2>1, <2>2
    <3>. QED
      BY <3>1, SetInduction
  <2>. QED
    BY <2>3
<1>11. /\ 1 <= w => up[1] = data[p + 1]
       /\ 2 <= w => up[2] = up[1] * 256 + data[p + 2]
       /\ 3 <= w => up[3] = up[2] * 256 + data[p + 3]
  <2>1. up[0] = 0
    BY <1>9
  <2>2. 1 <= w => up[1] = up[0] * 256 + data[p + 1] /\ data[p + 1] \in Nat
    BY <1>1, <1>9
  <2>3. 2 <= w => up[2] = up[1] * 256 + data[p + 2]
    BY <1>9
  <2>4. 3 <= w => up[3] = up[2] * 256 + data[p + 3]
    BY <1>9
  <2>. QED
    BY <2>1, <2>2, <2>3, <2>4
<1>12. /\ w = 1 => up[w] = data[p + 1]
       /\ w = 2 => up[w] = data[p + 1] * 256 + data[p + 2]
       /\ w = 3 => up[w] = (data[p + 1] * 256 + data[p + 2]) * 256 + data[p + 3]
  <2>1. CASE w = 1
    BY <1>11, <2>1
  <2>2. CASE w = 2
    BY <1>11, <2>2
  <2>3. CASE w = 3
    <3> DEFINE x == up[1]
               y == up[2]
               z == up[3]
    <3>1. x = data[p + 1] /\ y = x * 256 + data[p + 2] /\ z = y * 256 + data[p + 3] /\ up[w] = z
      BY <1>11, <2>3
    <3> HIDE DEF x, y, z
    <3>2. up[w] = (data[p + 1] * 256 + data[p + 2]) * 256 + data[p + 3]
      BY <3>1
    <3>. QED
      BY <2>3, <3>2
  <2>. QED
    BY <2>1, <2>2, <2>3
<1>. QED
  BY <1>8, <1>10, <1>12

(* Positions are numbers. *)
LEMMA AfterIs ==
  ASSUME NEW data \in Seq(Nat), NEW p \in Nat, NEW w \in Nat
  PROVE  /\ After(data, p, w) \in Nat
         /\ p + w <= Len(data) => After(data, p, w) = p + w + Number(data, p, w)
                                  /\ After(data, p, w) >= p + w
<1>1. Len(data) \in Nat
  BY LenProperties
<1>2. CASE p + w <= Len(data)
  <2> DEFINE n == Number(data, p, w)
  <2>1. n \in Nat
    BY <1>2, NumberIs
  <2>2. After(data, p, w) = p + w + n
    BY <1>1, <1>2 DEF After
  <2> HIDE DEF n
  <2>3. p + w + n \in Nat /\ p + w + n >= p + w
    BY <2>1
  <2>. QED
    BY <2>2, <2>3 DEF n
<1>3. CASE ~(p + w <= Len(data))
  BY <1>1, <1>3 DEF After
<1>. QED
  BY <1>2, <1>3

(* A field whose length is in two bytes, and one whose length is in one.   *)
LEMMA FieldTaken ==
  ASSUME NEW body \in Seq(Nat)
  PROVE  /\ Field(body) \in Seq(Nat) /\ Len(Field(body)) = 2 + Len(body)
         /\ \A data \in Seq(Nat), p \in Nat :
              Lies(Field(body), data, p) =>
                /\ Lies(body, data, p + 2)
                /\ p + 2 <= Len(data) =>
                     Number(data, p, 2) = Len(body) /\ After(data, p, 2) = p + 2 + Len(body)
                /\ p + 2 > Len(data) => After(data, p, 2) = Len(data) + 1
<1> DEFINE n == Len(body)
           len == write_u16(n)
<1>1. n \in Nat
  BY LenProperties
<1> HIDE DEF n
<1>2. len \in Seq(Nat) /\ Len(len) = 2 /\ len[1] = n \div 256 /\ len[2] = n % 256
  BY <1>1 DEF write_u16
<1>3. (n \div 256) * 256 + (n % 256) = n
  BY <1>1
<1> HIDE DEF len
<1>4. Field(body) = len \o body
  BY DEF Field, len, n
<1>5. Field(body) \in Seq(Nat) /\ Len(Field(body)) = 2 + n
  <2>1. Len(body) = n
    BY DEF n
  <2>2. len \o body \in Seq(Nat) /\ Len(len \o body) = Len(len) + Len(body)
    <3>1. len \in Seq(Nat) /\ body \in Seq(Nat)
      BY <1>2
    <3>. QED
      BY <3>1, Joined
  <2>. QED
    BY <1>2, <1>4, <2>1, <2>2
<1>6. ASSUME NEW data \in Seq(Nat), NEW p \in Nat, Lies(Field(body), data, p)
      PROVE  /\ Lies(body, data, p + 2)
             /\ p + 2 <= Len(data) =>
                  Number(data, p, 2) = n /\ After(data, p, 2) = p + 2 + n
             /\ p + 2 > Len(data) => After(data, p, 2) = Len(data) + 1
  <2>1. Lies(len, data, p) /\ Lies(body, data, p + 2)
    BY <1>2, <1>4, <1>6, LiesParts
  <2>2. Len(data) \in Nat
    BY LenProperties
  <2>3. CASE p + 2 <= Len(data)
    <3>1. 1 \in 1 .. Len(len) /\ 2 \in 1 .. Len(len) /\ p + 1 <= Len(data)
      BY <1>2, <2>2, <2>3
    <3>2. data[p + 1] = n \div 256 /\ data[p + 2] = n % 256
      BY <1>2, <2>1, <2>3, <3>1 DEF Lies
    <3>3. Number(data, p, 2) = data[p + 1] * 256 + data[p + 2]
      BY <2>3, NumberIs
    <3>4. Number(data, p, 2) = n
      BY <1>3, <3>2, <3>3
    <3>5. After(data, p, 2) = p + 2 + n
      BY <2>2, <2>3, <3>4 DEF After
    <3>. QED
      BY <2>1, <2>2, <2>3, <3>4, <3>5
  <2>4. CASE p + 2 > Len(data)
    BY <2>1, <2>2, <2>4 DEF After
  <2>. QED
    BY <2>2, <2>3, <2>4
<1>. QED
  BY <1>5, <1>6 DEF n

LEMMA ShortFieldTaken ==
  ASSUME NEW body \in Seq(Nat)
  PROVE  /\ ShortField(body) \in Seq(Nat) /\ Len(ShortField(body)) = 1 + Len(body)
         /\ \A data \in Seq(Nat), p \in Nat :
              Lies(ShortField(body), data, p) =>
                /\ Lies(body, data, p + 1)
                /\ p + 1 <= Len(data) =>
                     /\ data[p + 1] = Len(body)
                     /\ After(data, p, 1) = p + 1 + Len(body)
                /\ p + 1 > Len(data) => After(data, p, 1) = Len(data) + 1
<1> DEFINE n == Len(body)
           len == <<n>>
<1>1. n \in Nat
  BY LenProperties
<1> HIDE DEF n
<1>2. len \in Seq(Nat) /\ Len(len) = 1 /\ len[1] = n
  BY <1>1
<1> HIDE DEF len
<1>4. ShortField(body) = len \o body
  BY DEF ShortField, len, n
<1>5. ShortField(body) \in Seq(Nat) /\ Len(ShortField(body)) = 1 + n
  <2>1. Len(body) = n
    BY DEF n
  <2>2. len \o body \in Seq(Nat) /\ Len(len \o body) = Len(len) + Len(body)
    BY <1>2, Joined
  <2>. QED
    BY <1>2, <1>4, <2>1, <2>2
<1>6. ASSUME NEW data \in Seq(Nat), NEW p \in Nat, Lies(ShortField(body), data, p)
      PROVE  /\ Lies(body, data, p + 1)
             /\ p + 1 <= Len(data) => data[p + 1] = n /\ After(data, p, 1) = p + 1 + n
             /\ p + 1 > Len(data) => After(data, p, 1) = Len(data) + 1
  <2>1. Lies(len, data, p) /\ Lies(body, data, p + 1)
    BY <1>2, <1>4, <1>6, LiesParts
  <2>2. Len(data) \in Nat
    BY LenProperties
  <2>3. CASE p + 1 <= Len(data)
    <3>1. 1 \in 1 .. Len(len)
      BY <1>2
    <3>2. data[p + 1] = n
      BY <1>2, <2>1, <2>3, <3>1 DEF Lies
    <3>3. Number(data, p, 1) = n
      BY <2>3, <3>2, NumberIs
    <3>4. After(data, p, 1) = p + 1 + n
      BY <2>2, <2>3, <3>3 DEF After
    <3>. QED
      BY <2>1, <2>2, <2>3, <3>2, <3>4
  <2>4. CASE p + 1 > Len(data)
    BY <2>1, <2>2, <2>4 DEF After
  <2>. QED
    BY <2>2, <2>3, <2>4
<1>. QED
  BY <1>5, <1>6 DEF n

LEMMA NumberTaken ==
  ASSUME NEW n \in Nat
  PROVE  /\ write_u16(n) \in Seq(Nat) /\ Len(write_u16(n)) = 2
         /\ \A data \in Seq(Nat), p \in Nat :
              Lies(write_u16(n), data, p) /\ p + 2 <= Len(data) => Number(data, p, 2) = n
<1> DEFINE len == write_u16(n)
<1>1. len \in Seq(Nat) /\ Len(len) = 2 /\ len[1] = n \div 256 /\ len[2] = n % 256
  BY DEF write_u16
<1>2. (n \div 256) * 256 + (n % 256) = n
  OBVIOUS
<1> HIDE DEF len
<1>3. ASSUME NEW data \in Seq(Nat), NEW p \in Nat, Lies(len, data, p), p + 2 <= Len(data)
      PROVE  Number(data, p, 2) = n
  <2>1. Len(data) \in Nat
    BY LenProperties
  <2>2. 1 \in 1 .. Len(len) /\ 2 \in 1 .. Len(len) /\ p + 1 <= Len(data)
    BY <1>1, <1>3, <2>1
  <2>3. data[p + 1] = n \div 256 /\ data[p + 2] = n % 256
    BY <1>1, <1>3, <2>2 DEF Lies
  <2>4. Number(data, p, 2) = data[p + 1] * 256 + data[p + 2]
    BY <1>3, NumberIs
  <2>. QED
    BY <1>2, <2>3, <2>4
<1>. QED
  BY <1>1, <1>3 DEF len

(* Each of the flattened sequences lies at its offset.                     *)
LEMMA FlattenTaken ==
  ASSUME NEW ss \in Seq(Seq(Nat)), NEW st, Offsets(st, ss),
         NEW data \in Seq(Nat), NEW p \in Nat, Lies(FlattenSeq(ss), data, p),
         NEW i \in 1 .. Len(ss)
  PROVE  Lies(ss[i], data, p + st[i])
<1> DEFINE flat == FlattenSeq(ss)
           n == Len(flat)
           s == ss[i]
           o == st[i]
<1>1. /\ st \in [1 .. Len(ss) + 1 -> Nat] /\ st[i + 1] = o + Len(s) /\ st[i + 1] <= n
      /\ \A k \in 1 .. Len(s) : flat[o + k] = s[k]
  BY DEF Offsets
<1>2. Len(ss) \in Nat /\ i \in 1 .. Len(ss) + 1 /\ o \in Nat
  <2>1. Len(ss) \in Nat
    BY LenProperties
  <2>2. i \in 1 .. Len(ss) + 1
    BY <2>1
  <2>. QED
    BY <1>1, <2>1, <2>2
<1>3. s \in Seq(Nat) /\ Len(s) \in Nat /\ n \in Nat
  <2>1. s \in Seq(Nat)
    BY <1>2, ElementOfSeq
  <2>2. flat \in Seq(Nat)
    BY FlattenAppend, EmptySeq
  <2>. QED
    BY <2>1, <2>2, LenProperties
<1>4. \A k \in 1 .. n : p + k <= Len(data) => data[p + k] = flat[k]
  BY DEF Lies
<1> HIDE DEF flat, n, s, o
<1>5. ASSUME NEW k \in 1 .. Len(s), (p + o) + k <= Len(data) PROVE data[(p + o) + k] = s[k]
  <2> DEFINE j == o + k
  <2>1. j \in 1 .. n /\ (p + o) + k = p + j
    BY <1>1, <1>2, <1>3
  <2> HIDE DEF j
  <2>2. data[p + j] = flat[j]
    BY <1>4, <1>5, <2>1
  <2>3. flat[j] = s[k]
    BY <1>1 DEF j
  <2>. QED
    BY <2>1, <2>2, <2>3
<1>. QED
  BY <1>5 DEF Lies, s, o
=============================================================================
