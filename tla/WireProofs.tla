------------------------------- MODULE WireProofs -------------------------------
(***************************************************************************)
(* What WireCodec does for every message: decode returns what encode was   *)
(* given, whatever the sender's layout, and so does fromJSON of toJSON.    *)
(***************************************************************************)
EXTENDS WireCodec, FiniteSetTheorems, SequenceTheorems, WellFoundedInduction, TLAPS

----------------------------------------------------------------------------
(* Induction over the naturals, without an operator for a parameter.       *)

\* Every non-empty set of naturals has a least element.
LEMMA NatLeast ==
    ASSUME NEW T, T \subseteq Nat, T # {}
    PROVE  \E m \in T : \A k \in T : m <= k
<1> DEFINE R == {p \in Nat \X Nat : p[1] < p[2]}
<1>1. IsWellFoundedOn(R, Nat)
  BY NatLessThanWellFounded DEF OpToRel
<1>2. \A k, m \in Nat : k < m => <<k, m>> \in R
  OBVIOUS
<1> HIDE DEF R
<1>3. \E m \in T : \A k \in T : ~ (<<k, m>> \in R)
  BY <1>1, WFMin, Zenon
<1>4. PICK m \in T : \A k \in T : ~ (<<k, m>> \in R)
  BY <1>3
<1>5. ASSUME NEW k \in T PROVE m <= k
  <2>1. k \in Nat /\ m \in Nat /\ ~ (<<k, m>> \in R)
    BY <1>4
  <2>2. k < m => <<k, m>> \in R
    BY <1>2, <2>1, Zenon
  <2> QED BY <2>1, <2>2
<1> QED BY <1>5

\* A set with 0 and the successors up to N has every natural up to N.
LEMMA NatSteps ==
    ASSUME NEW N \in Nat, NEW S, 0 \in S, \A n \in 0..N : n \in S /\ n < N => n + 1 \in S
    PROVE  0..N \subseteq S
<1>1. SUFFICES ASSUME (0..N) \ S # {} PROVE FALSE
  OBVIOUS
<1> DEFINE T == (0..N) \ S
<1>2. PICK m \in T : \A k \in T : m <= k
  <2>1. T \subseteq Nat /\ T # {}
    BY <1>1
  <2> HIDE DEF T
  <2> QED BY <2>1, NatLeast
<1>3. m # 0 /\ m - 1 \in 0..N /\ m - 1 \in S /\ m - 1 < N
  BY <1>2
<1> QED BY <1>2, <1>3

----------------------------------------------------------------------------
(* Sequences, and what FlattenSeq makes of a sequence of them.             *)

IsSeq(s) == s \in Seq(Range(s))

LEMMA SeqIsSeq ==
    ASSUME NEW T, NEW s \in Seq(T)
    PROVE  IsSeq(s) /\ Len(s) \in Nat /\ DOMAIN s = 1..Len(s)
<1>1. Len(s) \in Nat /\ DOMAIN s = 1..Len(s) /\ s \in [1..Len(s) -> T]
  OBVIOUS
<1>2. s \in [1..Len(s) -> Range(s)]
  BY <1>1 DEF Range
<1> QED
  BY <1>1, <1>2, SeqDef DEF IsSeq

LEMMA FunctionIsSeq ==
    ASSUME NEW n \in Nat, NEW s, s = [i \in 1..n |-> s[i]]
    PROVE  IsSeq(s) /\ Len(s) = n /\ DOMAIN s = 1..n
<1>1. s \in [1..n -> Range(s)]
  BY DEF Range
<1> QED
  BY <1>1 DEF IsSeq

LEMMA IsSeqFacts ==
    ASSUME NEW s, IsSeq(s)
    PROVE  Len(s) \in Nat /\ DOMAIN s = 1..Len(s) /\ s = [i \in 1..Len(s) |-> s[i]]
BY DEF IsSeq

\* The sequences of ss, joined up to each.
Joined(ss) ==
    LET flatten[i \in 1..Len(ss)] == IF i = 1 THEN ss[i] ELSE flatten[i-1] \o ss[i]
    IN  flatten

LEMMA JoinedRecursion ==
    ASSUME NEW ss, Len(ss) \in Nat
    PROVE  \A n \in 1..Len(ss) : Joined(ss)[n] = IF n = 1 THEN ss[n] ELSE Joined(ss)[n - 1] \o ss[n]
<1> DEFINE N == Len(ss)
           G(n, h) == h = [i \in 1..n |-> IF i = 1 THEN ss[i] ELSE h[i - 1] \o ss[i]]
           S == {n \in Nat : \E h : G(n, h)}
<1>1. 0 \in S
  <2>1. G(0, [i \in 1..0 |-> 0])
    OBVIOUS
  <2> QED BY <2>1
<1>2. ASSUME NEW n \in 0..N, n \in S PROVE n + 1 \in S
  <2>1. PICK h : G(n, h)
    BY <1>2
  <2> DEFINE e == [i \in 1..(n + 1) |-> IF i <= n THEN h[i] ELSE IF i = 1 THEN ss[i] ELSE h[n] \o ss[i]]
  <2>2. \A i \in 1..(n + 1) : e[i] = IF i = 1 THEN ss[i] ELSE e[i - 1] \o ss[i]
    <3> SUFFICES ASSUME NEW i \in 1..(n + 1) PROVE e[i] = IF i = 1 THEN ss[i] ELSE e[i - 1] \o ss[i]
      OBVIOUS
    <3>1. i # 1 => e[i - 1] = h[i - 1]
      OBVIOUS
    <3>2. CASE i <= n
      <4>0. \A j \in 1..n : h[j] = IF j = 1 THEN ss[j] ELSE h[j - 1] \o ss[j]
        BY <2>1
      <4>1. e[i] = h[i] /\ h[i] = IF i = 1 THEN ss[i] ELSE h[i - 1] \o ss[i]
        BY <3>2, <4>0
      <4> QED BY <3>1, <4>1
    <3>3. CASE ~(i <= n)
      <4>1. e[i] = IF i = 1 THEN ss[i] ELSE h[n] \o ss[i]
        BY <3>3
      <4>2. i # 1 => i - 1 = n
        BY <3>3
      <4> QED BY <3>1, <4>1, <4>2
    <3> QED BY <3>2, <3>3
  <2>3. G(n + 1, e)
    BY <2>2
  <2>4. n + 1 \in Nat
    OBVIOUS
  <2> HIDE DEF e, G
  <2> QED BY <2>3, <2>4, Zenon
<1>3. N \in S
  <2>1. \A n \in 0..N : n \in S /\ n < N => n + 1 \in S
    BY <1>2, Zenon
  <2>2. N \in Nat /\ N \in 0..N
    OBVIOUS
  <2> HIDE DEF S, N
  <2>3. 0..N \subseteq S
    BY <1>1, <2>1, <2>2, NatSteps, Zenon
  <2> QED BY <2>2, <2>3
<1>4. G(N, Joined(ss))
  <2>1. Joined(ss) = CHOOSE h : G(N, h)
    BY DEF Joined
  <2>2. \E h : G(N, h)
    BY <1>3
  <2> QED BY <2>1, <2>2, Zenon
<1> QED BY <1>4

\* How many elements the first n of the sequences have.
Offset(ss, n) == IF n = 0 THEN 0 ELSE Len(Joined(ss)[n])

\* FlattenSeq lays its sequences one behind the other: the k-th begins at Offset(ss, k - 1).
LEMMA Flattened ==
    ASSUME NEW ss, IsSeq(ss), \A k \in 1..Len(ss) : IsSeq(ss[k])
    PROVE  /\ IsSeq(FlattenSeq(ss)) /\ Len(FlattenSeq(ss)) = Offset(ss, Len(ss))
           /\ Offset(ss, 0) = 0 /\ \A n \in 0..Len(ss) : Offset(ss, n) \in Nat
           /\ \A n \in 1..Len(ss) : Offset(ss, n) = Offset(ss, n - 1) + Len(ss[n])
           /\ \A k \in 1..Len(ss) : \A i \in 1..Len(ss[k]) :
                 FlattenSeq(ss)[Offset(ss, k - 1) + i] = ss[k][i]
<1> DEFINE N == Len(ss)
           T == UNION {Range(ss[k]) : k \in 1..N}
           J(n) == IF n = 0 THEN <<>> ELSE Joined(ss)[n]
           Q(n) == /\ J(n) \in Seq(T)
                   /\ \A k \in 1..n : \A i \in 1..Len(ss[k]) :
                         /\ Offset(ss, k - 1) + i \in 1..Len(J(n))
                         /\ J(n)[Offset(ss, k - 1) + i] = ss[k][i]
           S == {n \in 0..N : Q(n)}
<1>1. N \in Nat
  BY IsSeqFacts
<1>2. \A k \in 1..N : ss[k] \in Seq(T) /\ Len(ss[k]) \in Nat
  <2> SUFFICES ASSUME NEW k \in 1..N PROVE ss[k] \in Seq(T) /\ Len(ss[k]) \in Nat
    OBVIOUS
  <2>1. ss[k] \in Seq(Range(ss[k])) /\ Range(ss[k]) \subseteq T
    BY DEF IsSeq
  <2> HIDE DEF T
  <2> QED BY <2>1
<1> HIDE DEF T
<1>3. \A n \in 1..N : Joined(ss)[n] = IF n = 1 THEN ss[n] ELSE Joined(ss)[n - 1] \o ss[n]
  BY <1>1, JoinedRecursion
<1>4. ASSUME NEW n \in 1..N, J(n - 1) \in Seq(T) PROVE J(n) = J(n - 1) \o ss[n]
  <2>1. CASE n = 1
    BY <1>1, <1>2, <1>3, <2>1
  <2>2. CASE n # 1
    <3>1. n # 0 /\ n - 1 # 0
      BY <1>1, <2>2
    <3> QED BY <1>3, <2>2, <3>1
  <2> QED BY <2>1, <2>2
<1>5. \A n \in 0..N : Offset(ss, n) = Len(J(n))
  BY DEF Offset
<1> HIDE DEF J
<1>6. 0 \in S
  <2>1. J(0) \in Seq(T)
    BY DEF J
  <2> QED BY <1>1, <2>1
<1>7. ASSUME NEW n \in 0..N, n \in S, n < N PROVE n + 1 \in S
  <2>1. n + 1 \in 1..N /\ (n + 1) - 1 = n /\ Q(n)
    BY <1>1, <1>7
  <2>2. J(n + 1) = J(n) \o ss[n + 1]
    BY <1>4, <2>1
  <2>3. /\ J(n + 1) \in Seq(T) /\ Len(J(n + 1)) = Len(J(n)) + Len(ss[n + 1])
        /\ \A i \in 1..Len(J(n + 1)) : J(n + 1)[i] = IF i <= Len(J(n)) THEN J(n)[i]
                                                     ELSE ss[n + 1][i - Len(J(n))]
    <3>1. J(n) \in Seq(T) /\ ss[n + 1] \in Seq(T)
      BY <1>2, <2>1
    <3> DEFINE a == J(n)
               b == ss[n + 1]
    <3>2. /\ a \o b \in Seq(T) /\ Len(a \o b) = Len(a) + Len(b)
          /\ \A i \in 1..(Len(a) + Len(b)) : (a \o b)[i] = IF i <= Len(a) THEN a[i] ELSE b[i - Len(a)]
      <4>1. a \in Seq(T) /\ b \in Seq(T)
        BY <3>1
      <4> HIDE DEF a, b
      <4> QED BY <4>1
    <3> QED BY <2>2, <3>2
  <2>4. Len(J(n)) \in Nat /\ Len(ss[n + 1]) \in Nat
    BY <1>2, <2>1
  <2>5. ASSUME NEW k \in 1..(n + 1), NEW i \in 1..Len(ss[k])
        PROVE  /\ Offset(ss, k - 1) + i \in 1..Len(J(n + 1))
               /\ J(n + 1)[Offset(ss, k - 1) + i] = ss[k][i]
    <3>1. CASE k \in 1..n
      <4>1. /\ Offset(ss, k - 1) + i \in 1..Len(J(n))
            /\ J(n)[Offset(ss, k - 1) + i] = ss[k][i]
        BY <2>1, <3>1
      <4> DEFINE o == Offset(ss, k - 1) + i
      <4>2. o \in 1..Len(J(n)) /\ J(n)[o] = ss[k][i]
        BY <4>1
      <4> HIDE DEF o
      <4>3. o \in 1..Len(J(n + 1)) /\ o <= Len(J(n))
        BY <2>3, <2>4, <4>2
      <4>4. J(n + 1)[o] = ss[k][i]
        BY <2>3, <4>2, <4>3
      <4> QED BY <4>3, <4>4 DEF o
    <3>2. CASE k = n + 1
      <4>1. Offset(ss, k - 1) = Len(J(n))
        BY <1>5, <3>2
      <4>2. i \in 1..Len(ss[n + 1])
        BY <3>2
      <4>3. /\ Len(J(n)) + i \in 1..Len(J(n + 1)) /\ ~(Len(J(n)) + i <= Len(J(n)))
            /\ (Len(J(n)) + i) - Len(J(n)) = i
        BY <2>3, <2>4, <4>2
      <4>4. J(n + 1)[Len(J(n)) + i] = ss[n + 1][i]
        BY <2>3, <4>3
      <4> QED BY <3>2, <4>1, <4>3, <4>4
    <3> QED BY <3>1, <3>2
  <2> QED BY <1>1, <2>1, <2>3, <2>5
<1>8. \A n \in 0..N : Q(n)
  <2>1. \A n \in 0..N : n \in S /\ n < N => n + 1 \in S
    BY <1>7
  <2>2. 0..N \subseteq S
    <3> HIDE DEF S, N
    <3> QED BY <1>1, <1>6, <2>1, NatSteps, Zenon
  <2> QED BY <2>2
<1>9. FlattenSeq(ss) = J(N)
  <2>1. CASE N = 0
    <3>1. ss = <<>>
      BY <2>1, IsSeqFacts DEF IsSeq
    <3> QED BY <2>1, <3>1 DEF FlattenSeq, J
  <2>2. CASE N # 0
    BY <2>2 DEF FlattenSeq, J, Joined
  <2> QED BY <2>1, <2>2
<1>10. N \in 0..N /\ J(N) \in Seq(T)
  BY <1>1, <1>8
<1>11. IsSeq(FlattenSeq(ss)) /\ Len(FlattenSeq(ss)) = Offset(ss, N)
  BY <1>5, <1>9, <1>10, SeqIsSeq
<1>12. Offset(ss, 0) = 0
  BY DEF Offset
<1>13. ASSUME NEW n \in 0..N PROVE Offset(ss, n) \in Nat
  BY <1>5, <1>8
<1>14. ASSUME NEW n \in 1..N PROVE Offset(ss, n) = Offset(ss, n - 1) + Len(ss[n])
  <2>1. n - 1 \in 0..N /\ n \in 0..N /\ J(n - 1) \in Seq(T) /\ ss[n] \in Seq(T)
    BY <1>1, <1>2, <1>8
  <2>2. J(n) = J(n - 1) \o ss[n]
    BY <1>4, <2>1
  <2>3. Len(J(n)) = Len(J(n - 1)) + Len(ss[n])
    BY <2>1, <2>2
  <2> QED BY <1>5, <2>1, <2>3
<1>15. \A k \in 1..N : \A i \in 1..Len(ss[k]) : FlattenSeq(ss)[Offset(ss, k - 1) + i] = ss[k][i]
  <2>1. Q(N)
    BY <1>8, <1>10
  <2> HIDE DEF N
  <2> QED BY <1>9, <2>1
<1> QED BY <1>11, <1>12, <1>13, <1>14, <1>15

LEMMA OffsetsGrow ==
    ASSUME NEW ss, IsSeq(ss), \A k \in 1..Len(ss) : IsSeq(ss[k])
    PROVE  \A m, n \in 0..Len(ss) : m <= n => Offset(ss, m) <= Offset(ss, n)
<1> DEFINE N == Len(ss)
           S == {n \in 0..N : \A m \in 0..n : Offset(ss, m) <= Offset(ss, n)}
<1>1. /\ N \in Nat /\ \A n \in 0..N : Offset(ss, n) \in Nat
      /\ \A n \in 1..N : Len(ss[n]) \in Nat /\ Offset(ss, n) = Offset(ss, n - 1) + Len(ss[n])
  BY Flattened, IsSeqFacts
<1>2. 0 \in S
  BY <1>1
<1>3. ASSUME NEW n \in 0..N, n \in S, n < N PROVE n + 1 \in S
  <2>1. n + 1 \in 1..N /\ Offset(ss, n) <= Offset(ss, n + 1) /\ Offset(ss, n + 1) \in Nat
    BY <1>1, <1>3
  <2>2. ASSUME NEW m \in 0..(n + 1) PROVE Offset(ss, m) <= Offset(ss, n + 1)
    <3>1. CASE m \in 0..n
      <4>1. Offset(ss, m) <= Offset(ss, n) /\ Offset(ss, m) \in Nat /\ Offset(ss, n) \in Nat
        BY <1>1, <1>3, <3>1
      <4> QED BY <2>1, <4>1
    <3>2. CASE m = n + 1
      BY <2>1, <3>2
    <3> QED BY <3>1, <3>2
  <2> QED BY <2>1, <2>2
<1>4. 0..N \subseteq S
  <2>1. \A n \in 0..N : n \in S /\ n < N => n + 1 \in S
    BY <1>3
  <2> HIDE DEF S, N
  <2> QED BY <1>1, <1>2, <2>1, NatSteps, Zenon
<1> QED BY <1>4

\* Every element of the whole comes from one of the sequences.
LEMMA FlattenedFrom ==
    ASSUME NEW ss, IsSeq(ss), \A k \in 1..Len(ss) : IsSeq(ss[k]),
           NEW u \in 1..Offset(ss, Len(ss))
    PROVE  \E k \in 1..Len(ss) : \E i \in 1..Len(ss[k]) : u = Offset(ss, k - 1) + i
<1> DEFINE N == Len(ss)
           T == {n \in 0..N : u <= Offset(ss, n)}
<1>1. /\ N \in Nat /\ Offset(ss, 0) = 0 /\ \A n \in 0..N : Offset(ss, n) \in Nat
      /\ \A n \in 1..N : Len(ss[n]) \in Nat /\ Offset(ss, n) = Offset(ss, n - 1) + Len(ss[n])
  BY Flattened, IsSeqFacts
<1>2. PICK k \in T : \A n \in T : k <= n
  <2>1. T \subseteq Nat /\ N \in T
    BY <1>1
  <2> HIDE DEF T
  <2> QED BY <2>1, NatLeast
<1>3. k \in 1..N
  BY <1>1, <1>2
<1>4. k - 1 \in 0..N /\ ~(u <= Offset(ss, k - 1))
  BY <1>1, <1>2, <1>3
<1>5. u - Offset(ss, k - 1) \in 1..Len(ss[k])
  <2> DEFINE o == Offset(ss, k - 1)
             l == Len(ss[k])
  <2>1. u <= Offset(ss, k)
    BY <1>2
  <2>2. o \in Nat /\ l \in Nat /\ Offset(ss, k) = o + l /\ u \in Nat
    BY <1>1, <1>3, <1>4
  <2>3. u <= o + l /\ ~(u <= o)
    BY <1>4, <2>1, <2>2
  <2> HIDE DEF o, l
  <2>4. u - o \in 1..l
    BY <2>2, <2>3
  <2> QED BY <2>4 DEF o, l
<1>6. u = Offset(ss, k - 1) + (u - Offset(ss, k - 1))
  <2> DEFINE o == Offset(ss, k - 1)
  <2>1. o \in Nat /\ u \in Int
    BY <1>1, <1>4
  <2> HIDE DEF o
  <2>2. u = o + (u - o)
    BY <2>1
  <2> QED BY <2>2 DEF o
<1> QED BY <1>3, <1>5, <1>6, Zenon

----------------------------------------------------------------------------
(* The recursion over nested messages.                                     *)

\* What is inside a message is itself a message, of less height.
LEMMA MessageFacts ==
    /\ Messages[0] = {} /\ DOMAIN Messages = 0..MaxHeight
    /\ \A h \in 0..MaxHeight : \A p \in Messages[h] :
          h \in 1..MaxHeight /\ IsType(p[1]) /\ IsMessage(p) /\ Inside(p) \subseteq Messages[h - 1]
<1>1. MaxHeight \in Nat /\ \A p \in DOMAIN Height : Height[p] \in 1..MaxHeight
  BY WireAssumption
<1>2. \A h \in 0..MaxHeight : Messages[h] = {p \in DOMAIN Height : Height[p] <= h}
  BY DEF Messages
<1>3. ASSUME NEW h \in 0..MaxHeight, NEW p \in Messages[h]
      PROVE  h \in 1..MaxHeight /\ IsType(p[1]) /\ IsMessage(p) /\ Inside(p) \subseteq Messages[h - 1]
  <2>1. p \in DOMAIN Height /\ Height[p] <= h /\ Height[p] \in 1..MaxHeight
    BY <1>1, <1>2
  <2>2. h \in 1..MaxHeight /\ h - 1 \in 0..MaxHeight
    BY <1>1, <2>1
  <2>3. ASSUME NEW q \in Inside(p) PROVE q \in Messages[h - 1]
    <3>1. q \in DOMAIN Height /\ Height[q] < Height[p]
      BY <2>1, WireAssumption
    <3>2. Height[q] \in 1..MaxHeight
      BY <1>1, <3>1
    <3>3. Height[q] <= h - 1
      BY <1>1, <2>1, <2>2, <3>1, <3>2
    <3> QED BY <1>2, <2>2, <3>1, <3>3
  <2> QED BY <2>1, <2>2, <2>3, WireAssumption
<1>4. Messages[0] = {}
  BY <1>1, <1>2
<1> QED BY <1>3, <1>4 DEF Messages

\* Encode has its defining equation at every height: the recursive call is for less height.
LEMMA EncodeRecursion ==
    ASSUME NEW peer
    PROVE  \A h \in 0..MaxHeight : Encode(peer)[h] = [p \in Messages[h] |-> FlattenSeq(FlattenSeq(EncodeFields(Encode(peer)[h - 1], p, peer)))]
<1> DEFINE Step(e, p) == FlattenSeq(FlattenSeq(EncodeFields(e, p, peer)))
           G(n, f) == f = [h \in 0..n |-> [p \in Messages[h] |-> Step(f[h - 1], p)]]
           S == {n \in Nat : \E f : G(n, f)}
<1>0. Messages[0] = {}
  BY MessageFacts
<1>1. 0 \in S
  <2> DEFINE f == [h \in 0..0 |-> [p \in Messages[h] |-> p]]
  <2>1. ASSUME NEW h \in 0..0 PROVE f[h] = [p \in Messages[h] |-> Step(f[h - 1], p)]
    <3>1. h = 0 /\ f[h] = [p \in Messages[h] |-> p] /\ Messages[h] = {}
      BY <1>0
    <3> HIDE DEF f, Step
    <3> QED BY <3>1
  <2>2. G(0, f)
    <3> HIDE DEF Step
    <3>1. f = [h \in 0..0 |-> f[h]]
      OBVIOUS
    <3> HIDE DEF f
    <3> QED BY <2>1, <3>1
  <2> HIDE DEF f, G
  <2> QED BY <2>2
<1> HIDE DEF Step
<1>2. ASSUME NEW n \in 0..MaxHeight, n \in S PROVE n + 1 \in S
  <2>1. PICK f : G(n, f)
    BY <1>2
  <2>2. \A h \in 0..n : f[h] = [p \in Messages[h] |-> Step(f[h - 1], p)]
    BY <2>1
  <2> DEFINE e == [h \in 0..(n + 1) |-> IF h <= n THEN f[h] ELSE [p \in Messages[h] |-> Step(f[n], p)]]
  <2>3. n \in Nat
    BY WireAssumption
  <2>4. ASSUME NEW h \in 0..(n + 1) PROVE e[h] = [p \in Messages[h] |-> Step(e[h - 1], p)]
    <3>1. CASE h = 0
      <4>1. e[h] = f[h] /\ f[h] = [p \in Messages[h] |-> Step(f[h - 1], p)] /\ Messages[h] = {}
        BY <1>0, <2>2, <2>3, <3>1
      <4> HIDE DEF e
      <4> QED BY <4>1
    <3>2. CASE h \in 1..n
      <4>1. e[h] = f[h] /\ e[h - 1] = f[h - 1] /\ h \in 0..n
        BY <2>3, <3>2
      <4> HIDE DEF e
      <4> QED BY <2>2, <4>1
    <3>3. CASE h = n + 1
      <4>1. e[h] = [p \in Messages[h] |-> Step(f[n], p)] /\ e[h - 1] = f[n]
        BY <2>3, <3>3
      <4> HIDE DEF e
      <4> QED BY <4>1
    <3> QED BY <2>3, <3>1, <3>2, <3>3
  <2>5. G(n + 1, e)
    <3>1. e = [h \in 0..(n + 1) |-> e[h]]
      OBVIOUS
    <3> HIDE DEF e
    <3> QED BY <2>4, <3>1
  <2>6. n + 1 \in Nat
    BY <2>3
  <2> HIDE DEF e, G
  <2> QED BY <2>5, <2>6, Zenon
<1>3. \E f : G(MaxHeight, f)
  <2>1. \A n \in 0..MaxHeight : n \in S /\ n < MaxHeight => n + 1 \in S
    BY <1>2, Zenon
  <2>2. MaxHeight \in Nat /\ MaxHeight \in 0..MaxHeight
    BY WireAssumption
  <2>3. 0..MaxHeight \subseteq S
    <3> HIDE DEF S
    <3> QED BY <1>1, <2>1, <2>2, NatSteps, Zenon
  <2> QED BY <2>2, <2>3
<1>4. Encode(peer) = CHOOSE f : G(MaxHeight, f)
  BY DEF Encode, Step
<1>5. G(MaxHeight, Encode(peer))
  <2> HIDE DEF G
  <2> QED BY <1>3, <1>4, Zenon
<1>6. ASSUME NEW h \in 0..MaxHeight PROVE Encode(peer)[h] = [p \in Messages[h] |-> Step(Encode(peer)[h - 1], p)]
  BY <1>5
<1> QED BY <1>6 DEF Step

\* The same of toJSON,
LEMMA ToJSONRecursion ==
    \A h \in 0..MaxHeight : ToJSON[h] = [p \in Messages[h] |-> ToJSONFields(ToJSON[h - 1], p)]
<1> DEFINE Step(e, p) == ToJSONFields(e, p)
           G(n, f) == f = [h \in 0..n |-> [p \in Messages[h] |-> Step(f[h - 1], p)]]
           S == {n \in Nat : \E f : G(n, f)}
<1>0. Messages[0] = {}
  BY MessageFacts
<1>1. 0 \in S
  <2> DEFINE f == [h \in 0..0 |-> [p \in Messages[h] |-> p]]
  <2>1. ASSUME NEW h \in 0..0 PROVE f[h] = [p \in Messages[h] |-> Step(f[h - 1], p)]
    <3>1. h = 0 /\ f[h] = [p \in Messages[h] |-> p] /\ Messages[h] = {}
      BY <1>0
    <3> HIDE DEF f, Step
    <3> QED BY <3>1
  <2>2. G(0, f)
    <3> HIDE DEF Step
    <3>1. f = [h \in 0..0 |-> f[h]]
      OBVIOUS
    <3> HIDE DEF f
    <3> QED BY <2>1, <3>1
  <2> HIDE DEF f, G
  <2> QED BY <2>2
<1> HIDE DEF Step
<1>2. ASSUME NEW n \in 0..MaxHeight, n \in S PROVE n + 1 \in S
  <2>1. PICK f : G(n, f)
    BY <1>2
  <2>2. \A h \in 0..n : f[h] = [p \in Messages[h] |-> Step(f[h - 1], p)]
    BY <2>1
  <2> DEFINE e == [h \in 0..(n + 1) |-> IF h <= n THEN f[h] ELSE [p \in Messages[h] |-> Step(f[n], p)]]
  <2>3. n \in Nat
    BY WireAssumption
  <2>4. ASSUME NEW h \in 0..(n + 1) PROVE e[h] = [p \in Messages[h] |-> Step(e[h - 1], p)]
    <3>1. CASE h = 0
      <4>1. e[h] = f[h] /\ f[h] = [p \in Messages[h] |-> Step(f[h - 1], p)] /\ Messages[h] = {}
        BY <1>0, <2>2, <2>3, <3>1
      <4> HIDE DEF e
      <4> QED BY <4>1
    <3>2. CASE h \in 1..n
      <4>1. e[h] = f[h] /\ e[h - 1] = f[h - 1] /\ h \in 0..n
        BY <2>3, <3>2
      <4> HIDE DEF e
      <4> QED BY <2>2, <4>1
    <3>3. CASE h = n + 1
      <4>1. e[h] = [p \in Messages[h] |-> Step(f[n], p)] /\ e[h - 1] = f[n]
        BY <2>3, <3>3
      <4> HIDE DEF e
      <4> QED BY <4>1
    <3> QED BY <2>3, <3>1, <3>2, <3>3
  <2>5. G(n + 1, e)
    <3>1. e = [h \in 0..(n + 1) |-> e[h]]
      OBVIOUS
    <3> HIDE DEF e
    <3> QED BY <2>4, <3>1
  <2>6. n + 1 \in Nat
    BY <2>3
  <2> HIDE DEF e, G
  <2> QED BY <2>5, <2>6, Zenon
<1>3. \E f : G(MaxHeight, f)
  <2>1. \A n \in 0..MaxHeight : n \in S /\ n < MaxHeight => n + 1 \in S
    BY <1>2, Zenon
  <2>2. MaxHeight \in Nat /\ MaxHeight \in 0..MaxHeight
    BY WireAssumption
  <2>3. 0..MaxHeight \subseteq S
    <3> HIDE DEF S
    <3> QED BY <1>1, <2>1, <2>2, NatSteps, Zenon
  <2> QED BY <2>2, <2>3
<1>4. ToJSON = CHOOSE f : G(MaxHeight, f)
  BY DEF ToJSON, Step
<1>5. G(MaxHeight, ToJSON)
  <2> HIDE DEF G
  <2> QED BY <1>3, <1>4, Zenon
<1>6. ASSUME NEW h \in 0..MaxHeight PROVE ToJSON[h] = [p \in Messages[h] |-> Step(ToJSON[h - 1], p)]
  BY <1>5
<1> QED BY <1>6 DEF Step

\* of fromJSON, for the objects that toJSON makes,
LEMMA FromJSONRecursion ==
    \A h \in 0..MaxHeight : FromJSON[h] = [o \in Objects(h) |-> FromJSONFields(FromJSON[h - 1], o[1], o[2])]
<1> DEFINE Step(e, o) == FromJSONFields(e, o[1], o[2])
           G(n, f) == f = [h \in 0..n |-> [o \in Objects(h) |-> Step(f[h - 1], o)]]
           S == {n \in Nat : \E f : G(n, f)}
<1>0. Objects(0) = {}
  BY MessageFacts DEF Objects
<1>1. 0 \in S
  <2> DEFINE f == [h \in 0..0 |-> [o \in Objects(h) |-> o]]
  <2>1. ASSUME NEW h \in 0..0 PROVE f[h] = [o \in Objects(h) |-> Step(f[h - 1], o)]
    <3>1. h = 0 /\ f[h] = [o \in Objects(h) |-> o] /\ Objects(h) = {}
      BY <1>0
    <3> HIDE DEF f, Step
    <3> QED BY <3>1
  <2>2. G(0, f)
    <3> HIDE DEF Step
    <3>1. f = [h \in 0..0 |-> f[h]]
      OBVIOUS
    <3> HIDE DEF f
    <3> QED BY <2>1, <3>1
  <2> HIDE DEF f, G
  <2> QED BY <2>2
<1> HIDE DEF Step
<1>2. ASSUME NEW n \in 0..MaxHeight, n \in S PROVE n + 1 \in S
  <2>1. PICK f : G(n, f)
    BY <1>2
  <2>2. \A h \in 0..n : f[h] = [o \in Objects(h) |-> Step(f[h - 1], o)]
    BY <2>1
  <2> DEFINE e == [h \in 0..(n + 1) |-> IF h <= n THEN f[h] ELSE [o \in Objects(h) |-> Step(f[n], o)]]
  <2>3. n \in Nat
    BY WireAssumption
  <2>4. ASSUME NEW h \in 0..(n + 1) PROVE e[h] = [o \in Objects(h) |-> Step(e[h - 1], o)]
    <3>1. CASE h = 0
      <4>1. e[h] = f[h] /\ f[h] = [o \in Objects(h) |-> Step(f[h - 1], o)] /\ Objects(h) = {}
        BY <1>0, <2>2, <2>3, <3>1
      <4> HIDE DEF e
      <4> QED BY <4>1
    <3>2. CASE h \in 1..n
      <4>1. e[h] = f[h] /\ e[h - 1] = f[h - 1] /\ h \in 0..n
        BY <2>3, <3>2
      <4> HIDE DEF e
      <4> QED BY <2>2, <4>1
    <3>3. CASE h = n + 1
      <4>1. e[h] = [o \in Objects(h) |-> Step(f[n], o)] /\ e[h - 1] = f[n]
        BY <2>3, <3>3
      <4> HIDE DEF e
      <4> QED BY <4>1
    <3> QED BY <2>3, <3>1, <3>2, <3>3
  <2>5. G(n + 1, e)
    <3>1. e = [h \in 0..(n + 1) |-> e[h]]
      OBVIOUS
    <3> HIDE DEF e
    <3> QED BY <2>4, <3>1
  <2>6. n + 1 \in Nat
    BY <2>3
  <2> HIDE DEF e, G
  <2> QED BY <2>5, <2>6, Zenon
<1>3. \E f : G(MaxHeight, f)
  <2>1. \A n \in 0..MaxHeight : n \in S /\ n < MaxHeight => n + 1 \in S
    BY <1>2, Zenon
  <2>2. MaxHeight \in Nat /\ MaxHeight \in 0..MaxHeight
    BY WireAssumption
  <2>3. 0..MaxHeight \subseteq S
    <3> HIDE DEF S
    <3> QED BY <1>1, <2>1, <2>2, NatSteps, Zenon
  <2> QED BY <2>2, <2>3
<1>4. FromJSON = CHOOSE f : G(MaxHeight, f)
  BY DEF FromJSON, Step
<1>5. G(MaxHeight, FromJSON)
  <2> HIDE DEF G
  <2> QED BY <1>3, <1>4, Zenon
<1>6. ASSUME NEW h \in 0..MaxHeight PROVE FromJSON[h] = [o \in Objects(h) |-> Step(FromJSON[h - 1], o)]
  BY <1>5
<1> QED BY <1>6 DEF Step

\* and of what must come out of a message.
LEMMA AfterRecursion ==
    ASSUME NEW medium
    PROVE  \A h \in 0..MaxHeight : After(medium)[h] = [p \in Messages[h] |-> [g \in DOMAIN p[1] |-> FieldAfter(medium, After(medium)[h - 1], p[1][g], p[2][g])]]
<1> DEFINE Step(e, p) == [g \in DOMAIN p[1] |-> FieldAfter(medium, e, p[1][g], p[2][g])]
           G(n, f) == f = [h \in 0..n |-> [p \in Messages[h] |-> Step(f[h - 1], p)]]
           S == {n \in Nat : \E f : G(n, f)}
<1>0. Messages[0] = {}
  BY MessageFacts
<1>1. 0 \in S
  <2> DEFINE f == [h \in 0..0 |-> [p \in Messages[h] |-> p]]
  <2>1. ASSUME NEW h \in 0..0 PROVE f[h] = [p \in Messages[h] |-> Step(f[h - 1], p)]
    <3>1. h = 0 /\ f[h] = [p \in Messages[h] |-> p] /\ Messages[h] = {}
      BY <1>0
    <3> HIDE DEF f, Step
    <3> QED BY <3>1
  <2>2. G(0, f)
    <3> HIDE DEF Step
    <3>1. f = [h \in 0..0 |-> f[h]]
      OBVIOUS
    <3> HIDE DEF f
    <3> QED BY <2>1, <3>1
  <2> HIDE DEF f, G
  <2> QED BY <2>2
<1> HIDE DEF Step
<1>2. ASSUME NEW n \in 0..MaxHeight, n \in S PROVE n + 1 \in S
  <2>1. PICK f : G(n, f)
    BY <1>2
  <2>2. \A h \in 0..n : f[h] = [p \in Messages[h] |-> Step(f[h - 1], p)]
    BY <2>1
  <2> DEFINE e == [h \in 0..(n + 1) |-> IF h <= n THEN f[h] ELSE [p \in Messages[h] |-> Step(f[n], p)]]
  <2>3. n \in Nat
    BY WireAssumption
  <2>4. ASSUME NEW h \in 0..(n + 1) PROVE e[h] = [p \in Messages[h] |-> Step(e[h - 1], p)]
    <3>1. CASE h = 0
      <4>1. e[h] = f[h] /\ f[h] = [p \in Messages[h] |-> Step(f[h - 1], p)] /\ Messages[h] = {}
        BY <1>0, <2>2, <2>3, <3>1
      <4> HIDE DEF e
      <4> QED BY <4>1
    <3>2. CASE h \in 1..n
      <4>1. e[h] = f[h] /\ e[h - 1] = f[h - 1] /\ h \in 0..n
        BY <2>3, <3>2
      <4> HIDE DEF e
      <4> QED BY <2>2, <4>1
    <3>3. CASE h = n + 1
      <4>1. e[h] = [p \in Messages[h] |-> Step(f[n], p)] /\ e[h - 1] = f[n]
        BY <2>3, <3>3
      <4> HIDE DEF e
      <4> QED BY <4>1
    <3> QED BY <2>3, <3>1, <3>2, <3>3
  <2>5. G(n + 1, e)
    <3>1. e = [h \in 0..(n + 1) |-> e[h]]
      OBVIOUS
    <3> HIDE DEF e
    <3> QED BY <2>4, <3>1
  <2>6. n + 1 \in Nat
    BY <2>3
  <2> HIDE DEF e, G
  <2> QED BY <2>5, <2>6, Zenon
<1>3. \E f : G(MaxHeight, f)
  <2>1. \A n \in 0..MaxHeight : n \in S /\ n < MaxHeight => n + 1 \in S
    BY <1>2, Zenon
  <2>2. MaxHeight \in Nat /\ MaxHeight \in 0..MaxHeight
    BY WireAssumption
  <2>3. 0..MaxHeight \subseteq S
    <3> HIDE DEF S
    <3> QED BY <1>1, <2>1, <2>2, NatSteps, Zenon
  <2> QED BY <2>2, <2>3
<1>4. After(medium) = CHOOSE f : G(MaxHeight, f)
  BY DEF After, Step
<1>5. G(MaxHeight, After(medium))
  <2> HIDE DEF G
  <2> QED BY <1>3, <1>4, Zenon
<1>6. ASSUME NEW h \in 0..MaxHeight PROVE After(medium)[h] = [p \in Messages[h] |-> Step(After(medium)[h - 1], p)]
  BY <1>5
<1> QED BY <1>6 DEF Step

LEMMA AfterMessage ==
    ASSUME NEW medium, NEW h \in 0..MaxHeight, NEW p \in Messages[h]
    PROVE  After(medium)[h][p] = [f \in DOMAIN p[1] |-> FieldAfter(medium, After(medium)[h - 1], p[1][f], p[2][f])]
<1> DEFINE after == After(medium)[h - 1]
<1>1. After(medium)[h] = [q \in Messages[h] |-> [f \in DOMAIN q[1] |-> FieldAfter(medium, after, q[1][f], q[2][f])]]
  BY AfterRecursion, ZenonT(40)
<1> HIDE DEF after
<1>2. After(medium)[h][p] = [f \in DOMAIN p[1] |-> FieldAfter(medium, after, p[1][f], p[2][f])]
  BY <1>1
<1> QED BY <1>2 DEF after

----------------------------------------------------------------------------
(* JSON.                                                                   *)

\* What is inside a message, field by field.
LEMMA InsideFacts ==
    ASSUME NEW h \in 1..MaxHeight, NEW p \in Messages[h], NEW f \in DOMAIN p[1],
           p[1][f].type = "message"
    PROVE  /\ p[1][f].card # "map" => \A i \in DOMAIN p[2][f] : <<p[1][f].of, p[2][f][i]>> \in Messages[h - 1]
           /\ p[1][f].card = "map" =>
                \A k \in DOMAIN p[2][f] : <<p[1][f].of, Entry(p[2][f], k)>> \in Messages[h - 1]
<1> DEFINE I(g) == CASE p[1][g].type # "message" -> {}
             [] p[1][g].type = "message" /\ p[1][g].card # "map" -> {<<p[1][g].of, v>> : v \in Range(p[2][g])}
             [] p[1][g].type = "message" /\ p[1][g].card = "map"
                  -> {<<p[1][g].of, Entry(p[2][g], k)>> : k \in DOMAIN p[2][g]}
<1>1. h \in 0..MaxHeight
  BY WireAssumption
<1>2. Inside(p) = UNION {I(g) : g \in DOMAIN p[1]} /\ Inside(p) \subseteq Messages[h - 1]
  BY <1>1, MessageFacts DEF Inside
<1>3. I(f) \subseteq Messages[h - 1]
  <2> HIDE DEF I
  <2> QED BY <1>2
<1>4. CASE p[1][f].card # "map"
  <2>1. I(f) = {<<p[1][f].of, v>> : v \in Range(p[2][f])}
    BY <1>4
  <2> QED BY <1>3, <1>4, <2>1 DEF Range
<1>5. CASE p[1][f].card = "map"
  <2>1. I(f) = {<<p[1][f].of, Entry(p[2][f], k)>> : k \in DOMAIN p[2][f]}
    BY <1>5
  <2> QED BY <1>3, <1>5, <2>1
<1> QED BY <1>4, <1>5

\* A value comes back through JSON if the messages inside do,
LEMMA ValueBack ==
    ASSUME NEW field, IsField(field), NEW v, NEW to, NEW from, NEW after,
           field.type = "message" => from[<<field.of, to[<<field.of, v>>]>>] = after[<<field.of, v>>]
    PROVE  FromJSONValue(from, field, ToJSONValue(to, field, v)) = ScalarAfter("json", after, field, v)
<1>1. CASE field.type = "enum"
  <2>1. "UNRECOGNIZED" \notin DOMAIN field.of
    BY <1>1 DEF IsField
  <2>2. /\ ToJSONValue(to, field, v) = EnumToJSON(field.of, v)
        /\ \A n : FromJSONValue(from, field, n) = EnumFromJSON(field.of, n)
    BY <1>1 DEF ToJSONValue, FromJSONValue
  <2>3. CASE \E n \in DOMAIN field.of : field.of[n] = v
    <3>1. EnumToJSON(field.of, v) \in DOMAIN field.of /\ field.of[EnumToJSON(field.of, v)] = v
      BY <2>3 DEF EnumToJSON
    <3>2. EnumFromJSON(field.of, EnumToJSON(field.of, v)) = v
      BY <3>1 DEF EnumFromJSON
    <3>3. ScalarAfter("json", after, field, v) = v
      BY <1>1, <2>3 DEF ScalarAfter
    <3> QED BY <2>2, <3>2, <3>3
  <2>4. CASE ~\E n \in DOMAIN field.of : field.of[n] = v
    <3>1. EnumFromJSON(field.of, EnumToJSON(field.of, v)) = -1
      BY <2>1, <2>4 DEF EnumToJSON, EnumFromJSON
    <3>2. ScalarAfter("json", after, field, v) = -1
      BY <1>1, <2>4 DEF ScalarAfter
    <3> QED BY <2>2, <3>1, <3>2
  <2> QED BY <2>3, <2>4
<1>2. CASE field.type = "message"
  BY <1>2 DEF FromJSONValue, ToJSONValue, ScalarAfter
<1>3. CASE field.type = "bytes"
  BY <1>3 DEF FromJSONValue, ToJSONValue, ScalarAfter
<1>4. CASE field.type \notin {"enum", "message", "bytes"}
  BY <1>4 DEF FromJSONValue, ToJSONValue, ScalarAfter
<1> QED BY <1>1, <1>2, <1>3, <1>4

LEMMA OneElement ==
    ASSUME NEW T, NEW s \in Seq(T), Len(s) <= 1, s # <<>>
    PROVE  Len(s) = 1 /\ DOMAIN s = {1} /\ s = <<s[1]>>
<1>1. Len(s) \in Nat /\ Len(s) # 0 /\ DOMAIN s = 1..Len(s)
  OBVIOUS
<1>2. Len(s) = 1 /\ 1..1 = {1}
  BY <1>1
<1> QED BY <1>1, <1>2

\* and so does a message, field by field.
LEMMA FieldsBack ==
    ASSUME NEW h \in 1..MaxHeight, NEW p \in Messages[h],
           \A q \in Messages[h - 1] : FromJSON[h - 1][<<q[1], ToJSON[h - 1][q]>>] = After("json")[h - 1][q]
    PROVE  FromJSON[h][<<p[1], ToJSON[h][p]>>] = After("json")[h][p]
<1> DEFINE to == ToJSON[h - 1]
           from == FromJSON[h - 1]
           after == After("json")[h - 1]
           o == ToJSONFields(to, p)
           R(f) == FromJSONFields(from, p[1], o)[f]
           A(f) == FieldAfter("json", after, p[1][f], p[2][f])
<1>1. h \in 0..MaxHeight
  BY WireAssumption
<1>2. ToJSON[h][p] = o /\ After("json")[h][p] = [f \in DOMAIN p[1] |-> A(f)]
  <2>1. ToJSON[h] = [q \in Messages[h] |-> ToJSONFields(to, q)]
    BY <1>1, ToJSONRecursion
  <2>2. After("json")[h] = [q \in Messages[h] |->
            [g \in DOMAIN q[1] |-> FieldAfter("json", after, q[1][g], q[2][g])]]
    BY <1>1, AfterRecursion
  <2> HIDE DEF to, after
  <2> QED BY <2>1, <2>2
<1>3. <<p[1], o>> \in Objects(h) /\ FromJSON[h][<<p[1], o>>] = FromJSONFields(from, p[1], o)
  <2>1. <<p[1], ToJSON[h][p]>> \in Objects(h)
    BY DEF Objects
  <2>2. FromJSON[h] = [x \in Objects(h) |-> FromJSONFields(from, x[1], x[2])]
    BY <1>1, FromJSONRecursion
  <2> HIDE DEF from, o
  <2> QED BY <1>2, <2>1, <2>2
<1>4. IsType(p[1]) /\ IsMessage(p)
  BY <1>1, MessageFacts
<1>5. ASSUME NEW f \in DOMAIN p[1], NEW v,
             p[1][f].type = "message" => <<p[1][f].of, v>> \in Messages[h - 1]
      PROVE  FromJSONValue(from, p[1][f], ToJSONValue(to, p[1][f], v)) = ScalarAfter("json", after, p[1][f], v)
  <2>1. IsField(p[1][f])
    BY <1>4 DEF IsType
  <2>2. p[1][f].type = "message" =>
          from[<<p[1][f].of, to[<<p[1][f].of, v>>]>>] = after[<<p[1][f].of, v>>]
    BY <1>5
  <2> HIDE DEF to, from, after
  <2> QED BY <2>1, <2>2, ValueBack
<1> HIDE DEF to, from, after
<1>6. ASSUME NEW f \in DOMAIN p[1] PROVE R(f) = A(f)
  <2> DEFINE field == p[1][f]
             value == p[2][f]
  <2>1. IsField(field) /\ IsValue(field, value)
    BY <1>4 DEF IsType, IsMessage
  <2>2. CASE IsDefault(field, value)
    <3>1. f \notin DOMAIN o
      BY <2>2 DEF ToJSONFields, ToJSONField
    <3>2. R(f) = Default(field)
      BY <3>1 DEF FromJSONFields, FromJSONField
    <3>3. A(f) = Default(field)
      BY <2>2 DEF FieldAfter
    <3> QED BY <3>2, <3>3
  <2>3. CASE ~IsDefault(field, value) /\ field.card = "map"
    <3>1. f \in DOMAIN o /\ o[f] = value
      BY <2>3 DEF ToJSONFields, ToJSONField
    <3>2. R(f) = value
      BY <2>3, <3>1 DEF FromJSONFields, FromJSONField
    <3>3. A(f) = value
      BY <2>3 DEF FieldAfter
    <3> QED BY <3>2, <3>3
  <2>4. CASE ~IsDefault(field, value) /\ field.card = "many"
    <3>1. f \in DOMAIN o /\ o[f] = [i \in DOMAIN value |-> ToJSONValue(to, field, value[i])]
      BY <2>4 DEF ToJSONFields, ToJSONField
    <3>2. R(f) = [i \in DOMAIN value |-> FromJSONValue(from, field, ToJSONValue(to, field, value[i]))]
      BY <2>4, <3>1 DEF FromJSONFields, FromJSONField
    <3>3. A(f) = [i \in DOMAIN value |-> ScalarAfter("json", after, field, value[i])]
      BY <2>4 DEF FieldAfter
    <3>4. \A i \in DOMAIN value : field.type = "message" => <<field.of, value[i]>> \in Messages[h - 1]
      BY <2>4, InsideFacts
    <3> QED BY <1>5, <3>2, <3>3, <3>4
  <2>5. CASE ~IsDefault(field, value) /\ field.card = "one" /\ field.type = "message"
    <3>1. value \in Seq(Range(value)) /\ Len(value) <= 1 /\ value # <<>>
      BY <2>1, <2>5 DEF IsValue, IsDefault, Default, Zero
    <3>2. Len(value) = 1 /\ DOMAIN value = {1}
      <4> HIDE DEF value
      <4> QED BY <3>1, OneElement
    <3>3. f \in DOMAIN o /\ o[f] = ToJSONValue(to, field, value[1])
      BY <2>5 DEF ToJSONFields, ToJSONField
    <3>4. R(f) = <<FromJSONValue(from, field, ToJSONValue(to, field, value[1]))>>
      BY <2>5, <3>3 DEF FromJSONFields, FromJSONField
    <3>5. A(f) = [i \in DOMAIN value |-> ScalarAfter("json", after, field, value[i])]
      BY <2>5 DEF FieldAfter
    <3>6. <<field.of, value[1]>> \in Messages[h - 1]
      BY <2>5, <3>2, InsideFacts
    <3>7. FromJSONValue(from, field, ToJSONValue(to, field, value[1])) = ScalarAfter("json", after, field, value[1])
      BY <1>5, <3>6
    <3>8. <<ScalarAfter("json", after, field, value[1])>> = [i \in {1} |-> ScalarAfter("json", after, field, value[i])]
      OBVIOUS
    <3> QED BY <3>2, <3>4, <3>5, <3>7, <3>8
  <2>6. CASE ~IsDefault(field, value) /\ field.card = "one" /\ field.type # "message"
    <3>1. f \in DOMAIN o /\ o[f] = ToJSONValue(to, field, value)
      BY <2>6 DEF ToJSONFields, ToJSONField
    <3>2. R(f) = FromJSONValue(from, field, ToJSONValue(to, field, value))
      BY <2>6, <3>1 DEF FromJSONFields, FromJSONField
    <3>3. A(f) = ScalarAfter("json", after, field, value)
      BY <2>6 DEF FieldAfter
    <3> QED BY <1>5, <2>6, <3>2, <3>3
  <2> QED BY <2>1, <2>2, <2>3, <2>4, <2>5, <2>6 DEF IsField
<1>7. FromJSONFields(from, p[1], o) = [f \in DOMAIN p[1] |-> R(f)]
  BY DEF FromJSONFields
<1> HIDE DEF R, A, o
<1> QED BY <1>2, <1>3, <1>6, <1>7

\* fromJSON gives back what toJSON was given, at every depth.
LEMMA JsonBack ==
    \A h \in 0..MaxHeight : \A p \in Messages[h] :
        FromJSON[h][<<p[1], ToJSON[h][p]>>] = After("json")[h][p]
<1> DEFINE Back(h) == \A p \in Messages[h] : FromJSON[h][<<p[1], ToJSON[h][p]>>] = After("json")[h][p]
           S == {h \in 0..MaxHeight : Back(h)}
<1>1. MaxHeight \in Nat
  BY WireAssumption
<1>2. 0 \in S
  BY <1>1, MessageFacts
<1>3. ASSUME NEW h \in 0..MaxHeight, h \in S, h < MaxHeight PROVE h + 1 \in S
  <2>1. h + 1 \in 1..MaxHeight /\ h + 1 \in 0..MaxHeight /\ (h + 1) - 1 = h
    BY <1>1, <1>3
  <2>2. \A q \in Messages[h] : FromJSON[h][<<q[1], ToJSON[h][q]>>] = After("json")[h][q]
    BY <1>3
  <2>3. Back(h + 1)
    BY <2>1, <2>2, FieldsBack
  <2> QED BY <2>1, <2>3
<1> HIDE DEF S
<1>4. 0..MaxHeight \subseteq S
  BY <1>1, <1>2, <1>3, NatSteps
<1> QED BY <1>4 DEF S

----------------------------------------------------------------------------
(* What a field is written as.                                             *)

LEMMA TagFacts ==
    \A n, m \in Nat : \A v, w \in 0..7 :
        /\ Tag(n, v) = Tag(m, w) => n = m /\ v = w
        /\ Tag(n, v) % 8 = v
        /\ Tag(n, v) = 0 => n = 0 /\ v = 0
<1> SUFFICES ASSUME NEW n \in Nat, NEW m \in Nat, NEW v \in 0..7, NEW w \in 0..7
             PROVE  /\ n * 8 + v = m * 8 + w => n = m /\ v = w
                    /\ (n * 8 + v) % 8 = v
                    /\ n * 8 + v = 0 => n = 0 /\ v = 0
  BY DEF Tag
<1> QED OBVIOUS

\* A tag tells the number and the wire type.
LEMMA TagInjective ==
    ASSUME NEW n \in Nat, NEW m \in Nat, NEW v \in 0..7, NEW w \in 0..7, Tag(n, v) = Tag(m, w)
    PROVE  n = m /\ v = w
BY TagFacts

\* SetToSeq lists the elements of a finite set, each once.
LEMMA Listed ==
    ASSUME NEW T, IsFiniteSet(T)
    PROVE  /\ SetToSeq(T) \in [1..Cardinality(T) -> T] /\ Cardinality(T) \in Nat
           /\ IsInjective(SetToSeq(T)) /\ Range(SetToSeq(T)) = T
<1>1. Cardinality(T) \in Nat /\ ExistsBijection(1..Cardinality(T), T)
  BY FS_CardinalityType
<1>2. PICK f : f \in Bijection(1..Cardinality(T), T)
  BY <1>1 DEF ExistsBijection
<1>3. f \in [1..Cardinality(T) -> T] /\ IsInjective(f)
  BY <1>2 DEF Bijection, Injection, IsInjective
<1>4. SetToSeq(T) \in [1..Cardinality(T) -> T] /\ IsInjective(SetToSeq(T))
  BY <1>3 DEF SetToSeq
<1>5. SetToSeq(T) \in Injection(1..Cardinality(T), T)
  BY <1>4 DEF Injection, IsInjective
<1>6. Cardinality(1..Cardinality(T)) = Cardinality(T)
  BY <1>1, FS_Interval
<1>7. SetToSeq(T) \in Surjection(1..Cardinality(T), T)
  BY <1>5, <1>6, FS_Injection
<1>8. Range(SetToSeq(T)) = T
  BY <1>4, <1>7 DEF Surjection, Range
<1> QED BY <1>1, <1>4, <1>8

Keys(value) == SetToSeq(DOMAIN value)

\* The i-th message that a field writes.
Element(field, value, i) == IF field.card = "map" THEN Entry(value, Keys(value)[i]) ELSE value[i]

Count(field, value, peer) ==
    CASE field.card = "one"  -> IF IsDefault(field, value) THEN 0 ELSE 1
      [] field.card = "many" -> IF Packs(field, peer) THEN 1 ELSE Len(value)
      [] field.card = "map"  -> Cardinality(DOMAIN value)

\* The tag and the value of the i-th piece of a field that is not of messages.
PieceTag(field, peer) ==
    IF field.card = "many" /\ Packs(field, peer) THEN Tag(field.no, 2) ELSE Tag(field.no, WireType(field.type))

PieceValue(field, value, peer, i) ==
    CASE field.card = "one"  -> WriteScalar(field.type, value)
      [] field.card = "many" -> IF Packs(field, peer)
                                THEN [k \in DOMAIN value |-> WriteScalar(field.type, value[k])]
                                ELSE WriteScalar(field.type, value[i])

\* Only numbers are packed.
LEMMA MessageNeverPacked ==
    ASSUME NEW field, IsField(field), NEW peer, field.type = "message"
    PROVE  ~Packs(field, peer) /\ ~IsNumber(field)
BY DEF IsField, Packs, IsNumber, WireType

LEMMA CountFacts ==
    ASSUME NEW field, NEW value, NEW peer, IsField(field), IsValue(field, value)
    PROVE  /\ Count(field, value, peer) \in Nat
           /\ field.card = "map" =>
                /\ Count(field, value, peer) = Cardinality(DOMAIN value)
                /\ Keys(value) \in [1..Cardinality(DOMAIN value) -> DOMAIN value]
                /\ IsInjective(Keys(value)) /\ Range(Keys(value)) = DOMAIN value
           /\ field.card = "one" => Count(field, value, peer) = IF IsDefault(field, value) THEN 0 ELSE 1
           /\ field.card = "many" => /\ Count(field, value, peer) = IF Packs(field, peer) THEN 1 ELSE Len(value)
                                     /\ value \in Seq(Range(value)) /\ DOMAIN value = 1..Len(value)
                                     /\ Len(value) \in Nat
           /\ field.card = "one" /\ field.type = "message" /\ ~IsDefault(field, value) =>
                Len(value) = 1 /\ DOMAIN value = {1} /\ value = <<value[1]>>
<1>1. CASE field.card = "map"
  <2>1. IsFiniteSet(DOMAIN value)
    BY <1>1 DEF IsValue
  <2>2. Count(field, value, peer) = Cardinality(DOMAIN value)
    BY <1>1 DEF Count
  <2> QED BY <1>1, <2>1, <2>2, Listed DEF Keys
<1>2. CASE field.card = "many"
  <2>1. value \in Seq(Range(value))
    BY <1>2 DEF IsValue
  <2>2. Count(field, value, peer) = IF Packs(field, peer) THEN 1 ELSE Len(value)
    BY <1>2 DEF Count
  <2>3. Len(value) \in Nat /\ DOMAIN value = 1..Len(value)
    BY <2>1
  <2> QED BY <1>2, <2>1, <2>2, <2>3
<1>3. CASE field.card = "one"
  <2>1. Count(field, value, peer) = IF IsDefault(field, value) THEN 0 ELSE 1
    BY <1>3 DEF Count
  <2>2. ASSUME field.type = "message", ~IsDefault(field, value)
        PROVE  Len(value) = 1 /\ DOMAIN value = {1} /\ value = <<value[1]>>
    <3>1. value \in Seq(Range(value)) /\ Len(value) <= 1 /\ value # <<>>
      BY <1>3, <2>2 DEF IsValue, IsDefault, Default, Zero
    <3> QED BY <3>1, OneElement
  <2> QED BY <1>3, <2>1, <2>2
<1> QED BY <1>1, <1>2, <1>3 DEF IsField

\* The pieces of a field: one token each, or one message each.
LEMMA FieldPieces ==
    ASSUME NEW e, NEW field, NEW value, NEW peer, IsField(field), IsValue(field, value),
           NEW P, P = EncodeField(e, field, value, peer), NEW n, n = Count(field, value, peer)
    PROVE  /\ P = [i \in 1..n |-> P[i]]
           /\ field.type # "message" =>
                \A i \in 1..n : P[i] = <<Token(PieceTag(field, peer), PieceValue(field, value, peer, i), 0)>>
           /\ field.type = "message" =>
                \A i \in 1..n : P[i] = Framed(field.no, e[<<field.of, Element(field, value, i)>>])
<1> DEFINE scalar(v) == <<Token(Tag(field.no, WireType(field.type)), WriteScalar(field.type, v), 0)>>
           one(v)    == IF field.type = "message" THEN Framed(field.no, e[<<field.of, v>>]) ELSE scalar(v)
           keys      == Keys(value)
<1>1. CASE field.card = "one" /\ IsDefault(field, value)
  <2>1. P = <<>> /\ n = 0
    BY <1>1, CountFacts DEF EncodeField
  <2>2. 1..n = {}
    BY <2>1
  <2> QED BY <2>1, <2>2
<1>2. CASE field.card = "one" /\ ~IsDefault(field, value)
  <2>1. P = <<one(IF field.type = "message" THEN value[1] ELSE value)>>
    BY <1>2 DEF EncodeField
  <2>2. n = 1 /\ 1..1 = {1}
    BY <1>2, CountFacts
  <2>3. P = [i \in 1..n |-> P[i]] /\ P[1] = one(IF field.type = "message" THEN value[1] ELSE value)
    <3> HIDE DEF one
    <3> QED BY <2>1, <2>2
  <2>4. field.type # "message" => one(value) = <<Token(PieceTag(field, peer), PieceValue(field, value, peer, 1), 0)>>
    BY <1>2 DEF PieceTag, PieceValue
  <2>5. field.type = "message" => one(value[1]) = Framed(field.no, e[<<field.of, Element(field, value, 1)>>])
    BY <1>2 DEF Element
  <2> HIDE DEF one
  <2> QED BY <2>2, <2>3, <2>4, <2>5
<1>3. CASE field.card = "many" /\ Packs(field, peer)
  <2>1. P = << <<Token(Tag(field.no, 2), [k \in DOMAIN value |-> WriteScalar(field.type, value[k])], 0)>> >>
    BY <1>3 DEF EncodeField
  <2>2. n = 1 /\ 1..1 = {1}
    BY <1>3, CountFacts
  <2>3. field.type # "message"
    BY <1>3, MessageNeverPacked
  <2>4. <<Token(Tag(field.no, 2), [k \in DOMAIN value |-> WriteScalar(field.type, value[k])], 0)>>
          = <<Token(PieceTag(field, peer), PieceValue(field, value, peer, 1), 0)>>
    BY <1>3 DEF PieceTag, PieceValue
  <2>5. P = [i \in 1..n |-> P[i]] /\ P[1] = <<Token(PieceTag(field, peer), PieceValue(field, value, peer, 1), 0)>>
    <3> QED BY <2>1, <2>2, <2>4
  <2> QED BY <2>2, <2>3, <2>5
<1>4. CASE field.card = "many" /\ ~Packs(field, peer)
  <2>1. P = [i \in DOMAIN value |-> one(value[i])]
    BY <1>4 DEF EncodeField
  <2>2. DOMAIN value = 1..n
    BY <1>4, CountFacts
  <2>3. \A i \in 1..n : field.type # "message" =>
          one(value[i]) = <<Token(PieceTag(field, peer), PieceValue(field, value, peer, i), 0)>>
    BY <1>4 DEF PieceTag, PieceValue
  <2>4. \A i \in 1..n : field.type = "message" =>
          one(value[i]) = Framed(field.no, e[<<field.of, Element(field, value, i)>>])
    BY <1>4 DEF Element
  <2> HIDE DEF one
  <2> QED BY <2>1, <2>2, <2>3, <2>4
<1>5. CASE field.card = "map"
  <2>1. P = [i \in DOMAIN keys |-> one(Entry(value, keys[i]))]
    BY <1>5 DEF EncodeField, Keys
  <2>2. DOMAIN keys = 1..n /\ field.type = "message"
    BY <1>5, CountFacts DEF IsField
  <2>3. \A i \in 1..n : one(Entry(value, keys[i])) = Framed(field.no, e[<<field.of, Element(field, value, i)>>])
    BY <1>5, <2>2 DEF Element
  <2> HIDE DEF one
  <2> QED BY <2>1, <2>2, <2>3
<1> QED BY <1>1, <1>2, <1>3, <1>4, <1>5 DEF IsField

LEMMA FieldLength ==
    ASSUME NEW e, NEW field, NEW value, NEW peer, IsField(field), IsValue(field, value)
    PROVE  /\ Count(field, value, peer) \in Nat
           /\ IsSeq(EncodeField(e, field, value, peer))
           /\ Len(EncodeField(e, field, value, peer)) = Count(field, value, peer)
<1> DEFINE P == EncodeField(e, field, value, peer)
           n == Count(field, value, peer)
<1>1. n \in Nat
  BY CountFacts
<1>2. P = [i \in 1..n |-> P[i]]
  BY FieldPieces
<1> HIDE DEF P, n
<1>3. IsSeq(P) /\ Len(P) = n
  BY <1>1, <1>2, FunctionIsSeq
<1> QED BY <1>1, <1>3 DEF P, n

----------------------------------------------------------------------------
(* What a message is written as: fields in their places, each in pieces.   *)

Slots(peer, h, p) == EncodeFields(Encode(peer)[h - 1], p, peer)
Pieces(peer, h, p) == FlattenSeq(Slots(peer, h, p))

LEMMA PlaceFacts ==
    ASSUME NEW peer \in Peers, NEW n \in 1..MaxNo
    PROVE  Place(peer, n) \in 1..MaxNo /\ Place(peer, Place(peer, n)) = n
<1>1. MaxNo \in Nat /\ peer.descending \in BOOLEAN
  BY WireAssumption
<1> QED BY <1>1 DEF Place

LEMMA FramedFacts ==
    ASSUME NEW n, NEW body, IsSeq(body)
    PROVE  /\ IsSeq(Framed(n, body)) /\ Len(Framed(n, body)) = 1 + Len(body)
           /\ Framed(n, body)[1] = Token(Tag(n, 2), <<>>, Len(body))
           /\ \A k \in 1..Len(body) : Framed(n, body)[1 + k] = body[k]
<1> DEFINE t == Token(Tag(n, 2), <<>>, Len(body))
           T == Range(body) \cup {t}
           a == <<t>>
<1>1. a \in Seq(T) /\ body \in Seq(T) /\ Len(a) = 1 /\ a[1] = t /\ Len(body) \in Nat
  BY DEF IsSeq
<1>2. Framed(n, body) = a \o body
  BY DEF Framed
<1> HIDE DEF a, T, t
<1>3. /\ a \o body \in Seq(T) /\ Len(a \o body) = Len(a) + Len(body)
      /\ \A i \in 1..(Len(a) + Len(body)) : (a \o body)[i] = IF i <= Len(a) THEN a[i] ELSE body[i - Len(a)]
  <2>1. a \in Seq(T) /\ body \in Seq(T)
    BY <1>1
  <2> QED BY <2>1, ConcatProperties
<1>4. (a \o body)[1] = t
  BY <1>1, <1>3
<1>5. ASSUME NEW k \in 1..Len(body) PROVE (a \o body)[1 + k] = body[k]
  <2>1. 1 + k \in 1..(1 + Len(body)) /\ ~(1 + k <= 1) /\ (1 + k) - 1 = k
    BY <1>1
  <2> QED BY <1>1, <1>3, <2>1
<1> QED BY <1>1, <1>2, <1>3, <1>4, <1>5, SeqIsSeq DEF t

LEMMA TokenIsSeq ==
    ASSUME NEW t
    PROVE  IsSeq(<<t>>) /\ Len(<<t>>) = 1 /\ <<t>>[1] = t
<1>1. <<t>> \in Seq({t})
  OBVIOUS
<1> QED BY <1>1, SeqIsSeq

\* What a sender adds is padding, or has tags that no field has.
LEMMA ExtraPieces ==
    ASSUME NEW peer \in Peers
    PROVE  /\ IsSeq(Extra(peer)) /\ \A i \in 1..Len(Extra(peer)) : IsSeq(Extra(peer)[i])
           /\ \/ Extra(peer) = << <<Token(0, 0, 0)>> >>
              \/ \A i \in 1..Len(Extra(peer)) :
                    /\ Len(Extra(peer)[i]) = 1 + Extra(peer)[i][1].body /\ Extra(peer)[i][1].body \in Nat
                    /\ \E n \in Nat : \E w \in 0..2 :
                          Extra(peer)[i][1].tag = Tag(n, w) /\ (n = MaxNo + 1 \/ (n # 0 /\ w = 1))
<1> DEFINE X == Extra(peer)
           Good(x) == /\ IsSeq(x) /\ Len(x) = 1 + x[1].body /\ x[1].body \in Nat
                      /\ \E n \in Nat : \E w \in 0..2 : x[1].tag = Tag(n, w) /\ (n = MaxNo + 1 \/ (n # 0 /\ w = 1))
<1>0. peer.extra \in {"none", "number", "message", "retyped", "padding"} /\ MaxNo \in Nat
  BY WireAssumption
<1>1. ASSUME NEW n \in Nat, NEW w \in 0..2, n = MaxNo + 1 \/ (n # 0 /\ w = 1), NEW v
      PROVE  Good(<<Token(Tag(n, w), v, 0)>>)
  <2>1. Token(Tag(n, w), v, 0).tag = Tag(n, w) /\ Token(Tag(n, w), v, 0).body = 0
    BY DEF Token
  <2> QED BY <1>1, <2>1, TokenIsSeq
<1>2. CASE peer.extra = "none"
  <2>1. X = <<>> /\ Len(X) = 0 /\ IsSeq(X) /\ 1..0 = {}
    BY <1>2 DEF Extra, IsSeq
  <2> QED BY <2>1
<1>3. CASE peer.extra = "number"
  <2>1. X = << <<Token(Tag(MaxNo + 1, 0), 1, 0)>> >>
    BY <1>3 DEF Extra
  <2>2. Good(<<Token(Tag(MaxNo + 1, 0), 1, 0)>>)
    BY <1>0, <1>1
  <2>3. IsSeq(X) /\ Len(X) = 1 /\ X[1] = <<Token(Tag(MaxNo + 1, 0), 1, 0)>> /\ 1..1 = {1}
    BY <2>1, TokenIsSeq
  <2> HIDE DEF X
  <2> QED BY <2>2, <2>3 DEF X
<1>4. CASE peer.extra = "message"
  <2> DEFINE body == <<Token(Tag(1, 2), "b", 0), Token(Tag(2, 5), "0.5", 0)>>
             x == Framed(MaxNo + 1, body)
  <2>1. X = <<x>>
    BY <1>4 DEF Extra
  <2>2. IsSeq(body) /\ Len(body) \in Nat
    <3>1. body \in Seq({Token(Tag(1, 2), "b", 0), Token(Tag(2, 5), "0.5", 0)})
      OBVIOUS
    <3> HIDE DEF body
    <3> QED BY <3>1, SeqIsSeq
  <2> HIDE DEF body
  <2>3. IsSeq(x) /\ Len(x) = 1 + Len(body) /\ x[1] = Token(Tag(MaxNo + 1, 2), <<>>, Len(body))
    BY <2>2, FramedFacts
  <2>4. x[1].tag = Tag(MaxNo + 1, 2) /\ x[1].body = Len(body)
    BY <2>3 DEF Token
  <2>5. MaxNo + 1 \in Nat /\ 2 \in 0..2
    BY <1>0
  <2>6. Good(x)
    <3> HIDE DEF x
    <3> QED BY <2>2, <2>3, <2>4, <2>5
  <2>7. IsSeq(X) /\ Len(X) = 1 /\ X[1] = x /\ 1..1 = {1}
    BY <2>1, TokenIsSeq
  <2> HIDE DEF X, x
  <2> QED BY <2>6, <2>7 DEF X
<1>5. CASE peer.extra = "retyped"
  <2>1. X = [i \in 1..MaxNo |-> <<Token(Tag(i, 1), "0.5", 0)>>]
    BY <1>5 DEF Extra
  <2>2. IsSeq(X) /\ Len(X) = MaxNo
    <3> HIDE DEF X
    <3>1. X = [i \in 1..MaxNo |-> X[i]]
      BY <2>1
    <3> QED BY <1>0, <3>1, FunctionIsSeq
  <2>3. \A i \in 1..MaxNo : Good(<<Token(Tag(i, 1), "0.5", 0)>>)
    BY <1>0, <1>1
  <2>4. \A i \in 1..MaxNo : Good(X[i])
    <3> HIDE DEF Good, X
    <3> QED BY <2>1, <2>3
  <2> HIDE DEF X
  <2> QED BY <2>2, <2>4 DEF X
<1>6. CASE peer.extra = "padding"
  <2>1. X = << <<Token(0, 0, 0)>> >>
    BY <1>6 DEF Extra
  <2>2. IsSeq(X) /\ Len(X) = 1 /\ X[1] = <<Token(0, 0, 0)>> /\ 1..1 = {1} /\ IsSeq(<<Token(0, 0, 0)>>)
    BY <2>1, TokenIsSeq
  <2> QED BY <2>1, <2>2
<1> QED BY <1>0, <1>2, <1>3, <1>4, <1>5, <1>6

\* Every field has one place in the order of the sender.
LEMMA SlotFacts ==
    ASSUME NEW peer \in Peers, NEW h \in 1..MaxHeight, NEW p \in Messages[h]
    PROVE  /\ IsSeq(Slots(peer, h, p)) /\ Len(Slots(peer, h, p)) = MaxNo + 1
           /\ Slots(peer, h, p)[MaxNo + 1] = Extra(peer)
           /\ \A f \in DOMAIN p[1] :
                 /\ p[1][f].no \in 1..MaxNo
                 /\ Slots(peer, h, p)[Place(peer, p[1][f].no)]
                      = EncodeField(Encode(peer)[h - 1], p[1][f], p[2][f], peer)
           /\ \A j \in 1..MaxNo : \/ Slots(peer, h, p)[j] = <<>>
                                  \/ \E f \in DOMAIN p[1] : j = Place(peer, p[1][f].no)
<1> DEFINE e == Encode(peer)[h - 1]
           Has(i) == \E f \in DOMAIN p[1] : p[1][f].no = Place(peer, i)
           At(i) == FieldNo(p[1], Place(peer, i))
           b(i) == IF Has(i) THEN EncodeField(e, p[1][At(i)], p[2][At(i)], peer) ELSE <<>>
           B == [i \in 1..MaxNo |-> b(i)]
           T == Range(B) \cup {Extra(peer)}
<1>1. MaxNo \in Nat /\ h \in 0..MaxHeight
  BY WireAssumption
<1>2. /\ \A f \in DOMAIN p[1] : p[1][f].no \in 1..MaxNo
      /\ \A f, g \in DOMAIN p[1] : p[1][f].no = p[1][g].no => f = g
  BY <1>1, MessageFacts DEF IsType, IsField
<1>3. Slots(peer, h, p) = Append(B, Extra(peer))
  BY DEF Slots, EncodeFields
<1> HIDE DEF b
<1>4. /\ Append(B, Extra(peer)) \in Seq(T) /\ Len(Append(B, Extra(peer))) = MaxNo + 1
      /\ Append(B, Extra(peer))[MaxNo + 1] = Extra(peer)
      /\ \A i \in 1..MaxNo : Append(B, Extra(peer))[i] = b(i)
  <2>1. B \in Seq(T) /\ Len(B) = MaxNo /\ Extra(peer) \in T /\ \A i \in 1..MaxNo : B[i] = b(i)
    <3>1. B \in [1..MaxNo -> T] /\ Extra(peer) \in T
      BY DEF Range
    <3> QED BY <1>1, <3>1
  <2> HIDE DEF B, T
  <2>2. /\ Append(B, Extra(peer)) \in Seq(T) /\ Len(Append(B, Extra(peer))) = Len(B) + 1
        /\ \A i \in 1..Len(B) : Append(B, Extra(peer))[i] = B[i]
        /\ Append(B, Extra(peer))[Len(B) + 1] = Extra(peer)
    BY <2>1, AppendProperties
  <2> QED BY <2>1, <2>2
<1> HIDE DEF B, T
<1>5. ASSUME NEW f \in DOMAIN p[1]
      PROVE  Slots(peer, h, p)[Place(peer, p[1][f].no)] = EncodeField(e, p[1][f], p[2][f], peer)
  <2> DEFINE j == Place(peer, p[1][f].no)
  <2>1. j \in 1..MaxNo /\ Place(peer, j) = p[1][f].no
    BY <1>2, PlaceFacts
  <2>2. At(j) = f
    BY <1>2, <2>1 DEF FieldNo
  <2>3. Has(j)
    BY <2>1
  <2> HIDE DEF j, Has, At
  <2>4. b(j) = EncodeField(e, p[1][f], p[2][f], peer)
    BY <2>2, <2>3 DEF b
  <2> QED BY <1>3, <1>4, <2>1, <2>4 DEF j
<1>6. ASSUME NEW j \in 1..MaxNo, Slots(peer, h, p)[j] # <<>>
      PROVE  \E f \in DOMAIN p[1] : j = Place(peer, p[1][f].no)
  <2>1. b(j) # <<>>
    BY <1>3, <1>4, <1>6
  <2>2. Has(j)
    BY <2>1 DEF b
  <2>3. PICK f \in DOMAIN p[1] : p[1][f].no = Place(peer, j)
    BY <2>2
  <2>4. Place(peer, Place(peer, j)) = j
    BY PlaceFacts
  <2> QED BY <2>3, <2>4
<1>7. IsSeq(Slots(peer, h, p)) /\ Len(Slots(peer, h, p)) = MaxNo + 1 /\ Slots(peer, h, p)[MaxNo + 1] = Extra(peer)
  BY <1>3, <1>4, SeqIsSeq
<1> QED BY <1>2, <1>5, <1>6, <1>7

LEMMA FieldFacts ==
    ASSUME NEW h \in 1..MaxHeight, NEW p \in Messages[h], NEW f \in DOMAIN p[1]
    PROVE  IsField(p[1][f]) /\ IsValue(p[1][f], p[2][f])
<1>1. h \in 0..MaxHeight
  BY WireAssumption
<1>2. IsType(p[1]) /\ IsMessage(p)
  BY <1>1, MessageFacts
<1> QED BY <1>2 DEF IsType, IsMessage

LEMMA ElementFacts ==
    ASSUME NEW peer \in Peers, NEW h \in 1..MaxHeight, NEW p \in Messages[h], NEW f \in DOMAIN p[1],
           p[1][f].type = "message", NEW i \in 1..Count(p[1][f], p[2][f], peer)
    PROVE  <<p[1][f].of, Element(p[1][f], p[2][f], i)>> \in Messages[h - 1]
<1> DEFINE field == p[1][f]
           value == p[2][f]
<1>1. IsField(field) /\ IsValue(field, value)
  BY FieldFacts
<1>2. CASE field.card = "map"
  <2>1. Keys(value)[i] \in DOMAIN value
    BY <1>1, <1>2, CountFacts
  <2>2. Element(field, value, i) = Entry(value, Keys(value)[i])
    BY <1>2 DEF Element
  <2> QED BY <1>2, <2>1, <2>2, InsideFacts
<1>3. CASE field.card # "map"
  <2>1. Element(field, value, i) = value[i]
    BY <1>3 DEF Element
  <2>2. i \in DOMAIN value
    <3>1. CASE field.card = "many"
      BY <1>1, <3>1, CountFacts, MessageNeverPacked
    <3>2. CASE field.card = "one"
      <4>1. ~IsDefault(field, value) /\ i = 1
        BY <1>1, <3>2, CountFacts
      <4> QED BY <1>1, <3>2, <4>1, CountFacts
    <3> QED BY <1>1, <1>3, <3>1, <3>2 DEF IsField
  <2> QED BY <1>3, <2>1, <2>2, InsideFacts
<1> QED BY <1>2, <1>3

LEMMA PiecesAreSeqs ==
    ASSUME NEW peer \in Peers, NEW h \in 1..MaxHeight, NEW p \in Messages[h],
           \A q \in Messages[h - 1] : IsSeq(Encode(peer)[h - 1][q])
    PROVE  /\ \A j \in 1..(MaxNo + 1) : /\ IsSeq(Slots(peer, h, p)[j])
                                        /\ \A i \in 1..Len(Slots(peer, h, p)[j]) : IsSeq(Slots(peer, h, p)[j][i])
           /\ IsSeq(Pieces(peer, h, p))
           /\ \A u \in 1..Len(Pieces(peer, h, p)) : IsSeq(Pieces(peer, h, p)[u])
           /\ Encode(peer)[h][p] = FlattenSeq(Pieces(peer, h, p)) /\ IsSeq(Encode(peer)[h][p])
<1> DEFINE S == Slots(peer, h, p)
           e == Encode(peer)[h - 1]
<1>1. /\ IsSeq(S) /\ Len(S) = MaxNo + 1 /\ S[MaxNo + 1] = Extra(peer)
      /\ \A f \in DOMAIN p[1] : S[Place(peer, p[1][f].no)] = EncodeField(e, p[1][f], p[2][f], peer)
      /\ \A j \in 1..MaxNo : S[j] = <<>> \/ \E f \in DOMAIN p[1] : j = Place(peer, p[1][f].no)
  BY SlotFacts
<1>2. MaxNo \in Nat /\ h \in 0..MaxHeight
  BY WireAssumption
<1>3. ASSUME NEW f \in DOMAIN p[1]
      PROVE  LET P == EncodeField(e, p[1][f], p[2][f], peer)
             IN  IsSeq(P) /\ \A i \in 1..Len(P) : IsSeq(P[i])
  <2> DEFINE field == p[1][f]
             value == p[2][f]
             P == EncodeField(e, field, value, peer)
             n == Count(field, value, peer)
  <2>1. IsField(field) /\ IsValue(field, value)
    BY FieldFacts
  <2>2. n \in Nat
    BY <2>1, CountFacts
  <2>3. /\ P = [i \in 1..n |-> P[i]]
        /\ field.type # "message" =>
             \A i \in 1..n : P[i] = <<Token(PieceTag(field, peer), PieceValue(field, value, peer, i), 0)>>
        /\ field.type = "message" =>
             \A i \in 1..n : P[i] = Framed(field.no, e[<<field.of, Element(field, value, i)>>])
    <3> HIDE DEF e, field, value
    <3> QED BY <2>1, FieldPieces
  <2>4. IsSeq(P) /\ Len(P) = n
    <3> HIDE DEF P, n
    <3> QED BY <2>2, <2>3, FunctionIsSeq
  <2>5. ASSUME NEW i \in 1..n PROVE IsSeq(P[i])
    <3>1. CASE field.type # "message"
      BY <2>3, <3>1, TokenIsSeq
    <3>2. CASE field.type = "message"
      <4>1. IsSeq(e[<<field.of, Element(field, value, i)>>])
        BY <3>2, ElementFacts
      <4>2. P[i] = Framed(field.no, e[<<field.of, Element(field, value, i)>>])
        BY <2>3, <3>2
      <4> HIDE DEF P, e
      <4> QED BY <4>1, <4>2, FramedFacts
    <3> QED BY <3>1, <3>2
  <2> QED BY <2>4, <2>5
<1> HIDE DEF S, e
<1>4. ASSUME NEW j \in 1..(MaxNo + 1) PROVE IsSeq(S[j]) /\ \A i \in 1..Len(S[j]) : IsSeq(S[j][i])
  <2>1. CASE j = MaxNo + 1
    BY <1>1, <2>1, ExtraPieces
  <2>2. CASE j \in 1..MaxNo /\ S[j] = <<>>
    <3>1. IsSeq(<<>>) /\ Len(<<>>) = 0 /\ 1..0 = {}
      BY DEF IsSeq
    <3> QED BY <2>2, <3>1
  <2>3. CASE j \in 1..MaxNo /\ \E f \in DOMAIN p[1] : j = Place(peer, p[1][f].no)
    BY <1>1, <1>3, <2>3
  <2> QED BY <1>1, <1>2, <2>1, <2>2, <2>3
<1>5. IsSeq(FlattenSeq(S)) /\ Len(FlattenSeq(S)) = Offset(S, Len(S))
  BY <1>1, <1>4, Flattened
<1>6. ASSUME NEW u \in 1..Len(FlattenSeq(S)) PROVE IsSeq(FlattenSeq(S)[u])
  <2>0. PICK k \in 1..Len(S) : \E i \in 1..Len(S[k]) : u = Offset(S, k - 1) + i
    BY <1>1, <1>4, <1>5, FlattenedFrom
  <2>1. PICK i \in 1..Len(S[k]) : u = Offset(S, k - 1) + i
    BY <2>0
  <2>2. FlattenSeq(S)[u] = S[k][i]
    BY <1>1, <1>4, <2>1, Flattened
  <2> QED BY <1>1, <1>4, <2>2
<1>7. Encode(peer)[h] = [q \in Messages[h] |-> FlattenSeq(FlattenSeq(EncodeFields(Encode(peer)[h - 1], q, peer)))]
  BY <1>2, EncodeRecursion
<1>8. Encode(peer)[h][p] = FlattenSeq(FlattenSeq(S))
  BY <1>7 DEF S, Slots
<1>9. IsSeq(Encode(peer)[h][p])
  BY <1>5, <1>6, <1>8, Flattened
<1> QED BY <1>4, <1>5, <1>6, <1>8, <1>9 DEF Pieces, S

LEMMA EncodedAreSeqs ==
    ASSUME NEW peer \in Peers
    PROVE  \A h \in 0..MaxHeight : \A p \in Messages[h] : IsSeq(Encode(peer)[h][p])
<1> DEFINE Good(h) == \A p \in Messages[h] : IsSeq(Encode(peer)[h][p])
           S == {h \in 0..MaxHeight : Good(h)}
<1>1. MaxHeight \in Nat
  BY WireAssumption
<1>2. 0 \in S
  BY <1>1, MessageFacts
<1>3. ASSUME NEW h \in 0..MaxHeight, h \in S, h < MaxHeight PROVE h + 1 \in S
  <2>1. h + 1 \in 1..MaxHeight /\ h + 1 \in 0..MaxHeight /\ (h + 1) - 1 = h
    BY <1>1, <1>3
  <2>2. \A q \in Messages[h] : IsSeq(Encode(peer)[h][q])
    BY <1>3
  <2>3. Good(h + 1)
    BY <2>1, <2>2, PiecesAreSeqs
  <2> QED BY <2>1, <2>3
<1> HIDE DEF S
<1>4. 0..MaxHeight \subseteq S
  BY <1>1, <1>2, <1>3, NatSteps
<1> QED BY <1>4 DEF S

\* A message on the wire: pieces one after the other, the places of its fields
\* one after the other.
LEMMA Layout ==
    ASSUME NEW peer \in Peers, NEW h \in 1..MaxHeight, NEW p \in Messages[h]
    PROVE  /\ IsSeq(Slots(peer, h, p)) /\ Len(Slots(peer, h, p)) = MaxNo + 1
           /\ \A j \in 1..(MaxNo + 1) : /\ IsSeq(Slots(peer, h, p)[j]) /\ Len(Slots(peer, h, p)[j]) \in Nat
                                        /\ \A i \in 1..Len(Slots(peer, h, p)[j]) : IsSeq(Slots(peer, h, p)[j][i])
           /\ IsSeq(Pieces(peer, h, p))
           /\ \A u \in 1..Len(Pieces(peer, h, p)) : IsSeq(Pieces(peer, h, p)[u])
           /\ Encode(peer)[h][p] = FlattenSeq(Pieces(peer, h, p)) /\ IsSeq(Encode(peer)[h][p])
<1>1. h - 1 \in 0..MaxHeight
  BY WireAssumption
<1>2. \A q \in Messages[h - 1] : IsSeq(Encode(peer)[h - 1][q])
  BY <1>1, EncodedAreSeqs
<1> QED BY <1>2, PiecesAreSeqs, SlotFacts, IsSeqFacts

----------------------------------------------------------------------------
(* What a decoder has after some of the pieces.                            *)

\* What decode must make of a field.
Final(h, p, f) == FieldAfter("wire", After("wire")[h - 1], p[1][f], p[2][f])

\* The field after c of its pieces.
Upto(peer, h, p, f, c) ==
    CASE p[1][f].card = "one"  -> IF c = 0 THEN Default(p[1][f]) ELSE Final(h, p, f)
      [] p[1][f].card = "many" -> IF Packs(p[1][f], peer)
                                  THEN IF c = 0 THEN <<>> ELSE Final(h, p, f)
                                  ELSE [i \in 1..c |-> Final(h, p, f)[i]]
      [] p[1][f].card = "map"  -> [k \in {Keys(p[2][f])[i] : i \in 1..c} |-> p[2][f][k]]

\* What is written of a scalar is what must come out of it.
LEMMA ScalarWritten ==
    ASSUME NEW field, field.type # "message", NEW v, NEW after
    PROVE  ScalarAfter("wire", after, field, v) = WriteScalar(field.type, v)
BY DEF ScalarAfter, WriteScalar

\* The value of a repeated field, element by element.
LEMMA FinalMany ==
    ASSUME NEW h \in 1..MaxHeight, NEW p \in Messages[h], NEW f \in DOMAIN p[1], p[1][f].card = "many"
    PROVE  /\ p[2][f] \in Seq(Range(p[2][f])) /\ Len(p[2][f]) \in Nat /\ DOMAIN p[2][f] = 1..Len(p[2][f])
           /\ Final(h, p, f) =
                [i \in 1..Len(p[2][f]) |-> ScalarAfter("wire", After("wire")[h - 1], p[1][f], p[2][f][i])]
<1> DEFINE field == p[1][f]
           value == p[2][f]
           after == After("wire")[h - 1]
<1>1. IsField(field) /\ IsValue(field, value)
  BY FieldFacts
<1>2. value \in Seq(Range(value)) /\ Len(value) \in Nat /\ DOMAIN value = 1..Len(value)
  BY <1>1, CountFacts
<1>3. CASE IsDefault(field, value)
  <2>1. value = <<>> /\ Final(h, p, f) = <<>>
    BY <1>3 DEF IsDefault, Final, FieldAfter, Default
  <2>2. 1..Len(value) = {}
    BY <2>1
  <2> HIDE DEF value, after, field
  <2>3. <<>> = [i \in 1..Len(value) |-> ScalarAfter("wire", after, field, value[i])]
    BY <2>2
  <2> QED BY <1>2, <2>1, <2>3 DEF value, after, field
<1>4. CASE ~IsDefault(field, value)
  <2>1. Final(h, p, f) = [i \in DOMAIN value |-> ScalarAfter("wire", after, field, value[i])]
    BY <1>4 DEF Final, FieldAfter
  <2> QED BY <1>2, <2>1
<1> QED BY <1>3, <1>4

\* No piece read: the default.
LEMMA UptoStart ==
    ASSUME NEW peer \in Peers, NEW h \in 1..MaxHeight, NEW p \in Messages[h], NEW f \in DOMAIN p[1]
    PROVE  Upto(peer, h, p, f, 0) = Default(p[1][f])
<1>1. IsField(p[1][f]) /\ 1..0 = {}
  BY FieldFacts
<1>2. CASE p[1][f].card = "one"
  BY <1>2 DEF Upto
<1>3. CASE p[1][f].card = "many"
  <2>1. Default(p[1][f]) = <<>>
    BY <1>3 DEF Default
  <2>2. [i \in 1..0 |-> Final(h, p, f)[i]] = <<>>
    OBVIOUS
  <2> QED BY <1>3, <2>1, <2>2 DEF Upto
<1>4. CASE p[1][f].card = "map"
  <2>1. Default(p[1][f]) = <<>>
    BY <1>4 DEF Default
  <2>2. Upto(peer, h, p, f, 0) = [k \in {Keys(p[2][f])[i] : i \in 1..0} |-> p[2][f][k]]
    BY <1>4 DEF Upto
  <2>3. {Keys(p[2][f])[i] : i \in 1..0} = {}
    OBVIOUS
  <2>4. [k \in {} |-> p[2][f][k]] = <<>>
    OBVIOUS
  <2> QED BY <2>1, <2>2, <2>3, <2>4
<1> QED BY <1>1, <1>2, <1>3, <1>4 DEF IsField

\* All pieces read: the field as it must come out.
LEMMA UptoEnd ==
    ASSUME NEW peer \in Peers, NEW h \in 1..MaxHeight, NEW p \in Messages[h], NEW f \in DOMAIN p[1]
    PROVE  Upto(peer, h, p, f, Count(p[1][f], p[2][f], peer)) = Final(h, p, f)
<1> DEFINE field == p[1][f]
           value == p[2][f]
           n == Count(field, value, peer)
<1>1. IsField(field) /\ IsValue(field, value)
  BY FieldFacts
<1>2. CASE field.card = "one"
  <2>1. n = IF IsDefault(field, value) THEN 0 ELSE 1
    BY <1>1, <1>2, CountFacts
  <2>2. IsDefault(field, value) => Final(h, p, f) = Default(field)
    BY DEF Final, FieldAfter
  <2>3. Upto(peer, h, p, f, n) = IF n = 0 THEN Default(field) ELSE Final(h, p, f)
    BY <1>2 DEF Upto
  <2>4. Upto(peer, h, p, f, n) = Final(h, p, f)
    <3> HIDE DEF n
    <3> QED BY <2>1, <2>2, <2>3
  <2> QED BY <2>4
<1>3. CASE field.card = "many" /\ Packs(field, peer)
  <2>1. n = 1
    BY <1>1, <1>3, CountFacts
  <2> QED BY <1>3, <2>1 DEF Upto
<1>4. CASE field.card = "many" /\ ~Packs(field, peer)
  <2>1. n = Len(value)
    BY <1>1, <1>4, CountFacts
  <2>2. Final(h, p, f) =
          [i \in 1..Len(value) |-> ScalarAfter("wire", After("wire")[h - 1], field, value[i])]
    BY <1>4, FinalMany
  <2>3. Upto(peer, h, p, f, n) = [i \in 1..n |-> Final(h, p, f)[i]]
    BY <1>4 DEF Upto
  <2>4. Upto(peer, h, p, f, n) = Final(h, p, f)
    <3> HIDE DEF n, value, field
    <3> QED BY <2>1, <2>2, <2>3
  <2> QED BY <2>4
<1>5. CASE field.card = "map"
  <2>1. /\ n = Cardinality(DOMAIN value) /\ Keys(value) \in [1..n -> DOMAIN value]
        /\ Range(Keys(value)) = DOMAIN value
    BY <1>1, <1>5, CountFacts
  <2>2. value = [k \in DOMAIN value |-> value[k]]
    BY <1>1, <1>5 DEF IsValue
  <2>3. Final(h, p, f) = value
    BY <1>5 DEF Final, FieldAfter, IsDefault
  <2>4. {Keys(value)[i] : i \in 1..n} = DOMAIN value
    BY <2>1 DEF Range
  <2>5. Upto(peer, h, p, f, n) = [k \in {Keys(value)[i] : i \in 1..n} |-> value[k]]
    BY <1>5 DEF Upto
  <2>6. Upto(peer, h, p, f, n) = Final(h, p, f)
    <3> HIDE DEF n, value
    <3> QED BY <2>2, <2>3, <2>4, <2>5
  <2> QED BY <2>6
<1> QED BY <1>1, <1>2, <1>3, <1>4, <1>5 DEF IsField

\* What ReadValue stores.
ReadInto(field, old, token) ==
    CASE field.card = "one" -> token.val
      [] field.card = "many" /\ IsNumber(field) /\ token.tag % 8 = 2 -> old \o token.val
      [] field.card = "many" /\ ~(IsNumber(field) /\ token.tag % 8 = 2) -> Append(old, token.val)

\* The case that reads a scalar, an element or a packed run adds one piece,
LEMMA UptoScalar ==
    ASSUME NEW peer \in Peers, NEW h \in 1..MaxHeight, NEW p \in Messages[h], NEW f \in DOMAIN p[1],
           p[1][f].type # "message", NEW i \in 1..Count(p[1][f], p[2][f], peer),
           NEW t, t = Token(PieceTag(p[1][f], peer), PieceValue(p[1][f], p[2][f], peer, i), 0)
    PROVE  ReadInto(p[1][f], Upto(peer, h, p, f, i - 1), t) = Upto(peer, h, p, f, i)
<1> DEFINE field == p[1][f]
           value == p[2][f]
           n == Count(field, value, peer)
           after == After("wire")[h - 1]
           old == Upto(peer, h, p, f, i - 1)
<1>1. IsField(field) /\ IsValue(field, value)
  BY FieldFacts
<1>2. t.tag = PieceTag(field, peer) /\ t.val = PieceValue(field, value, peer, i)
  BY DEF Token
<1>3. field.no \in Nat /\ MaxNo \in Nat
  BY <1>1, WireAssumption DEF IsField
<1>4. \A v : ScalarAfter("wire", after, field, v) = WriteScalar(field.type, v)
  BY ScalarWritten
<1>5. CASE field.card = "one"
  <2>1. n = (IF IsDefault(field, value) THEN 0 ELSE 1)
    BY <1>1, <1>5, CountFacts
  <2>2. ~IsDefault(field, value) /\ i = 1
    <3>1. i \in 1..n
      OBVIOUS
    <3> HIDE DEF n, field, value
    <3> QED BY <2>1, <3>1
  <2>3. Upto(peer, h, p, f, i) = Final(h, p, f)
    BY <1>5, <2>2 DEF Upto
  <2>4. Final(h, p, f) = ScalarAfter("wire", after, field, value)
    BY <1>5, <2>2 DEF Final, FieldAfter
  <2>5. ReadInto(field, old, t) = WriteScalar(field.type, value)
    BY <1>2, <1>5 DEF ReadInto, PieceValue
  <2> QED BY <1>4, <2>3, <2>4, <2>5
<1>6. CASE field.card = "many" /\ Packs(field, peer)
  <2>1. n = 1
    BY <1>1, <1>6, CountFacts
  <2>2. i = 1
    <3>1. i \in 1..n
      OBVIOUS
    <3> HIDE DEF n, field, value
    <3> QED BY <2>1, <3>1
  <2>3. old = <<>> /\ Upto(peer, h, p, f, i) = Final(h, p, f)
    BY <1>6, <2>2 DEF Upto
  <2>4. IsNumber(field)
    BY <1>1, <1>6 DEF Packs, IsNumber, IsField, WireType
  <2>5. t.tag % 8 = 2
    BY <1>2, <1>3, <1>6, TagFacts DEF PieceTag
  <2>6. ReadInto(field, old, t) = <<>> \o t.val
    BY <1>6, <2>3, <2>4, <2>5 DEF ReadInto
  <2>7. t.val = [k \in DOMAIN value |-> WriteScalar(field.type, value[k])]
    BY <1>2, <1>6 DEF PieceValue
  <2>8. /\ value \in Seq(Range(value)) /\ Len(value) \in Nat /\ DOMAIN value = 1..Len(value)
        /\ Final(h, p, f) = [k \in 1..Len(value) |-> ScalarAfter("wire", after, field, value[k])]
    BY <1>6, FinalMany
  <2>9. Final(h, p, f) = t.val
    <3> HIDE DEF value, field, after
    <3> QED BY <1>4, <2>7, <2>8
  <2>10. t.val \in Seq(Range(t.val))
    <3> HIDE DEF value, field, after
    <3>1. t.val = [k \in 1..Len(value) |-> t.val[k]]
      BY <2>7, <2>8
    <3> QED BY <2>8, <3>1, FunctionIsSeq DEF IsSeq
  <2>11. <<>> \o t.val = t.val
    BY <2>10, ConcatEmptySeq
  <2> QED BY <2>3, <2>6, <2>9, <2>11
<1>7. CASE field.card = "many" /\ ~Packs(field, peer)
  <2>1. n = Len(value)
    BY <1>1, <1>7, CountFacts
  <2>2. /\ Len(value) \in Nat
        /\ Final(h, p, f) = [k \in 1..Len(value) |-> ScalarAfter("wire", after, field, value[k])]
    BY <1>7, FinalMany
  <2>3. /\ old = [k \in 1..(i - 1) |-> Final(h, p, f)[k]]
        /\ Upto(peer, h, p, f, i) = [k \in 1..i |-> Final(h, p, f)[k]]
    BY <1>7 DEF Upto
  <2>4. t.val = WriteScalar(field.type, value[i])
    BY <1>2, <1>7 DEF PieceValue
  <2>5. ~(IsNumber(field) /\ t.tag % 8 = 2)
    <3>0. PieceTag(field, peer) = Tag(field.no, WireType(field.type))
      BY <1>7 DEF PieceTag
    <3>1. t.tag = Tag(field.no, WireType(field.type)) /\ WireType(field.type) \in 0..7
      <4>1. WireType(field.type) \in 0..7
        BY <1>1 DEF WireType, IsField
      <4> QED BY <1>2, <3>0, <4>1
    <3>2. t.tag % 8 = WireType(field.type)
      BY <1>3, <3>1, TagFacts
    <3> QED BY <3>2 DEF IsNumber
  <2>6. ReadInto(field, old, t) = Append(old, t.val)
    BY <1>7, <2>5 DEF ReadInto
  <2>7. Final(h, p, f)[i] = t.val /\ i \in Nat /\ i >= 1
    <3>1. i \in 1..Len(value)
      BY <2>1
    <3> HIDE DEF value, field, after
    <3> QED BY <1>4, <2>2, <2>4, <3>1
  <2> HIDE DEF old
  <2>8. Append(old, t.val) = [k \in 1..i |-> Final(h, p, f)[k]]
    <3>1. i - 1 \in Nat /\ old = [k \in 1..(i - 1) |-> old[k]]
      BY <2>3, <2>7
    <3>2. IsSeq(old) /\ Len(old) = i - 1
      BY <3>1, FunctionIsSeq
    <3> DEFINE T == Range(old) \cup {t.val}
    <3>3. old \in Seq(T) /\ t.val \in T
      BY <3>2 DEF IsSeq
    <3> HIDE DEF T
    <3>4. /\ Append(old, t.val) \in Seq(T) /\ Len(Append(old, t.val)) = i
          /\ \A k \in 1..(i - 1) : Append(old, t.val)[k] = old[k]
          /\ Append(old, t.val)[i] = t.val
      BY <2>7, <3>2, <3>3, AppendProperties
    <3>5. \A k \in 1..i : Append(old, t.val)[k] = Final(h, p, f)[k]
      BY <2>3, <2>7, <3>4
    <3>6. Append(old, t.val) = [k \in 1..i |-> Append(old, t.val)[k]]
      BY <3>4
    <3> QED BY <3>5, <3>6
  <2> QED BY <2>3, <2>6, <2>8 DEF old
<1> QED BY <1>1, <1>5, <1>6, <1>7 DEF IsField

LEMMA AppendNext ==
    ASSUME NEW F, NEW i \in Nat, i >= 1
    PROVE  Append([k \in 1..(i - 1) |-> F[k]], F[i]) = [k \in 1..i |-> F[k]]
<1> DEFINE old == [k \in 1..(i - 1) |-> F[k]]
           T == Range(old) \cup {F[i]}
<1>1. i - 1 \in Nat /\ old = [k \in 1..(i - 1) |-> old[k]] /\ \A k \in 1..(i - 1) : old[k] = F[k]
  OBVIOUS
<1> HIDE DEF old
<1>2. IsSeq(old) /\ Len(old) = i - 1
  BY <1>1, FunctionIsSeq
<1>3. old \in Seq(T) /\ F[i] \in T
  BY <1>2 DEF IsSeq
<1> HIDE DEF T
<1>4. /\ Append(old, F[i]) \in Seq(T) /\ Len(Append(old, F[i])) = i
      /\ \A k \in 1..(i - 1) : Append(old, F[i])[k] = old[k]
      /\ Append(old, F[i])[i] = F[i]
  BY <1>2, <1>3, AppendProperties
<1>5. \A k \in 1..i : Append(old, F[i])[k] = F[k]
  BY <1>1, <1>4
<1>6. Append(old, F[i]) = [k \in 1..i |-> Append(old, F[i])[k]]
  BY <1>4
<1> QED BY <1>5, <1>6 DEF old

\* The entry of a map is decoded to itself.
LEMMA EntryAfter ==
    ASSUME NEW h \in 0..MaxHeight, NEW k, NEW v, NEW q \in Messages[h],
           q = <<[key |-> string(1), value |-> string(2)], [key |-> k, value |-> v]>>
    PROVE  After("wire")[h][q] = [key |-> k, value |-> v]
<1> DEFINE fields == [key |-> string(1), value |-> string(2)]
           m == [key |-> k, value |-> v]
           after == After("wire")[h - 1]
<1>1. After("wire")[h][q] = [f \in DOMAIN q[1] |-> FieldAfter("wire", after, q[1][f], q[2][f])]
  BY AfterMessage
<1>2. q[1] = fields /\ q[2] = m
  OBVIOUS
<1>3. ASSUME NEW field, NEW x, field.type = "string", field.card = "one"
      PROVE  FieldAfter("wire", after, field, x) = x
  <2> HIDE DEF after
  <2>1. CASE IsDefault(field, x)
    BY <1>3, <2>1 DEF FieldAfter, IsDefault
  <2>2. CASE ~IsDefault(field, x)
    BY <1>3, <2>2 DEF FieldAfter, ScalarAfter
  <2> QED BY <2>1, <2>2
<1>4. /\ string(1).type = "string" /\ string(1).card = "one"
      /\ string(2).type = "string" /\ string(2).card = "one"
  BY DEF string, Descriptor
<1>5. DOMAIN fields = {"key", "value"} /\ fields["key"] = string(1) /\ fields["value"] = string(2)
      /\ m["key"] = k /\ m["value"] = v
  OBVIOUS
<1>6. /\ FieldAfter("wire", after, fields["key"], m["key"]) = k
      /\ FieldAfter("wire", after, fields["value"], m["value"]) = v
  BY <1>3, <1>4, <1>5
<1>7. After("wire")[h][q] = [f \in {"key", "value"} |-> FieldAfter("wire", after, fields[f], m[f])]
  BY <1>1, <1>2, <1>5
<1> HIDE DEF after, fields, m
<1>8. [f \in {"key", "value"} |-> FieldAfter("wire", after, fields[f], m[f])]
        = [f \in {"key", "value"} |-> IF f = "key" THEN k ELSE v]
  BY <1>6
<1>9. [f \in {"key", "value"} |-> IF f = "key" THEN k ELSE v] = [key |-> k, value |-> v]
  OBVIOUS
<1> QED BY <1>7, <1>8, <1>9

\* What LeaveMessage stores.
LeaveInto(field, old, msg) ==
    CASE field.card = "one"  -> <<msg>>
      [] field.card = "many" -> Append(old, msg)
      [] field.card = "map"  -> [k \in DOMAIN old \cup {msg.key} |-> IF k = msg.key THEN msg.value ELSE old[k]]

\* and so does a nested decoder that returns.
LEMMA UptoNested ==
    ASSUME NEW peer \in Peers, NEW h \in 1..MaxHeight, NEW p \in Messages[h], NEW f \in DOMAIN p[1],
           p[1][f].type = "message", NEW i \in 1..Count(p[1][f], p[2][f], peer),
           NEW m, m = After("wire")[h - 1][<<p[1][f].of, Element(p[1][f], p[2][f], i)>>]
    PROVE  LeaveInto(p[1][f], Upto(peer, h, p, f, i - 1), m) = Upto(peer, h, p, f, i)
<1> DEFINE field == p[1][f]
           value == p[2][f]
           n == Count(field, value, peer)
           after == After("wire")[h - 1]
           old == Upto(peer, h, p, f, i - 1)
<1>1. IsField(field) /\ IsValue(field, value) /\ ~Packs(field, peer)
  BY FieldFacts, MessageNeverPacked
<1>2. i \in 1..n /\ n \in Nat
  BY <1>1, CountFacts
<1>3. \A v : ScalarAfter("wire", after, field, v) = after[<<field.of, v>>]
  BY DEF ScalarAfter
<1>4. CASE field.card = "one"
  <2>1. ~IsDefault(field, value) /\ i = 1
    <3>1. n = (IF IsDefault(field, value) THEN 0 ELSE 1)
      BY <1>1, <1>4, CountFacts
    <3> HIDE DEF n, field, value
    <3> QED BY <1>2, <3>1
  <2>2. DOMAIN value = {1}
    BY <1>1, <1>4, <2>1, CountFacts
  <2>3. Final(h, p, f) = [j \in DOMAIN value |-> ScalarAfter("wire", after, field, value[j])]
    BY <1>4, <2>1 DEF Final, FieldAfter
  <2>4. m = after[<<field.of, value[1]>>]
    BY <1>4, <2>1 DEF Element
  <2>5. Upto(peer, h, p, f, i) = Final(h, p, f)
    BY <1>4, <2>1 DEF Upto
  <2>6. LeaveInto(field, old, m) = <<m>>
    BY <1>4 DEF LeaveInto
  <2>7. Final(h, p, f) = <<m>>
    <3> HIDE DEF after, field, value
    <3>1. Final(h, p, f) = [j \in {1} |-> m]
      BY <1>3, <2>2, <2>3, <2>4
    <3> QED BY <3>1
  <2> QED BY <2>5, <2>6, <2>7
<1>5. CASE field.card = "many"
  <2>1. n = Len(value)
    BY <1>1, <1>5, CountFacts
  <2>2. /\ Len(value) \in Nat
        /\ Final(h, p, f) = [k \in 1..Len(value) |-> ScalarAfter("wire", after, field, value[k])]
    BY <1>5, FinalMany
  <2>3. /\ old = [k \in 1..(i - 1) |-> Final(h, p, f)[k]]
        /\ Upto(peer, h, p, f, i) = [k \in 1..i |-> Final(h, p, f)[k]]
    BY <1>1, <1>5 DEF Upto
  <2>4. m = after[<<field.of, value[i]>>]
    BY <1>5 DEF Element
  <2>5. Final(h, p, f)[i] = m
    <3> HIDE DEF n, value, field, after
    <3> QED BY <1>2, <1>3, <2>1, <2>2, <2>4
  <2>6. LeaveInto(field, old, m) = Append(old, m)
    BY <1>5 DEF LeaveInto
  <2>7. i \in Nat /\ i >= 1
    BY <1>2
  <2>8. Append([k \in 1..(i - 1) |-> Final(h, p, f)[k]], Final(h, p, f)[i]) = [k \in 1..i |-> Final(h, p, f)[k]]
    BY <2>7, AppendNext
  <2> HIDE DEF old
  <2> QED BY <2>3, <2>5, <2>6, <2>8 DEF old
<1>6. CASE field.card = "map"
  <2> DEFINE keys == Keys(value)
             key == keys[i]
             Some(c) == {keys[j] : j \in 1..c}
  <2>1. <<field.of, Element(field, value, i)>> \in Messages[h - 1]
    BY ElementFacts
  <2>2. field.of = [key |-> string(1), value |-> string(2)] /\ Element(field, value, i) = [key |-> key, value |-> value[key]]
    BY <1>1, <1>6 DEF IsField, Element, Entry
  <2>3. h - 1 \in 0..MaxHeight
    BY WireAssumption
  <2>4. m = [key |-> key, value |-> value[key]]
    BY <2>1, <2>2, <2>3, EntryAfter
  <2>5. old = [k \in Some(i - 1) |-> value[k]] /\ Upto(peer, h, p, f, i) = [k \in Some(i) |-> value[k]]
    BY <1>6 DEF Upto
  <2>6. LeaveInto(field, old, m) = [k \in DOMAIN old \cup {m.key} |-> IF k = m.key THEN m.value ELSE old[k]]
    BY <1>6 DEF LeaveInto
  <2>7. 1..i = 1..(i - 1) \cup {i}
    BY <1>2
  <2>8. Some(i) = Some(i - 1) \cup {key}
    <3> HIDE DEF keys
    <3> QED BY <2>7 DEF key
  <2>9. m.key = key /\ m.value = value[key]
    BY <2>4
  <2>10. DOMAIN old = Some(i - 1) /\ \A k \in Some(i - 1) : old[k] = value[k]
    <3> HIDE DEF old, Some
    <3> QED BY <2>5
  <2> HIDE DEF old, Some, key, value
  <2>11. [k \in DOMAIN old \cup {m.key} |-> IF k = m.key THEN m.value ELSE old[k]] = [k \in Some(i) |-> value[k]]
    BY <2>8, <2>9, <2>10
  <2> QED BY <2>5, <2>6, <2>11 DEF old
<1> QED BY <1>1, <1>4, <1>5, <1>6 DEF IsField

----------------------------------------------------------------------------
(* Where the pieces of the fields are, and the message after each piece.   *)

\* The pieces in front of those of a field.
Before(peer, h, p, f) == Offset(Slots(peer, h, p), Place(peer, p[1][f].no) - 1)

\* The pieces of all the fields.
FieldsEnd(peer, h, p) == Offset(Slots(peer, h, p), MaxNo)

LEMMA FieldSpans ==
    ASSUME NEW peer \in Peers, NEW h \in 1..MaxHeight, NEW p \in Messages[h]
    PROVE  /\ FieldsEnd(peer, h, p) \in Nat /\ Len(Extra(peer)) \in Nat
           /\ Len(Pieces(peer, h, p)) = FieldsEnd(peer, h, p) + Len(Extra(peer))
           /\ \A f \in DOMAIN p[1] :
                 /\ Before(peer, h, p, f) \in Nat /\ Count(p[1][f], p[2][f], peer) \in Nat
                 /\ Before(peer, h, p, f) + Count(p[1][f], p[2][f], peer) <= FieldsEnd(peer, h, p)
                 /\ \A i \in 1..Count(p[1][f], p[2][f], peer) :
                       Pieces(peer, h, p)[Before(peer, h, p, f) + i]
                         = EncodeField(Encode(peer)[h - 1], p[1][f], p[2][f], peer)[i]
                 /\ \A g \in DOMAIN p[1] : f # g =>
                       \/ Before(peer, h, p, f) + Count(p[1][f], p[2][f], peer) <= Before(peer, h, p, g)
                       \/ Before(peer, h, p, g) + Count(p[1][g], p[2][g], peer) <= Before(peer, h, p, f)
<1> DEFINE S == Slots(peer, h, p)
           e == Encode(peer)[h - 1]
           n(f) == Count(p[1][f], p[2][f], peer)
           at(f) == Place(peer, p[1][f].no)
<1>1. /\ IsSeq(S) /\ Len(S) = MaxNo + 1
      /\ \A j \in 1..(MaxNo + 1) : IsSeq(S[j]) /\ Len(S[j]) \in Nat
  BY Layout
<1>2. /\ S[MaxNo + 1] = Extra(peer)
      /\ \A f \in DOMAIN p[1] : p[1][f].no \in 1..MaxNo /\ S[at(f)] = EncodeField(e, p[1][f], p[2][f], peer)
  BY SlotFacts
<1>3. MaxNo \in Nat /\ h \in 0..MaxHeight
  BY WireAssumption
<1>4. Pieces(peer, h, p) = FlattenSeq(S)
  BY DEF Pieces
<1>5. \A f, g \in DOMAIN p[1] : p[1][f].no = p[1][g].no => f = g
  BY <1>3, MessageFacts DEF IsType
<1>6. \A f \in DOMAIN p[1] : at(f) \in 1..MaxNo /\ Place(peer, at(f)) = p[1][f].no
  BY <1>2, PlaceFacts
<1>7. \A f, g \in DOMAIN p[1] : at(f) = at(g) => f = g
  BY <1>5, <1>6
<1>8. ASSUME NEW f \in DOMAIN p[1] PROVE n(f) \in Nat /\ Len(S[at(f)]) = n(f)
  <2> DEFINE P == EncodeField(e, p[1][f], p[2][f], peer)
  <2>1. IsField(p[1][f]) /\ IsValue(p[1][f], p[2][f])
    BY FieldFacts
  <2>2. n(f) \in Nat
    BY <2>1, CountFacts
  <2>4. Len(P) = n(f)
    BY <2>1, FieldLength
  <2> HIDE DEF n
  <2> QED BY <1>2, <2>2, <2>4
<1> HIDE DEF S, e, n, at
<1>9. /\ Len(FlattenSeq(S)) = Offset(S, MaxNo + 1)
      /\ Offset(S, 0) = 0 /\ \A k \in 0..(MaxNo + 1) : Offset(S, k) \in Nat
      /\ \A k \in 1..(MaxNo + 1) : Offset(S, k) = Offset(S, k - 1) + Len(S[k])
      /\ \A k \in 1..(MaxNo + 1) : \A i \in 1..Len(S[k]) : FlattenSeq(S)[Offset(S, k - 1) + i] = S[k][i]
  <2>1. IsSeq(S) /\ \A j \in 1..Len(S) : IsSeq(S[j])
    BY <1>1
  <2>2. /\ Len(FlattenSeq(S)) = Offset(S, Len(S))
        /\ Offset(S, 0) = 0 /\ \A k \in 0..Len(S) : Offset(S, k) \in Nat
        /\ \A k \in 1..Len(S) : Offset(S, k) = Offset(S, k - 1) + Len(S[k])
        /\ \A k \in 1..Len(S) : \A i \in 1..Len(S[k]) : FlattenSeq(S)[Offset(S, k - 1) + i] = S[k][i]
    BY <2>1, Flattened
  <2>3. Len(S) = MaxNo + 1
    BY <1>1
  <2> QED BY <2>2, <2>3
<1>10. \A j, k \in 0..(MaxNo + 1) : j <= k => Offset(S, j) <= Offset(S, k)
  BY <1>1, OffsetsGrow
<1>11. \A f \in DOMAIN p[1] : Before(peer, h, p, f) = Offset(S, at(f) - 1)
  BY DEF Before, S, at
<1>12. FieldsEnd(peer, h, p) = Offset(S, MaxNo)
  BY DEF FieldsEnd, S
<1>13. FieldsEnd(peer, h, p) \in Nat /\ Len(Extra(peer)) \in Nat /\ MaxNo + 1 \in 1..(MaxNo + 1)
  BY <1>1, <1>2, <1>3, <1>9, <1>12
<1>14. Len(Pieces(peer, h, p)) = FieldsEnd(peer, h, p) + Len(Extra(peer))
  <2>1. Offset(S, MaxNo + 1) = Offset(S, (MaxNo + 1) - 1) + Len(S[MaxNo + 1]) /\ (MaxNo + 1) - 1 = MaxNo
    BY <1>3, <1>9, <1>13
  <2> QED BY <1>2, <1>4, <1>9, <1>12, <2>1
<1>15. ASSUME NEW f \in DOMAIN p[1]
       PROVE  /\ at(f) \in 1..MaxNo /\ at(f) \in 1..(MaxNo + 1) /\ at(f) - 1 \in 0..(MaxNo + 1)
              /\ Offset(S, at(f)) = Before(peer, h, p, f) + n(f)
              /\ Before(peer, h, p, f) \in Nat /\ n(f) \in Nat
  <2>1. at(f) \in 1..MaxNo
    BY <1>6
  <2>2. at(f) \in 1..(MaxNo + 1) /\ at(f) - 1 \in 0..(MaxNo + 1)
    BY <1>3, <2>1
  <2> QED BY <1>8, <1>9, <1>11, <2>1, <2>2
<1>16. ASSUME NEW f \in DOMAIN p[1]
       PROVE  /\ Before(peer, h, p, f) + n(f) <= FieldsEnd(peer, h, p)
              /\ \A i \in 1..n(f) : Pieces(peer, h, p)[Before(peer, h, p, f) + i] = EncodeField(e, p[1][f], p[2][f], peer)[i]
  <2>1. Offset(S, at(f)) <= Offset(S, MaxNo)
    <3>1. at(f) \in 0..(MaxNo + 1) /\ MaxNo \in 0..(MaxNo + 1) /\ at(f) <= MaxNo
      BY <1>3, <1>15
    <3> QED BY <1>10, <3>1
  <2>2. \A i \in 1..n(f) : FlattenSeq(S)[Offset(S, at(f) - 1) + i] = S[at(f)][i]
    BY <1>8, <1>9, <1>15
  <2>3. S[at(f)] = EncodeField(e, p[1][f], p[2][f], peer)
    BY <1>2
  <2> QED BY <1>4, <1>11, <1>12, <1>15, <2>1, <2>2, <2>3
<1>17. ASSUME NEW f \in DOMAIN p[1], NEW g \in DOMAIN p[1], at(f) < at(g)
       PROVE  Before(peer, h, p, f) + n(f) <= Before(peer, h, p, g)
  <2>1. at(f) \in 0..(MaxNo + 1) /\ at(g) - 1 \in 0..(MaxNo + 1) /\ at(f) <= at(g) - 1
    BY <1>3, <1>15, <1>17
  <2>2. Offset(S, at(f)) <= Offset(S, at(g) - 1)
    BY <1>10, <2>1
  <2> QED BY <1>11, <1>15, <2>2
<1>18. ASSUME NEW f \in DOMAIN p[1], NEW g \in DOMAIN p[1], f # g
       PROVE  \/ Before(peer, h, p, f) + n(f) <= Before(peer, h, p, g)
              \/ Before(peer, h, p, g) + n(g) <= Before(peer, h, p, f)
  <2>1. at(f) # at(g) /\ at(f) \in 1..MaxNo /\ at(g) \in 1..MaxNo
    BY <1>7, <1>15, <1>18
  <2>2. at(f) < at(g) \/ at(g) < at(f)
    BY <1>3, <2>1
  <2> QED BY <1>17, <2>2
<1> QED BY <1>13, <1>14, <1>15, <1>16, <1>18 DEF n, e

\* Every piece belongs to a field or was added.
LEMMA PieceOf ==
    ASSUME NEW peer \in Peers, NEW h \in 1..MaxHeight, NEW p \in Messages[h],
           NEW u \in 1..Len(Pieces(peer, h, p))
    PROVE  \/ \E f \in DOMAIN p[1] : \E i \in 1..Count(p[1][f], p[2][f], peer) : u = Before(peer, h, p, f) + i
           \/ \E i \in 1..Len(Extra(peer)) : u = FieldsEnd(peer, h, p) + i /\ Pieces(peer, h, p)[u] = Extra(peer)[i]
<1> DEFINE S == Slots(peer, h, p)
<1>1. /\ IsSeq(S) /\ Len(S) = MaxNo + 1 /\ \A j \in 1..(MaxNo + 1) : IsSeq(S[j])
      /\ Pieces(peer, h, p) = FlattenSeq(S)
  BY Layout DEF Pieces
<1>2. /\ S[MaxNo + 1] = Extra(peer)
      /\ \A f \in DOMAIN p[1] : S[Place(peer, p[1][f].no)] = EncodeField(Encode(peer)[h - 1], p[1][f], p[2][f], peer)
      /\ \A j \in 1..MaxNo : S[j] = <<>> \/ \E f \in DOMAIN p[1] : j = Place(peer, p[1][f].no)
  BY SlotFacts
<1>3. MaxNo \in Nat
  BY WireAssumption
<1>4. PICK j \in 1..(MaxNo + 1) : \E i \in 1..Len(S[j]) : u = Offset(S, j - 1) + i
  <2> HIDE DEF S
  <2>1. Len(FlattenSeq(S)) = Offset(S, Len(S))
    BY <1>1, Flattened
  <2> QED BY <1>1, <2>1, FlattenedFrom
<1>5. PICK i \in 1..Len(S[j]) : u = Offset(S, j - 1) + i
  BY <1>4
<1>6. CASE j = MaxNo + 1
  <2>1. FieldsEnd(peer, h, p) = Offset(S, j - 1)
    BY <1>3, <1>6 DEF FieldsEnd
  <2>2. FlattenSeq(S)[Offset(S, j - 1) + i] = S[j][i]
    <3> HIDE DEF S
    <3> QED BY <1>1, Flattened
  <2> HIDE DEF S
  <2> QED BY <1>1, <1>2, <1>5, <1>6, <2>1, <2>2
<1>7. CASE j \in 1..MaxNo
  <2>1. S[j] # <<>>
    <3>1. Len(S[j]) # 0
      BY <1>5
    <3> HIDE DEF S
    <3> QED BY <3>1
  <2>2. PICK f \in DOMAIN p[1] : j = Place(peer, p[1][f].no)
    BY <1>2, <1>7, <2>1
  <2> DEFINE P == EncodeField(Encode(peer)[h - 1], p[1][f], p[2][f], peer)
             n == Count(p[1][f], p[2][f], peer)
  <2>3. IsField(p[1][f]) /\ IsValue(p[1][f], p[2][f])
    BY FieldFacts
  <2>4. n \in Nat /\ P = [k \in 1..n |-> P[k]]
    BY <2>3, CountFacts, FieldPieces
  <2>5. Len(P) = n
    <3> HIDE DEF P, n
    <3> QED BY <2>4, FunctionIsSeq
  <2>6. S[j] = P
    BY <1>2, <2>2
  <2>7. i \in 1..n
    <3> HIDE DEF S, P, n
    <3> QED BY <1>5, <2>5, <2>6
  <2>8. Before(peer, h, p, f) = Offset(S, j - 1)
    BY <2>2 DEF Before
  <2> QED BY <1>5, <2>7, <2>8
<1> QED BY <1>3, <1>6, <1>7

ClampTo(x, n) == IF x < 0 THEN 0 ELSE IF x > n THEN n ELSE x

\* The message that decode has after u pieces.
Partial(peer, h, p, u) ==
    [f \in DOMAIN p[1] |->
        Upto(peer, h, p, f, ClampTo(u - Before(peer, h, p, f), Count(p[1][f], p[2][f], peer)))]

\* A decoder starts with the defaults.
LEMMA PartialStart ==
    ASSUME NEW peer \in Peers, NEW h \in 1..MaxHeight, NEW p \in Messages[h]
    PROVE  Partial(peer, h, p, 0) = CreateBase(p[1])
<1>1. ASSUME NEW f \in DOMAIN p[1]
      PROVE  Upto(peer, h, p, f, ClampTo(0 - Before(peer, h, p, f), Count(p[1][f], p[2][f], peer))) = Default(p[1][f])
  <2>1. Before(peer, h, p, f) \in Nat /\ Count(p[1][f], p[2][f], peer) \in Nat
    BY FieldSpans
  <2>2. ClampTo(0 - Before(peer, h, p, f), Count(p[1][f], p[2][f], peer)) = 0
    BY <2>1 DEF ClampTo
  <2> QED BY <2>2, UptoStart
<1> QED BY <1>1 DEF Partial, CreateBase

\* A piece of one field leaves the others as they are.
LEMMA PartialStep ==
    ASSUME NEW peer \in Peers, NEW h \in 1..MaxHeight, NEW p \in Messages[h], NEW f \in DOMAIN p[1],
           NEW i \in 1..Count(p[1][f], p[2][f], peer), NEW u, u = Before(peer, h, p, f) + i
    PROVE  /\ Partial(peer, h, p, u - 1)[f] = Upto(peer, h, p, f, i - 1)
           /\ Partial(peer, h, p, u) = [Partial(peer, h, p, u - 1) EXCEPT ![f] = Upto(peer, h, p, f, i)]
<1> DEFINE B(g) == Before(peer, h, p, g)
           n(g) == Count(p[1][g], p[2][g], peer)
<1>1. /\ \A g \in DOMAIN p[1] : B(g) \in Nat /\ n(g) \in Nat
      /\ \A g \in DOMAIN p[1] : f # g => B(f) + n(f) <= B(g) \/ B(g) + n(g) <= B(f)
  BY FieldSpans
<1>2. i \in 1..n(f) /\ u = B(f) + i
  OBVIOUS
<1>0. Partial(peer, h, p, u) = [g \in DOMAIN p[1] |-> Upto(peer, h, p, g, ClampTo(u - B(g), n(g)))]
      /\ Partial(peer, h, p, u - 1) = [g \in DOMAIN p[1] |-> Upto(peer, h, p, g, ClampTo((u - 1) - B(g), n(g)))]
  BY DEF Partial
<1> HIDE DEF B, n
<1>3. ClampTo(u - B(f), n(f)) = i /\ ClampTo((u - 1) - B(f), n(f)) = i - 1
  <2>1. u - B(f) = i /\ (u - 1) - B(f) = i - 1
    BY <1>1, <1>2
  <2> QED BY <1>1, <1>2, <2>1 DEF ClampTo
<1>4. ASSUME NEW g \in DOMAIN p[1], g # f PROVE ClampTo(u - B(g), n(g)) = ClampTo((u - 1) - B(g), n(g))
  <2>1. B(f) \in Nat /\ n(f) \in Nat /\ B(g) \in Nat /\ n(g) \in Nat /\ i \in 1..n(f) /\ u = B(f) + i
    BY <1>1, <1>2
  <2>2. CASE B(f) + n(f) <= B(g)
    BY <2>1, <2>2 DEF ClampTo
  <2>3. CASE B(g) + n(g) <= B(f)
    BY <2>1, <2>3 DEF ClampTo
  <2> QED BY <1>1, <1>4, <2>2, <2>3
<1> QED BY <1>0, <1>3, <1>4

\* After all pieces the message is the one that must come out.
LEMMA PartialEnd ==
    ASSUME NEW peer \in Peers, NEW h \in 1..MaxHeight, NEW p \in Messages[h],
           NEW u \in Nat, u >= FieldsEnd(peer, h, p)
    PROVE  Partial(peer, h, p, u) = After("wire")[h][p]
<1> DEFINE after == After("wire")[h - 1]
<1>1. ASSUME NEW f \in DOMAIN p[1]
      PROVE  Upto(peer, h, p, f, ClampTo(u - Before(peer, h, p, f), Count(p[1][f], p[2][f], peer))) = Final(h, p, f)
  <2>1. /\ Before(peer, h, p, f) \in Nat /\ Count(p[1][f], p[2][f], peer) \in Nat /\ FieldsEnd(peer, h, p) \in Nat
        /\ Before(peer, h, p, f) + Count(p[1][f], p[2][f], peer) <= FieldsEnd(peer, h, p)
    BY FieldSpans
  <2>2. ClampTo(u - Before(peer, h, p, f), Count(p[1][f], p[2][f], peer)) = Count(p[1][f], p[2][f], peer)
    BY <2>1 DEF ClampTo
  <2> QED BY <2>2, UptoEnd
<1>2. h \in 0..MaxHeight
  BY WireAssumption
<1>4. After("wire")[h][p] = [f \in DOMAIN p[1] |-> FieldAfter("wire", after, p[1][f], p[2][f])]
  BY <1>2, AfterMessage
<1>5. After("wire")[h][p] = [f \in DOMAIN p[1] |-> Final(h, p, f)]
  BY <1>4 DEF Final
<1> QED BY <1>1, <1>5 DEF Partial

----------------------------------------------------------------------------
(* What a decoder sees of a piece: its first token.                        *)

LEMMA TagsFacts ==
    ASSUME NEW field, IsField(field), NEW t \in Tags(field)
    PROVE  field.no \in Nat /\ field.no >= 1 /\ field.no <= MaxNo /\ \E w \in {0, 2, 5} : t = Tag(field.no, w)
<1>1. field.no \in 1..MaxNo /\ MaxNo \in Nat /\ WireType(field.type) \in {0, 2, 5}
  BY WireAssumption DEF IsField, WireType
<1>2. t = Tag(field.no, WireType(field.type)) \/ t = Tag(field.no, 2)
  BY DEF Tags
<1> QED BY <1>1, <1>2

LEMMA FieldPiece ==
    ASSUME NEW peer \in Peers, NEW h \in 1..MaxHeight, NEW p \in Messages[h], NEW f \in DOMAIN p[1],
           NEW i \in 1..Count(p[1][f], p[2][f], peer), NEW P, P = Pieces(peer, h, p)[Before(peer, h, p, f) + i]
    PROVE  /\ p[1][f].type # "message" =>
                P = <<Token(PieceTag(p[1][f], peer), PieceValue(p[1][f], p[2][f], peer, i), 0)>>
           /\ p[1][f].type = "message" =>
                P = Framed(p[1][f].no, Encode(peer)[h - 1][<<p[1][f].of, Element(p[1][f], p[2][f], i)>>])
<1> DEFINE field == p[1][f]
           value == p[2][f]
           n == Count(field, value, peer)
           e == Encode(peer)[h - 1]
           body == e[<<field.of, Element(field, value, i)>>]
<1>1. IsField(field) /\ IsValue(field, value)
  BY FieldFacts
<1>2. /\ FieldsEnd(peer, h, p) \in Nat /\ Len(Extra(peer)) \in Nat
      /\ Len(Pieces(peer, h, p)) = FieldsEnd(peer, h, p) + Len(Extra(peer))
      /\ Before(peer, h, p, f) \in Nat /\ n \in Nat /\ Before(peer, h, p, f) + n <= FieldsEnd(peer, h, p)
      /\ P = EncodeField(e, field, value, peer)[i]
  BY FieldSpans
<1>3. i \in 1..n /\ h \in 0..MaxHeight /\ h - 1 \in 0..MaxHeight /\ MaxNo \in Nat
  BY WireAssumption
<1>5. /\ field.type # "message" => P = <<Token(PieceTag(field, peer), PieceValue(field, value, peer, i), 0)>>
      /\ field.type = "message" => P = Framed(field.no, body)
  BY <1>1, <1>2, <1>3, FieldPieces
<1> QED BY <1>5

\* The first token of a field's piece is accepted by that field's case and by no other.
LEMMA FieldHead ==
    ASSUME NEW peer \in Peers, NEW h \in 1..MaxHeight, NEW p \in Messages[h], NEW f \in DOMAIN p[1],
           NEW i \in 1..Count(p[1][f], p[2][f], peer), NEW P, P = Pieces(peer, h, p)[Before(peer, h, p, f) + i]
    PROVE  /\ Len(P) = 1 + P[1].body /\ P[1].body \in Nat
           /\ P[1].tag \in Tags(p[1][f]) /\ P[1].tag # 0 /\ P[1].tag % 8 # 4
           /\ \A g \in DOMAIN p[1] : P[1].tag \in Tags(p[1][g]) => g = f
<1> DEFINE field == p[1][f]
           value == p[2][f]
           n == Count(field, value, peer)
           e == Encode(peer)[h - 1]
           body == e[<<field.of, Element(field, value, i)>>]
<1>1. IsField(field) /\ IsValue(field, value)
  BY FieldFacts
<1>2. /\ FieldsEnd(peer, h, p) \in Nat /\ Len(Extra(peer)) \in Nat
      /\ Len(Pieces(peer, h, p)) = FieldsEnd(peer, h, p) + Len(Extra(peer))
      /\ Before(peer, h, p, f) \in Nat /\ n \in Nat /\ Before(peer, h, p, f) + n <= FieldsEnd(peer, h, p)
      /\ P = EncodeField(e, field, value, peer)[i]
  BY FieldSpans
<1>3. i \in 1..n /\ h \in 0..MaxHeight /\ h - 1 \in 0..MaxHeight /\ MaxNo \in Nat
  BY WireAssumption
<1>5. /\ field.type # "message" => P = <<Token(PieceTag(field, peer), PieceValue(field, value, peer, i), 0)>>
      /\ field.type = "message" => P = Framed(field.no, body)
  BY FieldPiece
<1>6. field.no \in 1..MaxNo /\ WireType(field.type) \in {0, 2, 5}
  BY <1>1 DEF IsField, WireType
<1>7. Len(P) = 1 + P[1].body /\ P[1].body \in Nat /\ P[1].tag \in Tags(field)
  <2>1. CASE field.type # "message"
    <3>1. Len(P) = 1 /\ P[1] = Token(PieceTag(field, peer), PieceValue(field, value, peer, i), 0)
      BY <1>5, <2>1, TokenIsSeq
    <3>2. P[1].body = 0 /\ P[1].tag = PieceTag(field, peer)
      BY <3>1 DEF Token
    <3>3. PieceTag(field, peer) \in Tags(field)
      <4>1. CASE field.card = "many" /\ Packs(field, peer)
        <5>1. IsNumber(field)
          BY <1>1, <4>1 DEF Packs, IsNumber, WireType, IsField
        <5> QED BY <4>1, <5>1 DEF PieceTag, Tags
      <4>2. CASE ~(field.card = "many" /\ Packs(field, peer))
        BY <4>2 DEF PieceTag, Tags
      <4> QED BY <4>1, <4>2
    <3> QED BY <3>1, <3>2, <3>3
  <2>2. CASE field.type = "message"
    <3>1. IsSeq(body) /\ Len(body) \in Nat
      <4>1. <<field.of, Element(field, value, i)>> \in Messages[h - 1]
        BY <2>2, ElementFacts
      <4> QED BY <1>3, <4>1, EncodedAreSeqs, IsSeqFacts
    <3> HIDE DEF body
    <3>2. Len(P) = 1 + Len(body) /\ P[1] = Token(Tag(field.no, 2), <<>>, Len(body))
      BY <1>5, <2>2, <3>1, FramedFacts
    <3>3. P[1].body = Len(body) /\ P[1].tag = Tag(field.no, 2)
      BY <3>2 DEF Token
    <3>4. Tag(field.no, 2) \in Tags(field)
      BY <2>2 DEF Tags, WireType
    <3> QED BY <3>1, <3>2, <3>3, <3>4
  <2> QED BY <2>1, <2>2
<1>8. PICK w \in {0, 2, 5} : P[1].tag = Tag(field.no, w)
  BY <1>1, <1>7, TagsFacts
<1>9. w \in 0..7 /\ w # 4 /\ field.no \in Nat /\ field.no # 0
  BY <1>3, <1>6
<1>10. P[1].tag # 0 /\ P[1].tag % 8 # 4
  BY <1>8, <1>9, TagFacts
<1>11. ASSUME NEW g \in DOMAIN p[1], P[1].tag \in Tags(p[1][g]) PROVE g = f
  <2>1. IsField(p[1][g])
    BY FieldFacts
  <2>2. p[1][g].no \in Nat /\ \E v \in {0, 2, 5} : P[1].tag = Tag(p[1][g].no, v)
    BY <1>11, <2>1, TagsFacts
  <2>3. PICK v \in {0, 2, 5} : P[1].tag = Tag(p[1][g].no, v)
    BY <2>2
  <2>4. v \in 0..7
    OBVIOUS
  <2>5. p[1][g].no = field.no
    <3> DEFINE m == p[1][g].no
               k == field.no
    <3>1. m \in Nat /\ k \in Nat /\ v \in 0..7 /\ w \in 0..7 /\ Tag(m, v) = Tag(k, w)
      BY <1>8, <1>9, <2>2, <2>3, <2>4
    <3> HIDE DEF m, k
    <3>3. m = k
      BY <3>1, TagInjective
    <3> QED BY <3>3 DEF m, k
  <2>6. IsType(p[1])
    BY <1>3, MessageFacts
  <2> QED BY <2>5, <2>6 DEF IsType
<1> QED BY <1>7, <1>10, <1>11

\* What the sender has added is accepted by no case, or ends the loop where the message ends.
LEMMA AddedPiece ==
    ASSUME NEW peer \in Peers, NEW h \in 1..MaxHeight, NEW p \in Messages[h],
           NEW i \in 1..Len(Extra(peer)), NEW u, u = FieldsEnd(peer, h, p) + i,
           NEW P, P = Pieces(peer, h, p)[u], P = Extra(peer)[i]
    PROVE  \/ /\ P = <<Token(0, 0, 0)>> /\ i = 1 /\ u = Len(Pieces(peer, h, p))
           \/ /\ Len(P) = 1 + P[1].body /\ P[1].body \in Nat
              /\ P[1].tag # 0 /\ P[1].tag % 8 # 4
              /\ \A g \in DOMAIN p[1] : P[1].tag \notin Tags(p[1][g])
<1>1. /\ FieldsEnd(peer, h, p) \in Nat /\ Len(Extra(peer)) \in Nat
      /\ Len(Pieces(peer, h, p)) = FieldsEnd(peer, h, p) + Len(Extra(peer))
  BY FieldSpans
<1>2. MaxNo \in Nat
  BY WireAssumption
<1>3. CASE Extra(peer) = << <<Token(0, 0, 0)>> >>
  <2>1. Len(Extra(peer)) = 1 /\ Extra(peer)[1] = <<Token(0, 0, 0)>>
    BY <1>3, TokenIsSeq
  <2>2. i = 1
    BY <2>1
  <2> QED BY <1>1, <2>1, <2>2
<1>4. CASE \A k \in 1..Len(Extra(peer)) :
              /\ Len(Extra(peer)[k]) = 1 + Extra(peer)[k][1].body /\ Extra(peer)[k][1].body \in Nat
              /\ \E n \in Nat : \E w \in 0..2 :
                    Extra(peer)[k][1].tag = Tag(n, w) /\ (n = MaxNo + 1 \/ (n # 0 /\ w = 1))
  <2>1. Len(P) = 1 + P[1].body /\ P[1].body \in Nat
    BY <1>4
  <2>2. \E n \in Nat : \E w \in 0..2 : P[1].tag = Tag(n, w) /\ (n = MaxNo + 1 \/ (n # 0 /\ w = 1))
    BY <1>4
  <2>3. PICK n \in Nat : \E w \in 0..2 : P[1].tag = Tag(n, w) /\ (n = MaxNo + 1 \/ (n # 0 /\ w = 1))
    BY <2>2
  <2>4. PICK w \in 0..2 : P[1].tag = Tag(n, w) /\ (n = MaxNo + 1 \/ (n # 0 /\ w = 1))
    BY <2>3
  <2>5. w \in 0..7 /\ w # 4 /\ n # 0
    BY <1>2, <2>4
  <2>6. P[1].tag # 0 /\ P[1].tag % 8 # 4
    BY <2>4, <2>5, TagFacts
  <2>7. ASSUME NEW g \in DOMAIN p[1], P[1].tag \in Tags(p[1][g]) PROVE FALSE
    <3>1. IsField(p[1][g])
      BY FieldFacts
    <3>2. p[1][g].no \in Nat /\ p[1][g].no <= MaxNo /\ \E v \in {0, 2, 5} : P[1].tag = Tag(p[1][g].no, v)
      BY <2>7, <3>1, TagsFacts
    <3>3. PICK v \in {0, 2, 5} : P[1].tag = Tag(p[1][g].no, v)
      BY <3>2
    <3>4. v \in 0..7 /\ v # 1
      OBVIOUS
    <3>5. p[1][g].no = n /\ v = w
      <4> DEFINE m == p[1][g].no
      <4>1. m \in Nat /\ v \in 0..7 /\ w \in 0..7 /\ Tag(m, v) = Tag(n, w)
        BY <2>4, <2>5, <3>2, <3>3, <3>4
      <4> HIDE DEF m
      <4>3. m = n /\ v = w
        BY <4>1, TagInjective
      <4> QED BY <4>3 DEF m
    <3> QED BY <1>2, <2>4, <3>2, <3>4, <3>5
  <2> QED BY <2>1, <2>6, <2>7
<1> QED BY <1>3, <1>4, ExtraPieces

----------------------------------------------------------------------------
(* A running decoder: the message it reads, where that message starts and  *)
(* how many of its pieces have been read.                                  *)

\* The depth to which messages nest in what the i-th decoder reads.
Level(i) == MaxHeight + 1 - i

BytesOf(peer, i, r) == Encode(peer)[Level(i)][r.part]
PiecesOf(peer, i, r) == Pieces(peer, Level(i), r.part)

\* Where the next piece of the message starts.
Cursor(peer, i, r) == r.start + Offset(PiecesOf(peer, i, r), r.done) + 1

\* The frame of the i-th decoder stands for the reading r of the wire w.
At(peer, w, i, r, frame) ==
    /\ i \in 1..MaxHeight
    /\ r.part \in Messages[Level(i)] /\ r.start \in Nat /\ r.done \in 0..Len(PiecesOf(peer, i, r))
    /\ frame = [fields |-> r.part[1], end |-> r.start + Len(BytesOf(peer, i, r)),
                msg |-> Partial(peer, Level(i), r.part, r.done), into |-> frame.into]
    /\ \A k \in 1..Len(BytesOf(peer, i, r)) : w[r.start + k] = BytesOf(peer, i, r)[k]

\* The next piece of outer, read by the i-th decoder, is what inner reads for the field f.
Linked(peer, i, outer, inner, f) ==
    /\ f \in DOMAIN outer.part[1] /\ outer.part[1][f].type = "message"
    /\ outer.done < Len(PiecesOf(peer, i, outer))
    /\ \E j \in 1..Count(outer.part[1][f], outer.part[2][f], peer) :
          /\ outer.done + 1 = Before(peer, Level(i), outer.part, f) + j
          /\ inner.part = <<outer.part[1][f].of, Element(outer.part[1][f], outer.part[2][f], j)>>
    /\ inner.start = Cursor(peer, i, outer)

LEMMA PieceAt ==
    ASSUME NEW peer \in Peers, NEW w, NEW i, NEW r, NEW frame, At(peer, w, i, r, frame)
    PROVE  /\ Level(i) \in 1..MaxHeight /\ IsSeq(PiecesOf(peer, i, r)) /\ IsSeq(BytesOf(peer, i, r))
           /\ Len(PiecesOf(peer, i, r)) \in Nat /\ Len(BytesOf(peer, i, r)) \in Nat
           /\ Offset(PiecesOf(peer, i, r), 0) = 0
           /\ \A n \in 0..Len(PiecesOf(peer, i, r)) : /\ Offset(PiecesOf(peer, i, r), n) \in Nat
                                                     /\ Offset(PiecesOf(peer, i, r), n) <= Len(BytesOf(peer, i, r))
           /\ Offset(PiecesOf(peer, i, r), Len(PiecesOf(peer, i, r))) = Len(BytesOf(peer, i, r))
           /\ Cursor(peer, i, r) \in Nat /\ Cursor(peer, i, r) <= frame.end + 1
           /\ r.done < Len(PiecesOf(peer, i, r)) =>
                LET P == PiecesOf(peer, i, r)[r.done + 1]
                IN  /\ Len(P) \in Nat
                    /\ Offset(PiecesOf(peer, i, r), r.done + 1) = Offset(PiecesOf(peer, i, r), r.done) + Len(P)
                    /\ \A k \in 1..Len(P) : w[Cursor(peer, i, r) + k - 1] = P[k]
<1> DEFINE h == Level(i)
           p == r.part
           PP == PiecesOf(peer, i, r)
           B == BytesOf(peer, i, r)
           x == Cursor(peer, i, r)
<1>1. h \in 1..MaxHeight /\ p \in Messages[h]
  BY WireAssumption DEF At, Level
<1>2. /\ IsSeq(PP) /\ \A u \in 1..Len(PP) : IsSeq(PP[u])
      /\ B = FlattenSeq(PP) /\ IsSeq(B)
  BY <1>1, Layout DEF PiecesOf, BytesOf
<1>3. r.start \in Nat /\ r.done \in 0..Len(PP) /\ frame.end = r.start + Len(B)
      /\ \A k \in 1..Len(B) : w[r.start + k] = B[k]
  BY DEF At
<1>4. x = r.start + Offset(PP, r.done) + 1
  BY DEF Cursor
<1> HIDE DEF PP, B, h, p, x
<1>5. Len(PP) \in Nat /\ Len(B) \in Nat
  BY <1>2, IsSeqFacts
<1>6. /\ Len(B) = Offset(PP, Len(PP)) /\ Offset(PP, 0) = 0 /\ \A n \in 0..Len(PP) : Offset(PP, n) \in Nat
      /\ \A n \in 1..Len(PP) : Offset(PP, n) = Offset(PP, n - 1) + Len(PP[n])
      /\ \A k \in 1..Len(PP) : \A j \in 1..Len(PP[k]) : B[Offset(PP, k - 1) + j] = PP[k][j]
  BY <1>2, Flattened
<1>7. \A n \in 0..Len(PP) : Offset(PP, n) <= Len(B)
  <2>1. Len(PP) \in 0..Len(PP) /\ \A n \in 0..Len(PP) : n <= Len(PP)
    BY <1>5
  <2> QED BY <1>2, <1>6, <2>1, OffsetsGrow
<1>8. x \in Nat /\ x <= frame.end + 1
  <2>1. Offset(PP, r.done) \in Nat /\ Offset(PP, r.done) <= Len(B)
    BY <1>3, <1>6, <1>7
  <2> QED BY <1>3, <1>4, <1>5, <2>1
<1>9. ASSUME r.done < Len(PP)
      PROVE  LET P == PP[r.done + 1]
             IN  /\ Len(P) \in Nat /\ Offset(PP, r.done + 1) = Offset(PP, r.done) + Len(P)
                 /\ \A k \in 1..Len(P) : w[x + k - 1] = P[k]
  <2> DEFINE u == r.done + 1
             P == PP[u]
  <2>1. u \in 1..Len(PP) /\ u \in 0..Len(PP) /\ u - 1 = r.done
    BY <1>3, <1>5, <1>9
  <2>2. Len(P) \in Nat /\ IsSeq(P)
    BY <1>2, <2>1, IsSeqFacts
  <2>3. Offset(PP, u) = Offset(PP, r.done) + Len(P)
    BY <1>6, <2>1
  <2>4. Offset(PP, u) <= Len(B) /\ Offset(PP, r.done) \in Nat
    BY <1>3, <1>6, <1>7, <2>1
  <2> HIDE DEF P, u
  <2>5. ASSUME NEW k \in 1..Len(P) PROVE w[x + k - 1] = P[k]
    <3>1. B[Offset(PP, r.done) + k] = P[k]
      BY <1>6, <2>1 DEF P
    <3>2. Offset(PP, r.done) + k \in 1..Len(B)
      BY <1>5, <2>2, <2>3, <2>4
    <3>3. x + k - 1 = r.start + (Offset(PP, r.done) + k)
      BY <1>3, <1>4, <2>2, <2>4
    <3> QED BY <1>3, <3>1, <3>2, <3>3
  <2> QED BY <2>2, <2>3, <2>5 DEF P, u
<1> QED BY <1>1, <1>2, <1>5, <1>6, <1>7, <1>8, <1>9 DEF PP, B, h, x

LEMMA AtFacts ==
    ASSUME NEW peer \in Peers, NEW w, NEW i, NEW r, NEW frame, At(peer, w, i, r, frame)
    PROVE  /\ i \in 1..MaxHeight /\ Level(i) \in 1..MaxHeight /\ r.part \in Messages[Level(i)]
           /\ r.start \in Nat /\ r.done \in Nat /\ r.done \in 0..Len(PiecesOf(peer, i, r))
           /\ frame.fields = r.part[1] /\ frame.end = r.start + Len(BytesOf(peer, i, r))
           /\ frame.msg = Partial(peer, Level(i), r.part, r.done)
           /\ PiecesOf(peer, i, r) = Pieces(peer, Level(i), r.part)
           /\ Offset(PiecesOf(peer, i, r), r.done) \in Nat
<1>1. /\ i \in 1..MaxHeight /\ r.part \in Messages[Level(i)] /\ r.start \in Nat
      /\ r.done \in 0..Len(PiecesOf(peer, i, r))
      /\ frame.fields = r.part[1] /\ frame.end = r.start + Len(BytesOf(peer, i, r))
      /\ frame.msg = Partial(peer, Level(i), r.part, r.done)
  BY DEF At
<1>2. Level(i) \in 1..MaxHeight /\ \A n \in 0..Len(PiecesOf(peer, i, r)) : Offset(PiecesOf(peer, i, r), n) \in Nat
  BY PieceAt
<1>3. r.done \in Nat /\ Offset(PiecesOf(peer, i, r), r.done) \in Nat
  BY <1>1, <1>2
<1> QED BY <1>1, <1>2, <1>3 DEF PiecesOf

LEMMA PieceAtCursor ==
    ASSUME NEW peer \in Peers, NEW w, NEW i, NEW r, NEW frame, At(peer, w, i, r, frame),
           r.done < Len(PiecesOf(peer, i, r)), NEW P, P = PiecesOf(peer, i, r)[r.done + 1]
    PROVE  /\ Len(P) \in Nat
           /\ Offset(PiecesOf(peer, i, r), r.done + 1) = Offset(PiecesOf(peer, i, r), r.done) + Len(P)
           /\ Cursor(peer, i, r) \in Nat
           /\ \A k \in 1..Len(P) : w[Cursor(peer, i, r) + k - 1] = P[k]
BY PieceAt

\* What the reader is at while a piece is left: a token of a field, one that no
\* field has, or the padding behind all of them.
LEMMA NextToken ==
    ASSUME NEW peer \in Peers, NEW w, NEW i, NEW r, NEW frame, At(peer, w, i, r, frame),
           r.done < Len(PiecesOf(peer, i, r)), NEW t, t = w[Cursor(peer, i, r)]
    PROVE  /\ Cursor(peer, i, r) <= frame.end
           /\ \/ /\ t.tag # 0 /\ t.tag % 8 # 4 /\ t.body \in Nat
                 /\ Offset(PiecesOf(peer, i, r), r.done + 1) = Offset(PiecesOf(peer, i, r), r.done) + 1 + t.body
                 /\ \/ \E f \in DOMAIN r.part[1] :
                          /\ \E j \in 1..Count(r.part[1][f], r.part[2][f], peer) :
                                r.done + 1 = Before(peer, Level(i), r.part, f) + j
                          /\ t.tag \in Tags(r.part[1][f])
                          /\ \A g \in DOMAIN r.part[1] : t.tag \in Tags(r.part[1][g]) => g = f
                    \/ \E j \in 1..Len(Extra(peer)) :
                          /\ r.done + 1 = FieldsEnd(peer, Level(i), r.part) + j
                          /\ \A g \in DOMAIN r.part[1] : t.tag \notin Tags(r.part[1][g])
              \/ /\ t.tag = 0
                 /\ r.done = FieldsEnd(peer, Level(i), r.part) /\ r.done + 1 = Len(PiecesOf(peer, i, r))
                 /\ Offset(PiecesOf(peer, i, r), r.done + 1) = Offset(PiecesOf(peer, i, r), r.done) + 1
<1> DEFINE h == Level(i)
           p == r.part
           PP == PiecesOf(peer, i, r)
           u == r.done + 1
           P == PP[u]
           x == Cursor(peer, i, r)
<1>1. h \in 1..MaxHeight /\ p \in Messages[h] /\ PP = Pieces(peer, h, p)
  BY WireAssumption DEF At, Level, PiecesOf
<1>2. r.done \in 0..Len(PP) /\ r.start \in Nat /\ frame.end = r.start + Len(BytesOf(peer, i, r))
  BY DEF At
<1>3. /\ Len(PP) \in Nat /\ Len(BytesOf(peer, i, r)) \in Nat
      /\ \A n \in 0..Len(PP) : Offset(PP, n) \in Nat /\ Offset(PP, n) <= Len(BytesOf(peer, i, r))
      /\ x \in Nat /\ x = r.start + Offset(PP, r.done) + 1
      /\ Len(P) \in Nat /\ Offset(PP, u) = Offset(PP, r.done) + Len(P)
      /\ \A k \in 1..Len(P) : w[x + k - 1] = P[k]
  <2>1. /\ Len(PP) \in Nat /\ Len(BytesOf(peer, i, r)) \in Nat
        /\ \A n \in 0..Len(PP) : Offset(PP, n) \in Nat /\ Offset(PP, n) <= Len(BytesOf(peer, i, r))
    BY PieceAt
  <2>2. /\ x \in Nat /\ Len(P) \in Nat /\ Offset(PP, u) = Offset(PP, r.done) + Len(P)
        /\ \A k \in 1..Len(P) : w[x + k - 1] = P[k]
    <3> HIDE DEF P
    <3> QED BY PieceAtCursor DEF P
  <2>3. x = r.start + Offset(PP, r.done) + 1
    BY DEF Cursor
  <2> QED BY <2>1, <2>2, <2>3
<1>0. Len(PP) \in Nat /\ r.done < Len(PP)
  BY <1>3
<1>4. u \in 1..Len(PP) /\ u \in 0..Len(PP)
  <2> HIDE DEF PP
  <2> QED BY <1>0, <1>2
<1>5. ASSUME Len(P) >= 1 PROVE x <= frame.end /\ P[1] = t
  <2>1. Offset(PP, u) <= Len(BytesOf(peer, i, r)) /\ Offset(PP, r.done) \in Nat
    BY <1>2, <1>3, <1>4
  <2> HIDE DEF x, PP, P, u
  <2>2. x <= frame.end
    BY <1>2, <1>3, <1>5, <2>1
  <2>3. 1 \in 1..Len(P) /\ x + 1 - 1 = x
    BY <1>3, <1>5
  <2> QED BY <1>3, <2>2, <2>3 DEF x
<1>6. CASE \E f \in DOMAIN p[1] : \E j \in 1..Count(p[1][f], p[2][f], peer) : u = Before(peer, h, p, f) + j
  <2>1. PICK f \in DOMAIN p[1] : \E j \in 1..Count(p[1][f], p[2][f], peer) : u = Before(peer, h, p, f) + j
    BY <1>6
  <2>2. PICK j \in 1..Count(p[1][f], p[2][f], peer) : u = Before(peer, h, p, f) + j
    BY <2>1
  <2>3. /\ Len(P) = 1 + P[1].body /\ P[1].body \in Nat
        /\ P[1].tag \in Tags(p[1][f]) /\ P[1].tag # 0 /\ P[1].tag % 8 # 4
        /\ \A g \in DOMAIN p[1] : P[1].tag \in Tags(p[1][g]) => g = f
    <3>1. P = Pieces(peer, h, p)[Before(peer, h, p, f) + j]
      BY <1>1, <2>2
    <3> HIDE DEF h, p, PP, u, P
    <3> QED BY <1>1, <3>1, FieldHead, SMTT(30)
  <2>4. Len(P) >= 1
    <3> HIDE DEF P
    <3> QED BY <2>3
  <2>5. x <= frame.end /\ P[1] = t
    <3> HIDE DEF P, x
    <3> QED BY <1>5, <2>4
  <2>6. Offset(PP, u) = Offset(PP, r.done) + 1 + t.body
    <3>1. Offset(PP, r.done) \in Nat
      BY <1>2, <1>3
    <3>2. Len(P) = 1 + t.body /\ t.body \in Nat /\ Offset(PP, u) = Offset(PP, r.done) + Len(P)
      <4> HIDE DEF PP, P, u
      <4> QED BY <1>3, <2>3, <2>5
    <3> HIDE DEF PP, P, u
    <3> QED BY <3>1, <3>2
  <2>7. \E k \in 1..Count(p[1][f], p[2][f], peer) : r.done + 1 = Before(peer, h, p, f) + k
    BY <2>2
  <2> HIDE DEF P
  <2> QED BY <2>3, <2>5, <2>6, <2>7
<1>7. CASE \E j \in 1..Len(Extra(peer)) : u = FieldsEnd(peer, h, p) + j /\ Pieces(peer, h, p)[u] = Extra(peer)[j]
  <2>1. PICK j \in 1..Len(Extra(peer)) : u = FieldsEnd(peer, h, p) + j /\ Pieces(peer, h, p)[u] = Extra(peer)[j]
    BY <1>7
  <2>2. \/ /\ P = <<Token(0, 0, 0)>> /\ j = 1 /\ u = Len(PP)
        \/ /\ Len(P) = 1 + P[1].body /\ P[1].body \in Nat
           /\ P[1].tag # 0 /\ P[1].tag % 8 # 4
           /\ \A g \in DOMAIN p[1] : P[1].tag \notin Tags(p[1][g])
    <3> HIDE DEF h, p, PP, u
    <3> QED BY <1>1, <2>1, AddedPiece
  <2>3. CASE P = <<Token(0, 0, 0)>> /\ j = 1 /\ u = Len(PP)
    <3>1. Len(P) = 1 /\ P[1] = Token(0, 0, 0)
      BY <2>3, TokenIsSeq
    <3>2. x <= frame.end /\ P[1] = t
      BY <1>5, <3>1
    <3>3. t.tag = 0
      BY <3>1, <3>2 DEF Token
    <3>4. r.done = FieldsEnd(peer, h, p)
      <4>1. FieldsEnd(peer, h, p) \in Nat
        BY <1>1, FieldSpans
      <4>2. r.done + 1 = FieldsEnd(peer, h, p) + 1
        BY <2>1, <2>3
      <4> QED BY <1>2, <4>1, <4>2
    <3> HIDE DEF P
    <3> QED BY <1>3, <2>3, <3>1, <3>2, <3>3, <3>4
  <2>4. CASE /\ Len(P) = 1 + P[1].body /\ P[1].body \in Nat
             /\ P[1].tag # 0 /\ P[1].tag % 8 # 4
             /\ \A g \in DOMAIN p[1] : P[1].tag \notin Tags(p[1][g])
    <3>1. Len(P) >= 1
      <4> HIDE DEF P
      <4> QED BY <2>4
    <3>2. x <= frame.end /\ P[1] = t
      <4> HIDE DEF P, x
      <4> QED BY <1>5, <3>1
    <3>3. Offset(PP, u) = Offset(PP, r.done) + 1 + t.body
      <4>1. Offset(PP, r.done) \in Nat
        BY <1>2, <1>3
      <4>2. Len(P) = 1 + t.body /\ t.body \in Nat /\ Offset(PP, u) = Offset(PP, r.done) + Len(P)
        <5>1. Offset(PP, u) = Offset(PP, r.done) + Len(P)
          BY <1>3
        <5>2. Len(P) = 1 + t.body /\ t.body \in Nat
          <6> HIDE DEF P
          <6> QED BY <2>4, <3>2
        <5> QED BY <5>1, <5>2
      <4> DEFINE o == Offset(PP, r.done)
                 b == t.body
                 l == Len(P)
      <4>3. l = 1 + b /\ b \in Nat /\ Offset(PP, u) = o + l /\ o \in Nat
        BY <4>1, <4>2
      <4> HIDE DEF o, b, l
      <4>4. Offset(PP, u) = o + 1 + b
        BY <4>3
      <4> QED BY <4>4 DEF o, b
    <3>4. r.done + 1 = FieldsEnd(peer, h, p) + j
      BY <2>1
    <3> HIDE DEF P
    <3> QED BY <2>4, <3>2, <3>3, <3>4
  <2> QED BY <2>2, <2>3, <2>4
<1> QED BY <1>1, <1>4, <1>6, <1>7, PieceOf

----------------------------------------------------------------------------
(* One iteration of a decoder's loop.                                      *)

\* The reading r, one piece further.
Further(r) == [part |-> r.part, start |-> r.start, done |-> r.done + 1]

LEMMA FurtherFacts ==
    ASSUME NEW peer, NEW i, NEW r
    PROVE  /\ Further(r).part = r.part /\ Further(r).start = r.start /\ Further(r).done = r.done + 1
           /\ PiecesOf(peer, i, Further(r)) = PiecesOf(peer, i, r) /\ BytesOf(peer, i, Further(r)) = BytesOf(peer, i, r)
BY DEF Further, PiecesOf, BytesOf

LEMMA AtFurther ==
    ASSUME NEW peer \in Peers, NEW w, NEW i, NEW r, NEW frame, At(peer, w, i, r, frame),
           r.done < Len(PiecesOf(peer, i, r)), NEW new,
           new = [frame EXCEPT !.msg = Partial(peer, Level(i), r.part, r.done + 1)]
    PROVE  /\ At(peer, w, i, Further(r), new)
           /\ new.fields = frame.fields /\ new.end = frame.end /\ new.into = frame.into
<1> DEFINE m == Partial(peer, Level(i), r.part, r.done + 1)
           B == BytesOf(peer, i, r)
<1>1. /\ i \in 1..MaxHeight
      /\ r.part \in Messages[Level(i)] /\ r.start \in Nat /\ r.done \in 0..Len(PiecesOf(peer, i, r))
      /\ frame = [fields |-> r.part[1], end |-> r.start + Len(B),
                  msg |-> Partial(peer, Level(i), r.part, r.done), into |-> frame.into]
      /\ \A k \in 1..Len(B) : w[r.start + k] = B[k]
  BY DEF At
<1>2. new = [fields |-> r.part[1], end |-> r.start + Len(B), msg |-> m, into |-> frame.into]
  <2> HIDE DEF m, B
  <2> QED BY <1>1 DEF m
<1>3. new.into = frame.into /\ new.fields = frame.fields /\ new.end = frame.end
  <2> HIDE DEF m, B
  <2> QED BY <1>1, <1>2
<1>4. Len(PiecesOf(peer, i, r)) \in Nat
  BY PieceAt
<1>5. r.done + 1 \in 0..Len(PiecesOf(peer, i, r))
  BY <1>1, <1>4
<1>6. /\ Further(r).part = r.part /\ Further(r).start = r.start /\ Further(r).done = r.done + 1
      /\ PiecesOf(peer, i, Further(r)) = PiecesOf(peer, i, r) /\ BytesOf(peer, i, Further(r)) = B
  BY FurtherFacts
<1>7. new = [fields |-> Further(r).part[1], end |-> Further(r).start + Len(BytesOf(peer, i, Further(r))),
             msg |-> Partial(peer, Level(i), Further(r).part, Further(r).done), into |-> new.into]
  BY <1>2, <1>3, <1>6
<1>8. At(peer, w, i, Further(r), new)
  <2> HIDE DEF m, B
  <2> QED BY <1>1, <1>5, <1>6, <1>7 DEF At
<1> QED BY <1>3, <1>8

\* ReadValue.
LEMMA ReadStep ==
    ASSUME NEW peer \in Peers, NEW w, NEW i, NEW r, NEW frame, At(peer, w, i, r, frame),
           r.done < Len(PiecesOf(peer, i, r)), NEW t, t = w[Cursor(peer, i, r)],
           NEW f \in DOMAIN r.part[1], r.part[1][f].type # "message",
           NEW j \in 1..Count(r.part[1][f], r.part[2][f], peer), r.done + 1 = Before(peer, Level(i), r.part, f) + j,
           NEW new, new = [frame EXCEPT !.msg = [frame.msg EXCEPT ![f] = ReadInto(frame.fields[f], frame.msg[f], t)]]
    PROVE  /\ At(peer, w, i, Further(r), new)
           /\ Cursor(peer, i, Further(r)) = Cursor(peer, i, r) + 1
           /\ new.into = frame.into
<1> DEFINE h == Level(i)
           p == r.part
           PP == PiecesOf(peer, i, r)
           u == r.done + 1
           P == PP[u]
<1>1. h \in 1..MaxHeight /\ p \in Messages[h] /\ PP = Pieces(peer, h, p) /\ r.done \in Nat /\ r.start \in Nat
  BY AtFacts
<1>2. frame.fields = p[1] /\ frame.msg = Partial(peer, h, p, r.done)
  BY AtFacts
<1>3. P = <<Token(PieceTag(p[1][f], peer), PieceValue(p[1][f], p[2][f], peer, j), 0)>>
  <2>1. P = Pieces(peer, h, p)[Before(peer, h, p, f) + j]
    BY <1>1
  <2> HIDE DEF P, h
  <2> QED BY <1>1, <2>1, FieldPiece
<1>4. Len(P) = 1 /\ P[1] = Token(PieceTag(p[1][f], peer), PieceValue(p[1][f], p[2][f], peer, j), 0)
  BY <1>3, TokenIsSeq
<1>5. /\ Offset(PP, u) = Offset(PP, r.done) + Len(P) /\ Offset(PP, r.done) \in Nat
      /\ Cursor(peer, i, r) \in Nat /\ \A k \in 1..Len(P) : w[Cursor(peer, i, r) + k - 1] = P[k]
  <2>1. Offset(PP, r.done) \in Nat
    BY AtFacts
  <2> HIDE DEF P
  <2>2. /\ Offset(PP, u) = Offset(PP, r.done) + Len(P)
        /\ Cursor(peer, i, r) \in Nat /\ \A k \in 1..Len(P) : w[Cursor(peer, i, r) + k - 1] = P[k]
    BY PieceAtCursor DEF P
  <2> QED BY <2>1, <2>2
<1>6. t = Token(PieceTag(p[1][f], peer), PieceValue(p[1][f], p[2][f], peer, j), 0)
  <2>1. 1 \in 1..Len(P) /\ Cursor(peer, i, r) + 1 - 1 = Cursor(peer, i, r)
    BY <1>4, <1>5
  <2> HIDE DEF P
  <2> QED BY <1>4, <1>5, <2>1
<1>7. /\ Partial(peer, h, p, u - 1)[f] = Upto(peer, h, p, f, j - 1)
      /\ Partial(peer, h, p, u) = [Partial(peer, h, p, u - 1) EXCEPT ![f] = Upto(peer, h, p, f, j)]
  <2> HIDE DEF h, p, u
  <2>1. u = Before(peer, h, p, f) + j /\ p \in Messages[h] /\ h \in 1..MaxHeight
    BY <1>1 DEF u, p, h
  <2>2. f \in DOMAIN p[1] /\ j \in 1..Count(p[1][f], p[2][f], peer)
    BY DEF p
  <2> QED BY <2>1, <2>2, PartialStep
<1>8. u - 1 = r.done
  BY <1>1
<1>9. ReadInto(p[1][f], Upto(peer, h, p, f, j - 1), t) = Upto(peer, h, p, f, j)
  <2> HIDE DEF h
  <2> QED BY <1>1, <1>6, UptoScalar
<1>10. [frame.msg EXCEPT ![f] = ReadInto(frame.fields[f], frame.msg[f], t)] = Partial(peer, h, p, u)
  BY <1>2, <1>7, <1>8, <1>9
<1>11. new = [frame EXCEPT !.msg = Partial(peer, h, p, u)]
  BY <1>10
<1>12. At(peer, w, i, Further(r), new) /\ new.into = frame.into
  BY <1>11, AtFurther
<1>13. Cursor(peer, i, Further(r)) = r.start + Offset(PP, u) + 1 /\ Cursor(peer, i, r) = r.start + Offset(PP, r.done) + 1
  BY FurtherFacts DEF Cursor
<1>14. Cursor(peer, i, Further(r)) = Cursor(peer, i, r) + 1
  <2> DEFINE o == Offset(PP, r.done)
             s == r.start
  <2>1. Offset(PP, u) = o + 1 /\ o \in Nat /\ s \in Nat
    BY <1>1, <1>4, <1>5
  <2>2. Cursor(peer, i, Further(r)) = s + (o + 1) + 1 /\ Cursor(peer, i, r) = s + o + 1
    BY <1>13, <2>1
  <2> HIDE DEF o, s
  <2> QED BY <2>1, <2>2
<1> QED BY <1>12, <1>14

\* SkipField.
LEMMA SkipStep ==
    ASSUME NEW peer \in Peers, NEW w, NEW i, NEW r, NEW frame, At(peer, w, i, r, frame),
           r.done < Len(PiecesOf(peer, i, r)), r.done >= FieldsEnd(peer, Level(i), r.part), NEW t,
           t.body \in Nat,
           Offset(PiecesOf(peer, i, r), r.done + 1) = Offset(PiecesOf(peer, i, r), r.done) + 1 + t.body
    PROVE  /\ At(peer, w, i, Further(r), frame)
           /\ Cursor(peer, i, Further(r)) = Cursor(peer, i, r) + 1 + t.body
<1> DEFINE h == Level(i)
           p == r.part
           PP == PiecesOf(peer, i, r)
<1>1. /\ h \in 1..MaxHeight /\ p \in Messages[h] /\ r.done \in Nat /\ r.start \in Nat
      /\ Offset(PP, r.done) \in Nat
  BY AtFacts
<1>2. /\ frame.msg = Partial(peer, h, p, r.done)
      /\ frame = [fields |-> p[1], end |-> r.start + Len(BytesOf(peer, i, r)),
                  msg |-> Partial(peer, h, p, r.done), into |-> frame.into]
  BY DEF At
<1>3. FieldsEnd(peer, h, p) \in Nat
  BY <1>1, FieldSpans
<1>4. Partial(peer, h, p, r.done) = Partial(peer, h, p, r.done + 1)
  <2>1. r.done + 1 \in Nat /\ r.done + 1 >= FieldsEnd(peer, h, p)
    BY <1>1, <1>3
  <2>2. Partial(peer, h, p, r.done) = After("wire")[h][p]
    BY <1>1, PartialEnd
  <2>3. Partial(peer, h, p, r.done + 1) = After("wire")[h][p]
    BY <1>1, <2>1, PartialEnd
  <2> QED BY <2>2, <2>3
<1>5. frame = [frame EXCEPT !.msg = Partial(peer, h, p, r.done + 1)]
  <2> DEFINE m == Partial(peer, h, p, r.done)
             e == r.start + Len(BytesOf(peer, i, r))
  <2>1. frame = [fields |-> p[1], end |-> e, msg |-> m, into |-> frame.into]
    BY <1>2
  <2> HIDE DEF m, e
  <2>2. frame = [frame EXCEPT !.msg = m]
    BY <2>1
  <2> QED BY <1>4, <2>2 DEF m
<1>6. At(peer, w, i, Further(r), frame)
  BY <1>5, AtFurther
<1>7. Cursor(peer, i, Further(r)) = r.start + Offset(PP, r.done + 1) + 1 /\ Cursor(peer, i, r) = r.start + Offset(PP, r.done) + 1
  BY FurtherFacts DEF Cursor
<1>8. Offset(PP, r.done + 1) = Offset(PP, r.done) + 1 + t.body
  OBVIOUS
<1>9. Cursor(peer, i, Further(r)) = Cursor(peer, i, r) + 1 + t.body
  <2> DEFINE o == Offset(PP, r.done)
             s == r.start
             b == t.body
  <2>1. Offset(PP, r.done + 1) = o + 1 + b /\ o \in Nat /\ s \in Nat /\ b \in Nat
    BY <1>1, <1>8
  <2>2. Cursor(peer, i, Further(r)) = s + (o + 1 + b) + 1 /\ Cursor(peer, i, r) = s + o + 1
    BY <1>7, <2>1
  <2> HIDE DEF o, s, b
  <2>3. Cursor(peer, i, Further(r)) = Cursor(peer, i, r) + 1 + b
    BY <2>1, <2>2
  <2> QED BY <2>3 DEF b
<1> QED BY <1>6, <1>9

\* EnterMessage.
LEMMA EnterStep ==
    ASSUME NEW peer \in Peers, NEW w, NEW i, NEW r, NEW frame, At(peer, w, i, r, frame),
           r.done < Len(PiecesOf(peer, i, r)), NEW t, t = w[Cursor(peer, i, r)],
           NEW f \in DOMAIN r.part[1], r.part[1][f].type = "message",
           NEW j \in 1..Count(r.part[1][f], r.part[2][f], peer), r.done + 1 = Before(peer, Level(i), r.part, f) + j,
           NEW inner, inner = [part  |-> <<r.part[1][f].of, Element(r.part[1][f], r.part[2][f], j)>>,
                               start |-> Cursor(peer, i, r), done |-> 0],
           NEW new, new = Frame(frame.fields[f].of, Cursor(peer, i, r) + t.body, f)
    PROVE  /\ At(peer, w, i + 1, inner, new) /\ new.into = f
           /\ Linked(peer, i, r, inner, f)
           /\ Cursor(peer, i + 1, inner) = Cursor(peer, i, r) + 1
<1> DEFINE h == Level(i)
           p == r.part
           PP == PiecesOf(peer, i, r)
           x == Cursor(peer, i, r)
           q == <<p[1][f].of, Element(p[1][f], p[2][f], j)>>
           B == Encode(peer)[h - 1][q]
           P == PP[r.done + 1]
<1>1. /\ h \in 1..MaxHeight /\ p \in Messages[h] /\ PP = Pieces(peer, h, p) /\ i \in 1..MaxHeight
      /\ frame.fields = p[1]
  BY AtFacts
<1>2. q \in Messages[h - 1]
  <2> HIDE DEF h
  <2> QED BY <1>1, ElementFacts
<1>3. MaxHeight \in Nat /\ h - 1 \in 0..MaxHeight
  BY <1>1, WireAssumption
<1>4. h - 1 \in 1..MaxHeight
  <2> HIDE DEF q, h
  <2> QED BY <1>2, <1>3, MessageFacts
<1>5. Level(i + 1) = h - 1 /\ i + 1 \in 1..MaxHeight
  BY <1>1, <1>3, <1>4 DEF Level
<1>6. IsSeq(B) /\ Len(B) \in Nat
  <2> HIDE DEF q, h
  <2> QED BY <1>2, <1>3, EncodedAreSeqs, IsSeqFacts
<1>7. P = Framed(p[1][f].no, B)
  <2>1. P = Pieces(peer, h, p)[Before(peer, h, p, f) + j]
    BY <1>1
  <2> HIDE DEF P, h
  <2> QED BY <1>1, <2>1, FieldPiece
<1>8. /\ Len(P) = 1 + Len(B) /\ P[1] = Token(Tag(p[1][f].no, 2), <<>>, Len(B))
      /\ \A k \in 1..Len(B) : P[1 + k] = B[k]
  <2> HIDE DEF P, B
  <2> QED BY <1>6, <1>7, FramedFacts
<1>9. /\ Offset(PP, r.done + 1) = Offset(PP, r.done) + Len(P)
      /\ x \in Nat /\ \A k \in 1..Len(P) : w[x + k - 1] = P[k]
  <2> HIDE DEF P
  <2> QED BY PieceAtCursor DEF P
<1>10. t.body = Len(B)
  <2> HIDE DEF P, x, B
  <2>0. Len(P) = 1 + Len(B) /\ Len(B) \in Nat /\ x \in Nat
    BY <1>6, <1>8, <1>9
  <2>1. 1 \in 1..Len(P) /\ x + 1 - 1 = x
    BY <2>0
  <2>2. t = P[1]
    BY <1>9, <2>1 DEF x
  <2> QED BY <1>8, <2>2 DEF Token
<1>11. ASSUME NEW k \in 1..Len(B) PROVE w[x + k] = B[k]
  <2> HIDE DEF P, x, B
  <2>0. Len(P) = 1 + Len(B) /\ Len(B) \in Nat /\ x \in Nat
    BY <1>6, <1>8, <1>9
  <2>1. 1 + k \in 1..Len(P) /\ x + (1 + k) - 1 = x + k
    BY <2>0
  <2>2. w[x + (1 + k) - 1] = P[1 + k]
    BY <1>9, <2>1
  <2> QED BY <1>8, <2>1, <2>2
<1>12. inner.part = q /\ inner.start = x /\ inner.done = 0
  OBVIOUS
<1>13. BytesOf(peer, i + 1, inner) = B /\ PiecesOf(peer, i + 1, inner) = Pieces(peer, h - 1, q)
  BY <1>5, <1>12 DEF BytesOf, PiecesOf
<1>14. Len(Pieces(peer, h - 1, q)) \in Nat /\ Offset(Pieces(peer, h - 1, q), 0) = 0
  <2> HIDE DEF q, h
  <2> QED BY <1>2, <1>4, Layout, IsSeqFacts DEF Offset
<1>15. new = [fields |-> q[1], end |-> x + Len(B), msg |-> Partial(peer, h - 1, q, 0), into |-> f]
  <2>1. Partial(peer, h - 1, q, 0) = CreateBase(q[1])
    <3> HIDE DEF q, h
    <3> QED BY <1>2, <1>4, PartialStart
  <2>2. q[1] = frame.fields[f].of
    BY <1>1
  <2>3. new = [fields |-> q[1], end |-> x + Len(B), msg |-> CreateBase(q[1]), into |-> f]
    <3> HIDE DEF q, B
    <3> QED BY <1>10, <2>2 DEF Frame
  <2> QED BY <2>1, <2>3
<1>16. new.into = f
  <2> HIDE DEF q, x, B, h
  <2> QED BY <1>15
<1>17. At(peer, w, i + 1, inner, new)
  <2>1. inner.part \in Messages[Level(i + 1)] /\ inner.start \in Nat
        /\ inner.done \in 0..Len(PiecesOf(peer, i + 1, inner))
    <3> HIDE DEF q, x, B, h
    <3> QED BY <1>2, <1>5, <1>9, <1>12, <1>13, <1>14
  <2>2. new = [fields |-> inner.part[1], end |-> inner.start + Len(BytesOf(peer, i + 1, inner)),
               msg |-> Partial(peer, Level(i + 1), inner.part, inner.done), into |-> new.into]
    <3> HIDE DEF q, x, B, h
    <3> QED BY <1>5, <1>12, <1>13, <1>15, <1>16
  <2>3. \A k \in 1..Len(BytesOf(peer, i + 1, inner)) : w[inner.start + k] = BytesOf(peer, i + 1, inner)[k]
    <3> HIDE DEF q, x, B, h
    <3> QED BY <1>11, <1>12, <1>13
  <2> QED BY <1>5, <2>1, <2>2, <2>3 DEF At
<1>18. Linked(peer, i, r, inner, f)
  BY <1>12 DEF Linked
<1>19. Cursor(peer, i + 1, inner) = x + 1
  <2> HIDE DEF q, x, B, h
  <2> QED BY <1>9, <1>12, <1>13, <1>14 DEF Cursor
<1> QED BY <1>16, <1>17, <1>18, <1>19

\* A nested message ends where the piece that holds it ends.
LEMMA LinkedEnds ==
    ASSUME NEW peer \in Peers, NEW w, NEW i, NEW r, NEW frame, At(peer, w, i, r, frame),
           NEW inner, NEW nested, At(peer, w, i + 1, inner, nested), NEW f, Linked(peer, i, r, inner, f)
    PROVE  Cursor(peer, i, Further(r)) = nested.end + 1 /\ nested.end <= frame.end
<1> DEFINE h == Level(i)
           p == r.part
           PP == PiecesOf(peer, i, r)
           u == r.done + 1
           P == PP[u]
<1>1. /\ h \in 1..MaxHeight /\ p \in Messages[h] /\ PP = Pieces(peer, h, p) /\ i \in 1..MaxHeight
      /\ r.done \in Nat /\ r.start \in Nat /\ Offset(PP, r.done) \in Nat
      /\ frame.end = r.start + Len(BytesOf(peer, i, r))
  BY AtFacts
<1>2. /\ f \in DOMAIN p[1] /\ p[1][f].type = "message" /\ r.done < Len(PP)
      /\ inner.start = Cursor(peer, i, r)
  BY DEF Linked
<1>3. PICK j \in 1..Count(p[1][f], p[2][f], peer) :
         u = Before(peer, h, p, f) + j /\ inner.part = <<p[1][f].of, Element(p[1][f], p[2][f], j)>>
  BY DEF Linked
<1>4. Level(i + 1) = h - 1 /\ h - 1 \in 0..MaxHeight
  BY <1>1, WireAssumption DEF Level
<1> DEFINE B == Encode(peer)[h - 1][inner.part]
<1>5. BytesOf(peer, i + 1, inner) = B
  BY <1>4 DEF BytesOf
<1>6. nested.end = inner.start + Len(B)
  BY <1>5, AtFacts
<1>7. IsSeq(B) /\ Len(B) \in Nat
  BY <1>5, PieceAt
<1>8. P = Framed(p[1][f].no, B)
  <2>1. P = Pieces(peer, h, p)[Before(peer, h, p, f) + j]
    BY <1>1, <1>3
  <2>2. P = Framed(p[1][f].no, Encode(peer)[h - 1][<<p[1][f].of, Element(p[1][f], p[2][f], j)>>])
    <3> HIDE DEF P, h, p
    <3> QED BY <1>1, <1>2, <2>1, FieldPiece
  <2> QED BY <1>3, <2>2
<1>9. Len(P) = 1 + Len(B)
  <2> HIDE DEF P, B
  <2> QED BY <1>7, <1>8, FramedFacts
<1>10. Offset(PP, u) = Offset(PP, r.done) + Len(P)
  <2> HIDE DEF P
  <2> QED BY <1>2, PieceAtCursor DEF P
<1>11. Cursor(peer, i, Further(r)) = r.start + Offset(PP, u) + 1 /\ Cursor(peer, i, r) = r.start + Offset(PP, r.done) + 1
  BY FurtherFacts DEF Cursor
<1>12. Offset(PP, u) <= Len(BytesOf(peer, i, r)) /\ Len(BytesOf(peer, i, r)) \in Nat
  <2>1. /\ Len(PP) \in Nat /\ Len(BytesOf(peer, i, r)) \in Nat
        /\ \A n \in 0..Len(PP) : Offset(PP, n) <= Len(BytesOf(peer, i, r))
    BY PieceAt
  <2>2. u \in 0..Len(PP)
    BY <1>1, <1>2, <2>1
  <2> QED BY <2>1, <2>2
<1> DEFINE o == Offset(PP, r.done)
           s == r.start
           b == Len(B)
           e == Len(BytesOf(peer, i, r))
<1>13. /\ Offset(PP, u) = o + (1 + b) /\ o \in Nat /\ s \in Nat /\ b \in Nat /\ e \in Nat
       /\ o + (1 + b) <= e /\ frame.end = s + e
  BY <1>1, <1>7, <1>9, <1>10, <1>12
<1>14. Cursor(peer, i, Further(r)) = s + (o + (1 + b)) + 1 /\ nested.end = (s + o + 1) + b
  BY <1>2, <1>6, <1>11, <1>13
<1> HIDE DEF o, s, b, e
<1> QED BY <1>13, <1>14

\* LeaveMessage.
LEMMA LeaveStep ==
    ASSUME NEW peer \in Peers, NEW w, NEW i, NEW r, NEW frame, At(peer, w, i, r, frame),
           NEW inner, NEW nested, At(peer, w, i + 1, inner, nested),
           NEW f, Linked(peer, i, r, inner, f),
           nested.msg = After("wire")[Level(i + 1)][inner.part],
           NEW new, new = [frame EXCEPT !.msg = [frame.msg EXCEPT ![f] = LeaveInto(frame.fields[f], frame.msg[f], nested.msg)]]
    PROVE  /\ At(peer, w, i, Further(r), new) /\ new.into = frame.into
           /\ Cursor(peer, i, Further(r)) = nested.end + 1
<1> DEFINE h == Level(i)
           p == r.part
           PP == PiecesOf(peer, i, r)
           u == r.done + 1
<1>1. /\ h \in 1..MaxHeight /\ p \in Messages[h] /\ i \in 1..MaxHeight /\ r.done \in Nat
      /\ frame.fields = p[1] /\ frame.msg = Partial(peer, h, p, r.done)
  BY AtFacts
<1>2. f \in DOMAIN p[1] /\ p[1][f].type = "message" /\ r.done < Len(PP)
  BY DEF Linked
<1>3. PICK j \in 1..Count(p[1][f], p[2][f], peer) :
         u = Before(peer, h, p, f) + j /\ inner.part = <<p[1][f].of, Element(p[1][f], p[2][f], j)>>
  BY DEF Linked
<1>4. Level(i + 1) = h - 1
  BY <1>1, WireAssumption DEF Level
<1>5. /\ Partial(peer, h, p, u - 1)[f] = Upto(peer, h, p, f, j - 1)
      /\ Partial(peer, h, p, u) = [Partial(peer, h, p, u - 1) EXCEPT ![f] = Upto(peer, h, p, f, j)]
  <2> HIDE DEF h, p, u
  <2> QED BY <1>1, <1>2, <1>3, PartialStep
<1>6. u - 1 = r.done
  BY <1>1
<1>7. LeaveInto(p[1][f], Upto(peer, h, p, f, j - 1), nested.msg) = Upto(peer, h, p, f, j)
  <2>1. nested.msg = After("wire")[h - 1][<<p[1][f].of, Element(p[1][f], p[2][f], j)>>]
    BY <1>3, <1>4
  <2> HIDE DEF h, p
  <2> QED BY <1>1, <1>2, <2>1, UptoNested
<1>8. [frame.msg EXCEPT ![f] = LeaveInto(frame.fields[f], frame.msg[f], nested.msg)] = Partial(peer, h, p, u)
  BY <1>1, <1>5, <1>6, <1>7
<1>9. new = [frame EXCEPT !.msg = Partial(peer, h, p, u)]
  BY <1>8
<1>10. At(peer, w, i, Further(r), new) /\ new.into = frame.into
  BY <1>2, <1>9, AtFurther
<1> QED BY <1>10, LinkedEnds

\* The end of a loop: nothing is left, or only the padding behind the fields.
LEMMA EndStep ==
    ASSUME NEW peer \in Peers, NEW w, NEW i, NEW r, NEW frame, At(peer, w, i, r, frame),
           NEW x, x = Cursor(peer, i, r), x <= frame.end => (w[x].tag % 8 = 4 \/ w[x].tag = 0)
    PROVE  /\ frame.msg = After("wire")[Level(i)][r.part]
           /\ (IF x > frame.end THEN x ELSE x + 1) = frame.end + 1
<1> DEFINE h == Level(i)
           p == r.part
           PP == PiecesOf(peer, i, r)
           B == BytesOf(peer, i, r)
<1>1. /\ h \in 1..MaxHeight /\ p \in Messages[h] /\ PP = Pieces(peer, h, p)
      /\ frame.msg = Partial(peer, h, p, r.done) /\ frame.end = r.start + Len(B)
      /\ r.done \in Nat /\ r.start \in Nat /\ r.done \in 0..Len(PP) /\ Offset(PP, r.done) \in Nat
  BY AtFacts
<1>2. Len(PP) \in Nat /\ Len(B) \in Nat /\ Offset(PP, Len(PP)) = Len(B)
  BY PieceAt
<1>3. /\ FieldsEnd(peer, h, p) \in Nat /\ Len(Extra(peer)) \in Nat
      /\ Len(PP) = FieldsEnd(peer, h, p) + Len(Extra(peer))
  BY <1>1, FieldSpans
<1>4. x = r.start + Offset(PP, r.done) + 1
  BY DEF Cursor
<1>5. ASSUME r.done >= FieldsEnd(peer, h, p) PROVE frame.msg = After("wire")[h][p]
  <2> HIDE DEF h, p
  <2> QED BY <1>1, <1>5, PartialEnd
<1>6. CASE r.done = Len(PP)
  <2>1. r.done >= FieldsEnd(peer, h, p)
    BY <1>1, <1>3, <1>6
  <2>2. x = r.start + Len(B) + 1
    BY <1>2, <1>4, <1>6
  <2> HIDE DEF B
  <2>3. x > frame.end /\ x = frame.end + 1
    BY <1>1, <1>2, <2>2
  <2> QED BY <1>5, <2>1, <2>3
<1>7. CASE r.done # Len(PP)
  <2>1. r.done < Len(PP)
    BY <1>1, <1>2, <1>7
  <2>2. /\ x <= frame.end
        /\ \/ w[x].tag # 0 /\ w[x].tag % 8 # 4
           \/ /\ r.done = FieldsEnd(peer, h, p) /\ r.done + 1 = Len(PP)
              /\ Offset(PP, r.done + 1) = Offset(PP, r.done) + 1
    BY <2>1, NextToken
  <2>3. /\ r.done = FieldsEnd(peer, h, p) /\ r.done + 1 = Len(PP)
        /\ Offset(PP, r.done + 1) = Offset(PP, r.done) + 1
    BY <2>2
  <2>4. Len(B) = Offset(PP, r.done) + 1
    BY <1>2, <2>3
  <2> DEFINE o == Offset(PP, r.done)
             s == r.start
  <2>5. o \in Nat /\ s \in Nat /\ x = s + o + 1 /\ frame.end = s + (o + 1)
    BY <1>1, <1>4, <2>4
  <2>6. x \in Nat /\ ~(x > frame.end) /\ x + 1 = frame.end + 1
    <3> HIDE DEF o, s
    <3> QED BY <2>5
  <2>7. r.done >= FieldsEnd(peer, h, p)
    BY <1>1, <2>3
  <2> QED BY <1>5, <2>6, <2>7
<1> QED BY <1>6, <1>7

----------------------------------------------------------------------------
(* All the running decoders.                                               *)

\* The frames of st read the message top from the wire w, each inside the one
\* before it, as path tells, and the reader is at x.
Decoding(peer, top, w, x, st, path) ==
    /\ IsSeq(st) /\ Len(st) >= 1
    /\ path[1].part = top
    /\ \A i \in 1..Len(st) : At(peer, w, i, path[i], st[i])
    /\ \A i \in 1..(Len(st) - 1) : Linked(peer, i, path[i], path[i + 1], st[i + 1].into)
    /\ x = Cursor(peer, Len(st), path[Len(st)])

\* The call of decode.
LEMMA DecodingStarts ==
    ASSUME NEW peer \in Peers, NEW top \in Messages[MaxHeight],
           NEW w, w = Encode(peer)[MaxHeight][top]
    PROVE  Decoding(peer, top, w, 1, <<Frame(top[1], Len(w), "")>>,
                    [i \in 1..1 |-> [part |-> top, start |-> 0, done |-> 0]])
<1> DEFINE r == [part |-> top, start |-> 0, done |-> 0]
           path == [i \in 1..1 |-> r]
           frame == Frame(top[1], Len(w), "")
           st == <<frame>>
<1>1. MaxHeight \in Nat /\ MaxHeight \in 0..MaxHeight
  BY WireAssumption
<1>2. MaxHeight \in 1..MaxHeight
  BY <1>1, MessageFacts
<1>3. Level(1) = MaxHeight /\ 1 \in 1..MaxHeight
  BY <1>1, <1>2 DEF Level
<1>4. r.part = top /\ r.start = 0 /\ r.done = 0
  OBVIOUS
<1> HIDE DEF r
<1>5. BytesOf(peer, 1, r) = w /\ PiecesOf(peer, 1, r) = Pieces(peer, MaxHeight, top)
  BY <1>3, <1>4 DEF BytesOf, PiecesOf
<1>6. /\ Len(Pieces(peer, MaxHeight, top)) \in Nat /\ IsSeq(w) /\ Len(w) \in Nat
      /\ Offset(Pieces(peer, MaxHeight, top), 0) = 0
  BY <1>2, Layout, IsSeqFacts DEF Offset
<1>7. Partial(peer, MaxHeight, top, 0) = CreateBase(top[1])
  BY <1>2, PartialStart
<1>8. frame = [fields |-> top[1], end |-> Len(w), msg |-> CreateBase(top[1]), into |-> ""] /\ frame.into = ""
  BY DEF Frame
<1>9. 0 + Len(w) = Len(w) /\ \A k \in 1..Len(w) : 0 + k = k
  BY <1>6
<1> HIDE DEF frame
<1>10. At(peer, w, 1, r, frame)
  <2>1. r.part \in Messages[Level(1)] /\ r.start \in Nat /\ r.done \in 0..Len(PiecesOf(peer, 1, r))
    BY <1>3, <1>4, <1>5, <1>6
  <2>2. frame = [fields |-> r.part[1], end |-> r.start + Len(BytesOf(peer, 1, r)),
                 msg |-> Partial(peer, Level(1), r.part, r.done), into |-> frame.into]
    BY <1>3, <1>4, <1>5, <1>7, <1>8, <1>9
  <2>3. \A k \in 1..Len(BytesOf(peer, 1, r)) : w[r.start + k] = BytesOf(peer, 1, r)[k]
    BY <1>4, <1>5, <1>9
  <2> QED BY <1>3, <2>1, <2>2, <2>3 DEF At
<1>11. Cursor(peer, 1, r) = 1
  BY <1>4, <1>5, <1>6 DEF Cursor
<1>12. IsSeq(st) /\ Len(st) = 1 /\ st[1] = frame /\ path[1] = r /\ 1..1 = {1} /\ 1..(1 - 1) = {}
  BY TokenIsSeq
<1> HIDE DEF st, path
<1>13. Decoding(peer, top, w, 1, st, path)
  BY <1>4, <1>10, <1>11, <1>12 DEF Decoding
<1> QED BY <1>13 DEF st, path, frame, r

LEMMA LinkedSame ==
    ASSUME NEW peer, NEW i, NEW r, NEW a, NEW b, NEW f, Linked(peer, i, r, a, f),
           b.part = a.part, b.start = a.start
    PROVE  Linked(peer, i, r, b, f)
BY DEF Linked

\* The innermost decoder goes on.
LEMMA DecodingGoesOn ==
    ASSUME NEW peer \in Peers, NEW top, NEW w, NEW x, NEW st, NEW path, Decoding(peer, top, w, x, st, path),
           NEW n, n = Len(st), NEW r, NEW new, At(peer, w, n, r, new),
           r.part = path[n].part, r.start = path[n].start, new.into = st[n].into,
           NEW st2, st2 = [st EXCEPT ![n] = new]
    PROVE  \E z : Decoding(peer, top, w, Cursor(peer, n, r), st2, z)
<1> DEFINE path2 == [i \in 1..n |-> IF i = n THEN r ELSE path[i]]
<1>1. /\ IsSeq(st) /\ n >= 1 /\ path[1].part = top
      /\ \A i \in 1..n : At(peer, w, i, path[i], st[i])
      /\ \A i \in 1..(n - 1) : Linked(peer, i, path[i], path[i + 1], st[i + 1].into)
  BY DEF Decoding
<1>2. n \in Nat /\ DOMAIN st = 1..n /\ st = [i \in 1..n |-> st[i]] /\ n \in 1..n /\ 1 \in 1..n
  BY <1>1, IsSeqFacts
<1>3. st2 = [i \in 1..n |-> st2[i]] /\ st2[n] = new /\ \A i \in 1..n : i # n => st2[i] = st[i]
  BY <1>2
<1>4. IsSeq(st2) /\ Len(st2) = n
  BY <1>2, <1>3, FunctionIsSeq
<1>5. path2[n] = r /\ \A i \in 1..n : i # n => path2[i] = path[i]
  BY <1>2
<1> HIDE DEF path2
<1>6. path2[1].part = top
  BY <1>1, <1>2, <1>5
<1>7. \A i \in 1..n : At(peer, w, i, path2[i], st2[i])
  BY <1>1, <1>3, <1>5
<1>8. ASSUME NEW i \in 1..(n - 1) PROVE Linked(peer, i, path2[i], path2[i + 1], st2[i + 1].into)
  <2>1. i \in 1..n /\ i # n /\ i + 1 \in 1..n
    BY <1>2
  <2>2. Linked(peer, i, path[i], path[i + 1], st[i + 1].into) /\ path2[i] = path[i]
    BY <1>1, <1>5, <2>1
  <2>3. path2[i + 1].part = path[i + 1].part /\ path2[i + 1].start = path[i + 1].start
        /\ st2[i + 1].into = st[i + 1].into
    <3>1. CASE i + 1 = n
      BY <1>3, <1>5, <3>1
    <3>2. CASE i + 1 # n
      BY <1>3, <1>5, <2>1, <3>2
    <3> QED BY <3>1, <3>2
  <2> QED BY <2>2, <2>3, LinkedSame
<1>9. Decoding(peer, top, w, Cursor(peer, n, r), st2, path2)
  BY <1>1, <1>4, <1>5, <1>6, <1>7, <1>8 DEF Decoding
<1> QED BY <1>9

\* A decoder is called for a nested message.
LEMMA DecodingNests ==
    ASSUME NEW peer \in Peers, NEW top, NEW w, NEW x, NEW st, NEW path, Decoding(peer, top, w, x, st, path),
           NEW n, n = Len(st), NEW r, NEW new, At(peer, w, n + 1, r, new),
           Linked(peer, n, path[n], r, new.into), NEW st2, st2 = Append(st, new)
    PROVE  \E z : Decoding(peer, top, w, Cursor(peer, n + 1, r), st2, z)
<1> DEFINE path2 == [i \in 1..(n + 1) |-> IF i = n + 1 THEN r ELSE path[i]]
           T == Range(st) \cup {new}
<1>1. /\ IsSeq(st) /\ n >= 1 /\ path[1].part = top
      /\ \A i \in 1..n : At(peer, w, i, path[i], st[i])
      /\ \A i \in 1..(n - 1) : Linked(peer, i, path[i], path[i + 1], st[i + 1].into)
  BY DEF Decoding
<1>2. n \in Nat
  BY <1>1, IsSeqFacts
<1>3. st \in Seq(T) /\ new \in T
  BY <1>1 DEF IsSeq
<1> HIDE DEF T
<1>4. st2 \in Seq(T) /\ Len(st2) = n + 1 /\ st2[n + 1] = new /\ \A i \in 1..n : st2[i] = st[i]
  BY <1>3, AppendProperties
<1>5. IsSeq(st2)
  BY <1>4, SeqIsSeq
<1>6. path2[n + 1] = r /\ \A i \in 1..n : path2[i] = path[i]
  BY <1>2
<1> HIDE DEF path2
<1>7. path2[1].part = top
  BY <1>1, <1>2, <1>6
<1>8. ASSUME NEW i \in 1..(n + 1) PROVE At(peer, w, i, path2[i], st2[i])
  <2>1. i = n + 1 \/ i \in 1..n
    BY <1>2
  <2> QED BY <1>1, <1>4, <1>6, <2>1
<1>9. ASSUME NEW i \in 1..n PROVE Linked(peer, i, path2[i], path2[i + 1], st2[i + 1].into)
  <2>1. CASE i = n
    BY <1>4, <1>6, <2>1
  <2>2. CASE i # n
    <3>1. i \in 1..(n - 1) /\ i + 1 \in 1..n
      BY <1>2, <2>2
    <3> QED BY <1>1, <1>4, <1>6, <3>1
  <2> QED BY <2>1, <2>2
<1>10. (n + 1) - 1 = n /\ n + 1 >= 1
  BY <1>2
<1>11. Decoding(peer, top, w, Cursor(peer, n + 1, r), st2, path2)
  BY <1>4, <1>5, <1>6, <1>7, <1>8, <1>9, <1>10 DEF Decoding
<1> QED BY <1>11

\* A nested decoder is gone.
LEMMA DecodingReturns ==
    ASSUME NEW peer \in Peers, NEW top, NEW w, NEW x, NEW st, NEW path, Decoding(peer, top, w, x, st, path),
           NEW n, n = Len(st), n > 1
    PROVE  /\ Decoding(peer, top, w, Cursor(peer, n - 1, path[n - 1]), Front(st), path)
           /\ Len(Front(st)) = n - 1 /\ \A i \in 1..(n - 1) : Front(st)[i] = st[i]
<1>1. /\ IsSeq(st) /\ path[1].part = top
      /\ \A i \in 1..n : At(peer, w, i, path[i], st[i])
      /\ \A i \in 1..(n - 1) : Linked(peer, i, path[i], path[i + 1], st[i + 1].into)
  BY DEF Decoding
<1>2. n \in Nat /\ n - 1 \in Nat
  BY <1>1, IsSeqFacts
<1>3. Front(st) \in Seq(Range(st)) /\ Len(Front(st)) = n - 1 /\ \A i \in 1..(n - 1) : Front(st)[i] = st[i]
  <2>1. Front(st) = SubSeq(st, 1, n - 1)
    BY DEF Front
  <2>2. st \in Seq(Range(st)) /\ 1 \in 1..(n + 1) /\ n - 1 \in (1 - 1)..n
    BY <1>1, <1>2 DEF IsSeq
  <2>3. /\ SubSeq(st, 1, n - 1) \in Seq(Range(st))
        /\ Len(SubSeq(st, 1, n - 1)) = n - 1
        /\ \A i \in 1..(n - 1) : SubSeq(st, 1, n - 1)[i] = st[i]
    BY <1>2, <2>2
  <2> QED BY <2>1, <2>3
<1>4. IsSeq(Front(st))
  BY <1>3, SeqIsSeq
<1>5. \A i \in 1..(n - 1) : i \in 1..n
  BY <1>2
<1>6. ASSUME NEW i \in 1..((n - 1) - 1) PROVE Linked(peer, i, path[i], path[i + 1], Front(st)[i + 1].into)
  <2>1. i \in 1..(n - 1) /\ i + 1 \in 1..(n - 1)
    BY <1>2
  <2> QED BY <1>1, <1>3, <2>1
<1>7. n - 1 >= 1
  BY <1>2
<1> QED BY <1>1, <1>3, <1>4, <1>5, <1>6, <1>7 DEF Decoding

\* The messages lie within one another, and the reader within all of them.
LEMMA DecodingNested ==
    ASSUME NEW peer \in Peers, NEW top, NEW w, NEW x, NEW st, NEW path, Decoding(peer, top, w, x, st, path)
    PROVE  \A i \in 1..Len(st) : /\ x <= st[i].end + 1
                                 /\ i > 1 => st[i].end <= st[i - 1].end
                                 /\ DOMAIN st[i].msg = DOMAIN st[i].fields
<1> DEFINE n == Len(st)
           end(i) == st[i].end
           S == {k \in 0..(n - 1) : end(n) <= end(n - k)}
<1>1. /\ IsSeq(st) /\ n >= 1
      /\ \A i \in 1..n : At(peer, w, i, path[i], st[i])
      /\ \A i \in 1..(n - 1) : Linked(peer, i, path[i], path[i + 1], st[i + 1].into)
      /\ x = Cursor(peer, n, path[n])
  BY DEF Decoding
<1>2. n \in Nat /\ n - 1 \in Nat /\ n \in 1..n
  BY <1>1, IsSeqFacts
<1>3. ASSUME NEW i \in 1..n PROVE end(i) \in Nat /\ DOMAIN st[i].msg = DOMAIN st[i].fields
  <2>1. At(peer, w, i, path[i], st[i])
    BY <1>1
  <2>2. /\ st[i].fields = path[i].part[1] /\ end(i) = path[i].start + Len(BytesOf(peer, i, path[i]))
        /\ st[i].msg = Partial(peer, Level(i), path[i].part, path[i].done) /\ path[i].start \in Nat
    BY <2>1, AtFacts
  <2>3. Len(BytesOf(peer, i, path[i])) \in Nat
    BY <2>1, PieceAt
  <2>4. DOMAIN Partial(peer, Level(i), path[i].part, path[i].done) = DOMAIN path[i].part[1]
    BY DEF Partial
  <2> QED BY <2>2, <2>3, <2>4
<1>4. ASSUME NEW i \in 1..(n - 1) PROVE end(i + 1) <= end(i)
  <2>1. i \in 1..n /\ i + 1 \in 1..n
    BY <1>2
  <2>2. /\ At(peer, w, i, path[i], st[i]) /\ At(peer, w, i + 1, path[i + 1], st[i + 1])
        /\ Linked(peer, i, path[i], path[i + 1], st[i + 1].into)
    BY <1>1, <2>1
  <2> QED BY <2>2, LinkedEnds
<1>5. x <= end(n) + 1 /\ x \in Nat
  <2>1. At(peer, w, n, path[n], st[n])
    BY <1>1, <1>2
  <2> QED BY <1>1, <2>1, PieceAt
<1> HIDE DEF n, end
<1>6. 0 \in S
  BY <1>2, <1>3
<1>7. ASSUME NEW k \in 0..(n - 1), k \in S, k < n - 1 PROVE k + 1 \in S
  <2> DEFINE i == n - (k + 1)
  <2>1. i \in 1..(n - 1) /\ i \in 1..n /\ i + 1 \in 1..n /\ i + 1 = n - k /\ k + 1 \in 0..(n - 1)
    BY <1>2, <1>7
  <2>2. end(i + 1) <= end(i) /\ end(n) <= end(i + 1)
    BY <1>4, <1>7, <2>1
  <2>3. end(n) \in Nat /\ end(i) \in Nat /\ end(i + 1) \in Nat
    BY <1>2, <1>3, <2>1
  <2> QED BY <2>1, <2>2, <2>3
<1>8. 0..(n - 1) \subseteq S
  <2>1. \A k \in 0..(n - 1) : k \in S /\ k < n - 1 => k + 1 \in S
    BY <1>7
  <2> HIDE DEF S
  <2> QED BY <1>2, <1>6, <2>1, NatSteps
<1>9. ASSUME NEW i \in 1..n PROVE x <= end(i) + 1 /\ (i > 1 => end(i) <= end(i - 1))
  <2>1. n - i \in 0..(n - 1) /\ n - (n - i) = i
    BY <1>2
  <2>2. end(n) <= end(i)
    BY <1>8, <2>1
  <2>3. end(n) \in Nat /\ end(i) \in Nat
    BY <1>2, <1>3
  <2>4. x <= end(i) + 1
    BY <1>5, <2>2, <2>3
  <2>5. ASSUME i > 1 PROVE end(i) <= end(i - 1)
    <3>1. i - 1 \in 1..(n - 1) /\ (i - 1) + 1 = i
      BY <1>2, <2>5
    <3> QED BY <1>4, <3>1
  <2> QED BY <2>4, <2>5
<1> QED BY <1>3, <1>9 DEF n, end

\* Where the innermost decoder is while its loop goes on.
LEMMA LoopGoesOn ==
    ASSUME NEW peer \in Peers, NEW top, NEW w, NEW x, NEW st, NEW path, Decoding(peer, top, w, x, st, path),
           NEW n, n = Len(st), x <= st[n].end, w[x].tag # 0
    PROVE  /\ At(peer, w, n, path[n], st[n]) /\ x = Cursor(peer, n, path[n])
           /\ path[n].done < Len(PiecesOf(peer, n, path[n]))
           /\ st[n].fields = path[n].part[1]
           /\ \A f \in DOMAIN st[n].fields : w[x].tag \in Tags(st[n].fields[f]) =>
                 \E j \in 1..Count(path[n].part[1][f], path[n].part[2][f], peer) :
                    path[n].done + 1 = Before(peer, Level(n), path[n].part, f) + j
           /\ (\A f \in DOMAIN st[n].fields : w[x].tag \notin Tags(st[n].fields[f])) =>
                 /\ path[n].done >= FieldsEnd(peer, Level(n), path[n].part) /\ w[x].body \in Nat
                 /\ Offset(PiecesOf(peer, n, path[n]), path[n].done + 1)
                      = Offset(PiecesOf(peer, n, path[n]), path[n].done) + 1 + w[x].body
<1> DEFINE r == path[n]
           frame == st[n]
           t == w[x]
           PP == PiecesOf(peer, n, r)
           E == FieldsEnd(peer, Level(n), r.part)
<1>1. At(peer, w, n, r, frame) /\ x = Cursor(peer, n, r)
  <2>1. /\ IsSeq(st) /\ n >= 1 /\ \A i \in 1..n : At(peer, w, i, path[i], st[i])
        /\ x = Cursor(peer, n, path[n])
    BY DEF Decoding
  <2>2. n \in 1..n
    BY <2>1, IsSeqFacts
  <2> QED BY <2>1, <2>2
<1> HIDE DEF r, frame, PP, t
<1>2. /\ r.done \in 0..Len(PP) /\ frame.fields = r.part[1] /\ r.start \in Nat /\ r.done \in Nat
      /\ frame.end = r.start + Len(BytesOf(peer, n, r)) /\ Level(n) \in 1..MaxHeight /\ r.part \in Messages[Level(n)]
  BY <1>1, AtFacts DEF PP
<1>3. Len(PP) \in Nat /\ Len(BytesOf(peer, n, r)) \in Nat /\ Offset(PP, Len(PP)) = Len(BytesOf(peer, n, r))
  BY <1>1, PieceAt DEF PP
<1>4. r.done < Len(PP)
  <2> SUFFICES ASSUME r.done = Len(PP) PROVE FALSE
    BY <1>2, <1>3
  <2>1. x = r.start + Len(BytesOf(peer, n, r)) + 1
    BY <1>1, <1>3 DEF Cursor, PP
  <2>2. x <= frame.end
    BY DEF frame
  <2> QED BY <1>2, <1>3, <2>1, <2>2
<1>5. t = w[Cursor(peer, n, r)] /\ t.tag # 0
  BY <1>1 DEF t
<1>6. /\ t.body \in Nat /\ Offset(PP, r.done + 1) = Offset(PP, r.done) + 1 + t.body
      /\ \/ \E f \in DOMAIN r.part[1] :
               /\ \E j \in 1..Count(r.part[1][f], r.part[2][f], peer) :
                     r.done + 1 = Before(peer, Level(n), r.part, f) + j
               /\ t.tag \in Tags(r.part[1][f])
               /\ \A g \in DOMAIN r.part[1] : t.tag \in Tags(r.part[1][g]) => g = f
         \/ \E j \in 1..Len(Extra(peer)) :
               /\ r.done + 1 = FieldsEnd(peer, Level(n), r.part) + j
               /\ \A g \in DOMAIN r.part[1] : t.tag \notin Tags(r.part[1][g])
  BY <1>1, <1>4, <1>5, NextToken DEF PP
<1>7. ASSUME NEW f \in DOMAIN frame.fields, t.tag \in Tags(frame.fields[f])
      PROVE  \E j \in 1..Count(r.part[1][f], r.part[2][f], peer) : r.done + 1 = Before(peer, Level(n), r.part, f) + j
  BY <1>2, <1>6, <1>7
<1>8. ASSUME \A f \in DOMAIN frame.fields : t.tag \notin Tags(frame.fields[f])
      PROVE  r.done >= E
  <2>1. PICK j \in 1..Len(Extra(peer)) : r.done + 1 = E + j
    BY <1>2, <1>6, <1>8
  <2>2. E \in Nat /\ Len(Extra(peer)) \in Nat
    BY <1>2, FieldSpans
  <2> HIDE DEF E
  <2> QED BY <1>2, <2>1, <2>2
<1> QED BY <1>1, <1>2, <1>4, <1>6, <1>7, <1>8 DEF r, frame, PP, t

----------------------------------------------------------------------------
(* The inductive invariant.                                                *)

Top == <<FieldsOf(call), sent>>

WireInv ==
    /\ phase \in {"given", "reading", "read", "json"}
    /\ Top \in Messages[MaxHeight]
    /\ phase = "given" => stack = <<>> /\ pos = 1 /\ result = <<>>
    /\ phase = "reading" =>
          result = <<>> /\ \E peer \in Peers : \E path : Decoding(peer, Top, wire, pos, stack, path)
    /\ phase = "read" => stack = <<>> /\ result = <<After("wire")[MaxHeight][Top]>>
    /\ phase = "json" => stack = <<>> /\ result = <<After("json")[MaxHeight][Top]>>

LEMMA InitInv == Init => WireInv
<1> SUFFICES ASSUME Init PROVE WireInv
  OBVIOUS
<1>1. PICK p \in Messages[MaxHeight] : p[1] = FieldsOf(call) /\ sent = p[2]
  BY DEF Init
<1>2. MaxHeight \in 0..MaxHeight
  BY WireAssumption
<1>3. p = <<p[1], p[2]>>
  BY <1>2, MessageFacts DEF IsMessage
<1>4. Top \in Messages[MaxHeight]
  BY <1>1, <1>3 DEF Top
<1> QED BY <1>4 DEF Init, WireInv

LEMMA TopSame == UNCHANGED <<call, sent>> => Top' = Top
BY DEF Top, FieldsOf

LEMMA SendInv == WireInv /\ Send => WireInv'
<1> SUFFICES ASSUME WireInv, Send PROVE WireInv'
  OBVIOUS
<1>1. Top' = Top /\ Top \in Messages[MaxHeight] /\ pos' = 1 /\ result' = <<>> /\ phase' = "reading"
  BY TopSame DEF WireInv, Send
<1>2. PICK peer \in Peers : wire' = Encode(peer)[MaxHeight][Top]
  BY DEF Send, Top
<1>3. stack' = <<Frame(Top[1], Len(wire'), "")>>
  BY DEF Send, Top
<1>4. Decoding(peer, Top, wire', 1, stack', [i \in 1..1 |-> [part |-> Top, start |-> 0, done |-> 0]])
  BY <1>1, <1>2, <1>3, DecodingStarts
<1>5. \E path : Decoding(peer, Top', wire', pos', stack', path)
  BY <1>1, <1>4
<1> QED BY <1>1, <1>5 DEF WireInv

LEMMA ThroughJSONInv == WireInv /\ ThroughJSON => WireInv'
<1> SUFFICES ASSUME WireInv, ThroughJSON PROVE WireInv'
  OBVIOUS
<1>1. /\ Top' = Top /\ Top \in Messages[MaxHeight] /\ stack' = <<>> /\ phase' = "json"
      /\ result' = <<FromJSON[MaxHeight][<<Top[1], ToJSON[MaxHeight][Top]>>]>>
  BY TopSame DEF WireInv, ThroughJSON, Top
<1>2. MaxHeight \in 0..MaxHeight
  BY WireAssumption
<1>3. FromJSON[MaxHeight][<<Top[1], ToJSON[MaxHeight][Top]>>] = After("json")[MaxHeight][Top]
  BY <1>1, <1>2, JsonBack
<1> QED BY <1>1, <1>3 DEF WireInv

\* What a step of a decoder starts from.
LEMMA ReadingFacts ==
    ASSUME WireInv, phase = "reading", NEW peer \in Peers, NEW path, Decoding(peer, Top, wire, pos, stack, path)
    PROVE  /\ Len(stack) \in Nat /\ Len(stack) >= 1 /\ DOMAIN stack = 1..Len(stack) /\ Inner = stack[Len(stack)]
           /\ ~AtEnd => pos <= stack[Len(stack)].end /\ wire[pos].tag # 0
           /\ AtEnd => (pos <= stack[Len(stack)].end => wire[pos].tag % 8 = 4 \/ wire[pos].tag = 0)
           /\ AfterEnd = IF pos > stack[Len(stack)].end THEN pos ELSE pos + 1
           /\ Top \in Messages[MaxHeight]
<1>1. IsSeq(stack) /\ Len(stack) >= 1
  BY DEF Decoding
<1>2. Len(stack) \in Nat /\ DOMAIN stack = 1..Len(stack)
  BY <1>1, IsSeqFacts
<1>3. Inner = stack[Len(stack)]
  BY DEF Inner, Last
<1> QED BY <1>1, <1>2, <1>3 DEF AtEnd, AfterEnd, Upcoming, WireInv

LEMMA StillReading ==
    ASSUME WireInv, phase = "reading", UNCHANGED <<call, sent, phase, wire, result>>,
           NEW peer \in Peers, \E path : Decoding(peer, Top, wire, pos', stack', path)
    PROVE  WireInv'
<1>1. Top' = Top
  BY TopSame
<1>2. \E q \in Peers : \E z : Decoding(q, Top', wire', pos', stack', z)
  BY <1>1
<1> QED BY <1>1, <1>2 DEF WireInv

LEMMA ReadValueInv == WireInv /\ ReadValue => WireInv'
<1> SUFFICES ASSUME WireInv, ReadValue PROVE WireInv'
  OBVIOUS
<1>0. phase = "reading" /\ ~AtEnd /\ pos' = pos + 1 /\ UNCHANGED <<call, sent, phase, wire, result>>
  BY DEF ReadValue
<1>1. PICK peer \in Peers : \E path : Decoding(peer, Top, wire, pos, stack, path)
  BY <1>0 DEF WireInv
<1>2. PICK path : Decoding(peer, Top, wire, pos, stack, path)
  BY <1>1
<1> DEFINE n == Len(stack)
           frame == stack[n]
           r == path[n]
           t == wire[pos]
<1>3. /\ n \in Nat /\ n >= 1 /\ DOMAIN stack = 1..n /\ Inner = frame
      /\ pos <= frame.end /\ t.tag # 0
  BY <1>0, <1>2, ReadingFacts
<1>4. PICK f \in DOMAIN frame.fields :
        /\ t.tag \in Tags(frame.fields[f]) /\ frame.fields[f].type # "message"
        /\ stack' = [stack EXCEPT ![n].msg[f] = ReadInto(frame.fields[f], frame.msg[f], t)]
  BY <1>3 DEF ReadValue, Known, Upcoming, ReadInto
<1>5. /\ At(peer, wire, n, r, frame) /\ pos = Cursor(peer, n, r) /\ r.done < Len(PiecesOf(peer, n, r))
      /\ frame.fields = r.part[1]
      /\ \E j \in 1..Count(r.part[1][f], r.part[2][f], peer) : r.done + 1 = Before(peer, Level(n), r.part, f) + j
  BY <1>2, <1>3, <1>4, LoopGoesOn
<1>6. PICK j \in 1..Count(r.part[1][f], r.part[2][f], peer) : r.done + 1 = Before(peer, Level(n), r.part, f) + j
  BY <1>5
<1> DEFINE new == [frame EXCEPT !.msg = [frame.msg EXCEPT ![f] = ReadInto(frame.fields[f], frame.msg[f], t)]]
           value == ReadInto(frame.fields[f], frame.msg[f], t)
<1>7. stack' = [stack EXCEPT ![n] = new]
  <2>1. stack' = [stack EXCEPT ![n].msg[f] = value]
    BY <1>4
  <2>2. n \in DOMAIN stack
    BY <1>3
  <2> HIDE DEF value, n
  <2>3. stack' = [stack EXCEPT ![n] = [stack[n] EXCEPT !.msg = [stack[n].msg EXCEPT ![f] = value]]]
    BY <2>1, <2>2
  <2> QED BY <2>3 DEF value
<1>8. /\ At(peer, wire, n, Further(r), new) /\ Cursor(peer, n, Further(r)) = pos + 1 /\ new.into = frame.into
  <2> HIDE DEF n, frame, r
  <2>1. t = wire[Cursor(peer, n, r)] /\ f \in DOMAIN r.part[1] /\ r.part[1][f].type # "message"
    BY <1>4, <1>5
  <2> HIDE DEF new, t
  <2> QED BY <1>5, <1>6, <2>1, ReadStep DEF new
<1>9. Further(r).part = r.part /\ Further(r).start = r.start
  BY FurtherFacts
<1>10. \E z : Decoding(peer, Top, wire, Cursor(peer, n, Further(r)), stack', z)
  <2> DEFINE next == Further(r)
  <2>1. /\ n = Len(stack) /\ At(peer, wire, n, next, new) /\ next.part = path[n].part /\ next.start = path[n].start
        /\ new.into = stack[n].into
    BY <1>8, <1>9
  <2> HIDE DEF new, next, n, frame, r
  <2>2. \E z : Decoding(peer, Top, wire, Cursor(peer, n, next), stack', z)
    BY <1>2, <1>7, <2>1, DecodingGoesOn
  <2> QED BY <2>2 DEF next
<1> QED BY <1>0, <1>8, <1>10, StillReading

LEMMA EnterMessageInv == WireInv /\ EnterMessage => WireInv'
<1> SUFFICES ASSUME WireInv, EnterMessage PROVE WireInv'
  OBVIOUS
<1>0. phase = "reading" /\ ~AtEnd /\ pos' = pos + 1 /\ UNCHANGED <<call, sent, phase, wire, result>>
  BY DEF EnterMessage
<1>1. PICK peer \in Peers : \E path : Decoding(peer, Top, wire, pos, stack, path)
  BY <1>0 DEF WireInv
<1>2. PICK path : Decoding(peer, Top, wire, pos, stack, path)
  BY <1>1
<1> DEFINE n == Len(stack)
           frame == stack[n]
           r == path[n]
           t == wire[pos]
<1>3. /\ n \in Nat /\ n >= 1 /\ DOMAIN stack = 1..n /\ Inner = frame
      /\ pos <= frame.end /\ t.tag # 0
  BY <1>0, <1>2, ReadingFacts
<1>4. PICK f \in DOMAIN frame.fields :
        /\ t.tag \in Tags(frame.fields[f]) /\ frame.fields[f].type = "message"
        /\ stack' = Append(stack, Frame(frame.fields[f].of, pos + t.body, f))
  BY <1>3 DEF EnterMessage, Known, Upcoming
<1>5. /\ At(peer, wire, n, r, frame) /\ pos = Cursor(peer, n, r) /\ r.done < Len(PiecesOf(peer, n, r))
      /\ frame.fields = r.part[1]
      /\ \E j \in 1..Count(r.part[1][f], r.part[2][f], peer) : r.done + 1 = Before(peer, Level(n), r.part, f) + j
  BY <1>2, <1>3, <1>4, LoopGoesOn
<1>6. PICK j \in 1..Count(r.part[1][f], r.part[2][f], peer) : r.done + 1 = Before(peer, Level(n), r.part, f) + j
  BY <1>5
<1> DEFINE new == Frame(frame.fields[f].of, pos + t.body, f)
           inner == [part  |-> <<r.part[1][f].of, Element(r.part[1][f], r.part[2][f], j)>>,
                     start |-> pos, done |-> 0]
<1>7. /\ At(peer, wire, n + 1, inner, new) /\ new.into = f /\ Linked(peer, n, r, inner, f)
      /\ Cursor(peer, n + 1, inner) = pos + 1
  <2> HIDE DEF n, frame, r
  <2>1. t = wire[Cursor(peer, n, r)] /\ f \in DOMAIN r.part[1] /\ r.part[1][f].type = "message"
    BY <1>4, <1>5
  <2>2. /\ inner = [part  |-> <<r.part[1][f].of, Element(r.part[1][f], r.part[2][f], j)>>,
                    start |-> Cursor(peer, n, r), done |-> 0]
        /\ new = Frame(frame.fields[f].of, Cursor(peer, n, r) + t.body, f)
    BY <1>5
  <2> HIDE DEF new, inner, t
  <2>3. /\ At(peer, wire, n + 1, inner, new) /\ new.into = f /\ Linked(peer, n, r, inner, f)
        /\ Cursor(peer, n + 1, inner) = Cursor(peer, n, r) + 1
    BY <1>5, <1>6, <2>1, <2>2, EnterStep
  <2> QED BY <1>5, <2>3
<1>8. stack' = Append(stack, new)
  BY <1>4
<1>9. \E z : Decoding(peer, Top, wire, Cursor(peer, n + 1, inner), stack', z)
  <2>1. /\ n = Len(stack) /\ At(peer, wire, n + 1, inner, new) /\ Linked(peer, n, path[n], inner, new.into)
    BY <1>7
  <2> HIDE DEF new, inner, n, r
  <2> QED BY <1>2, <1>8, <2>1, DecodingNests
<1> QED BY <1>0, <1>7, <1>9, StillReading

LEMMA SkipFieldInv == WireInv /\ SkipField => WireInv'
<1> SUFFICES ASSUME WireInv, SkipField PROVE WireInv'
  OBVIOUS
<1>0. /\ phase = "reading" /\ ~AtEnd /\ pos' = pos + 1 + wire[pos].body /\ stack' = stack
      /\ UNCHANGED <<call, sent, phase, wire, result>>
  BY DEF SkipField, Upcoming
<1>1. PICK peer \in Peers : \E path : Decoding(peer, Top, wire, pos, stack, path)
  BY <1>0 DEF WireInv
<1>2. PICK path : Decoding(peer, Top, wire, pos, stack, path)
  BY <1>1
<1> DEFINE n == Len(stack)
           frame == stack[n]
           r == path[n]
           t == wire[pos]
<1>3. /\ n \in Nat /\ n >= 1 /\ DOMAIN stack = 1..n /\ Inner = frame
      /\ pos <= frame.end /\ t.tag # 0
  BY <1>0, <1>2, ReadingFacts
<1>4. \A f \in DOMAIN frame.fields : t.tag \notin Tags(frame.fields[f])
  BY <1>3 DEF SkipField, Known, Upcoming
<1>5. /\ At(peer, wire, n, r, frame) /\ pos = Cursor(peer, n, r) /\ r.done < Len(PiecesOf(peer, n, r))
      /\ r.done >= FieldsEnd(peer, Level(n), r.part) /\ t.body \in Nat
      /\ Offset(PiecesOf(peer, n, r), r.done + 1) = Offset(PiecesOf(peer, n, r), r.done) + 1 + t.body
  BY <1>2, <1>3, <1>4, LoopGoesOn
<1>6. At(peer, wire, n, Further(r), frame) /\ Cursor(peer, n, Further(r)) = pos + 1 + t.body
  <2> HIDE DEF n, frame, r, t
  <2> QED BY <1>5, SkipStep
<1>7. Further(r).part = r.part /\ Further(r).start = r.start
  BY FurtherFacts
<1>8. stack' = [stack EXCEPT ![n] = frame]
  <2>1. stack = [i \in 1..n |-> stack[i]]
    <3>1. IsSeq(stack)
      BY <1>2 DEF Decoding
    <3> QED BY <3>1, IsSeqFacts
  <2> HIDE DEF n
  <2> QED BY <1>0, <2>1
<1>9. \E z : Decoding(peer, Top, wire, Cursor(peer, n, Further(r)), stack', z)
  <2> DEFINE next == Further(r)
  <2>1. /\ n = Len(stack) /\ At(peer, wire, n, next, frame) /\ next.part = path[n].part /\ next.start = path[n].start
        /\ frame.into = stack[n].into
    BY <1>6, <1>7
  <2> HIDE DEF next, n, frame, r
  <2>2. \E z : Decoding(peer, Top, wire, Cursor(peer, n, next), stack', z)
    BY <1>2, <1>8, <2>1, DecodingGoesOn
  <2> QED BY <2>2 DEF next
<1>10. pos' = Cursor(peer, n, Further(r))
  BY <1>0, <1>6
<1> QED BY <1>0, <1>9, <1>10, StillReading

LEMMA LeaveMessageInv == WireInv /\ LeaveMessage => WireInv'
<1> SUFFICES ASSUME WireInv, LeaveMessage PROVE WireInv'
  OBVIOUS
<1> DEFINE n == Len(stack)
           m == n - 1
           nested == stack[n]
           frame == stack[m]
           f == nested.into
           value == LeaveInto(frame.fields[f], frame.msg[f], nested.msg)
<1>0. /\ phase = "reading" /\ AtEnd /\ n > 1 /\ pos' = AfterEnd
      /\ UNCHANGED <<call, sent, phase, wire, result>>
  BY DEF LeaveMessage
<1>1. PICK peer \in Peers : \E path : Decoding(peer, Top, wire, pos, stack, path)
  BY <1>0 DEF WireInv
<1>2. PICK path : Decoding(peer, Top, wire, pos, stack, path)
  BY <1>1
<1> DEFINE r == path[m]
           inner == path[n]
<1>3. /\ n \in Nat /\ DOMAIN stack = 1..n /\ Inner = nested
      /\ pos <= nested.end => wire[pos].tag % 8 = 4 \/ wire[pos].tag = 0
      /\ AfterEnd = IF pos > nested.end THEN pos ELSE pos + 1
  BY <1>0, <1>2, ReadingFacts
<1>4. stack' = [Front(stack) EXCEPT ![m].msg[f] = value]
  BY <1>3 DEF LeaveMessage, LeaveInto
<1>5. m \in 1..n /\ n \in 1..n /\ m \in 1..m /\ m + 1 = n /\ m \in 1..(n - 1)
  BY <1>0, <1>3
<1>6. /\ At(peer, wire, m, r, frame) /\ At(peer, wire, m + 1, inner, nested)
      /\ Linked(peer, m, r, inner, f) /\ pos = Cursor(peer, m + 1, inner)
  <2>1. /\ \A i \in 1..n : At(peer, wire, i, path[i], stack[i])
        /\ \A i \in 1..(n - 1) : Linked(peer, i, path[i], path[i + 1], stack[i + 1].into)
        /\ pos = Cursor(peer, n, path[n])
    BY <1>2 DEF Decoding
  <2> HIDE DEF n, m
  <2> QED BY <1>5, <2>1
<1>7. nested.msg = After("wire")[Level(m + 1)][inner.part] /\ AfterEnd = nested.end + 1
  <2> HIDE DEF n, m, inner, nested
  <2> QED BY <1>3, <1>6, EndStep
<1> DEFINE new == [frame EXCEPT !.msg = [frame.msg EXCEPT ![f] = value]]
<1>8. /\ At(peer, wire, m, Further(r), new) /\ new.into = frame.into
      /\ Cursor(peer, m, Further(r)) = nested.end + 1
  <2>1. new = [frame EXCEPT !.msg = [frame.msg EXCEPT ![f] = LeaveInto(frame.fields[f], frame.msg[f], nested.msg)]]
    OBVIOUS
  <2> HIDE DEF n, m, inner, nested, frame, r, f, value, new
  <2> QED BY <1>6, <1>7, <2>1, LeaveStep
<1>9. /\ Decoding(peer, Top, wire, Cursor(peer, m, r), Front(stack), path)
      /\ Len(Front(stack)) = m /\ Front(stack)[m] = frame
  <2>1. /\ Decoding(peer, Top, wire, Cursor(peer, n - 1, path[n - 1]), Front(stack), path)
        /\ Len(Front(stack)) = n - 1 /\ \A i \in 1..(n - 1) : Front(stack)[i] = stack[i]
    BY <1>0, <1>2, DecodingReturns
  <2> QED BY <1>5, <2>1
<1>10. stack' = [Front(stack) EXCEPT ![m] = new]
  <2>1. m \in DOMAIN Front(stack)
    <3>1. IsSeq(Front(stack))
      BY <1>9 DEF Decoding
    <3> HIDE DEF m
    <3> QED BY <1>5, <1>9, <3>1, IsSeqFacts
  <2> DEFINE st == Front(stack)
  <2>2. stack' = [st EXCEPT ![m].msg[f] = value] /\ m \in DOMAIN st /\ st[m] = frame
    BY <1>4, <1>9, <2>1
  <2> HIDE DEF st, m, f, value, frame
  <2>3. stack' = [st EXCEPT ![m] = [st[m] EXCEPT !.msg = [st[m].msg EXCEPT ![f] = value]]]
    BY <2>2
  <2> QED BY <2>2, <2>3 DEF st
<1>11. Further(r).part = r.part /\ Further(r).start = r.start
  BY FurtherFacts
<1>12. \E z : Decoding(peer, Top, wire, Cursor(peer, m, Further(r)), stack', z)
  <2> DEFINE next == Further(r)
             st == Front(stack)
             x == Cursor(peer, m, r)
  <2>1. /\ m = Len(st) /\ At(peer, wire, m, next, new) /\ next.part = path[m].part /\ next.start = path[m].start
        /\ new.into = st[m].into
    BY <1>8, <1>9, <1>11
  <2>2. Decoding(peer, Top, wire, x, st, path) /\ stack' = [st EXCEPT ![m] = new]
    BY <1>9, <1>10
  <2> HIDE DEF new, frame, m, next, st, x
  <2>3. \E z : Decoding(peer, Top, wire, Cursor(peer, m, next), stack', z)
    BY <2>1, <2>2, DecodingGoesOn
  <2> QED BY <2>3 DEF next
<1>13. pos' = Cursor(peer, m, Further(r))
  BY <1>0, <1>7, <1>8
<1> QED BY <1>0, <1>12, <1>13, StillReading

LEMMA ReturnInv == WireInv /\ Return => WireInv'
<1> SUFFICES ASSUME WireInv, Return PROVE WireInv'
  OBVIOUS
<1>0. /\ phase = "reading" /\ AtEnd /\ Len(stack) = 1 /\ result' = <<Inner.msg>> /\ stack' = <<>>
      /\ phase' = "read" /\ UNCHANGED <<call, sent>>
  BY DEF Return
<1>1. PICK peer \in Peers : \E path : Decoding(peer, Top, wire, pos, stack, path)
  BY <1>0 DEF WireInv
<1>2. PICK path : Decoding(peer, Top, wire, pos, stack, path)
  BY <1>1
<1>3. /\ Inner = stack[1] /\ Top \in Messages[MaxHeight]
      /\ pos <= stack[1].end => wire[pos].tag % 8 = 4 \/ wire[pos].tag = 0
  BY <1>0, <1>2, ReadingFacts
<1>4. At(peer, wire, 1, path[1], stack[1]) /\ pos = Cursor(peer, 1, path[1]) /\ path[1].part = Top
  BY <1>0, <1>2 DEF Decoding
<1>5. Level(1) = MaxHeight
  BY WireAssumption DEF Level
<1>6. stack[1].msg = After("wire")[MaxHeight][Top]
  BY <1>3, <1>4, <1>5, EndStep
<1> QED BY <1>0, <1>3, <1>6, TopSame DEF WireInv

\* One lemma per action, put together.
LEMMA NextInv == WireInv /\ [Next]_vars => WireInv'
<1> SUFFICES ASSUME WireInv, [Next]_vars PROVE WireInv'
  OBVIOUS
<1>1. CASE UNCHANGED vars
  <2>1. Top' = Top
    BY <1>1, TopSame DEF vars
  <2> QED BY <1>1, <2>1 DEF WireInv, vars
<1> QED BY <1>1, SendInv, ThroughJSONInv, ReadValueInv, EnterMessageInv, SkipFieldInv, LeaveMessageInv,
           ReturnInv DEF Next, Decode

LEMMA InvIsInvariant == Spec => []WireInv
BY InitInv, NextInv, PTL DEF Spec

----------------------------------------------------------------------------
(* The theorems.                                                           *)

\* decode never reads past the message that it was given, whatever is nested in it:
\* the messages of the running decoders lie within one another and the reader
\* within all of them (the `end` of every generated decode).
THEOREM ReadersStayInside == Spec => []WireTypeOK
<1>1. ASSUME WireInv PROVE WireTypeOK
  <2>1. phase \in {"given", "reading", "read", "json"} /\ (phase # "reading" => stack = <<>>)
    BY <1>1 DEF WireInv
  <2>2. Len(result) <= 1
    <3> DEFINE a == After("wire")[MaxHeight][Top]
               b == After("json")[MaxHeight][Top]
    <3>1. result = <<>> \/ result = <<a>> \/ result = <<b>>
      BY <1>1 DEF WireInv
    <3> HIDE DEF a, b
    <3>2. Len(<<>>) <= 1 /\ Len(<<a>>) <= 1 /\ Len(<<b>>) <= 1
      OBVIOUS
    <3>3. CASE result = <<>>
      BY <3>2, <3>3
    <3>4. CASE result = <<a>>
      BY <3>2, <3>4
    <3>5. CASE result = <<b>>
      BY <3>2, <3>5
    <3> QED BY <3>1, <3>3, <3>4, <3>5
  <2>3. CASE phase = "reading"
    <3>1. PICK peer \in Peers : \E path : Decoding(peer, Top, wire, pos, stack, path)
      BY <1>1, <2>3 DEF WireInv
    <3>2. PICK path : Decoding(peer, Top, wire, pos, stack, path)
      BY <3>1
    <3>3. \A i \in 1..Len(stack) : /\ pos <= stack[i].end + 1
                                   /\ i > 1 => stack[i].end <= stack[i - 1].end
                                   /\ DOMAIN stack[i].msg = DOMAIN stack[i].fields
      BY <3>2, DecodingNested
    <3>4. IsSeq(stack) /\ Len(stack) >= 1
      BY <3>2 DEF Decoding
    <3>5. DOMAIN stack = 1..Len(stack) /\ stack # <<>>
      BY <3>4, IsSeqFacts
    <3> QED BY <2>1, <2>2, <2>3, <3>3, <3>5 DEF WireTypeOK
  <2>4. CASE phase # "reading"
    <3>1. stack = <<>> /\ DOMAIN <<>> = {}
      BY <2>1, <2>4
    <3> QED BY <2>1, <2>2, <2>4, <3>1 DEF WireTypeOK
  <2> QED BY <2>3, <2>4
<1> QED BY <1>1, InvIsInvariant, PTL

\* Every message is decoded to what was encoded, whatever the order and the packing
\* of the sender and whatever it adds that the reader does not know.
THEOREM DecodeInvertsEncode == Spec => []RoundTrip
<1>1. WireInv => RoundTrip
  BY DEF WireInv, RoundTrip, Top
<1> QED BY <1>1, InvIsInvariant, PTL

\* fromJSON returns what toJSON was given, but for the numbers that name no value
\* of an enumeration.
THEOREM FromJSONInvertsToJSON == Spec => []JsonRoundTrip
<1>1. WireInv => JsonRoundTrip
  BY DEF WireInv, JsonRoundTrip, Top
<1> QED BY <1>1, InvIsInvariant, PTL
=================================================================================
