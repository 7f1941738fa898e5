--------------------------- MODULE ProtocolProofs ---------------------------
(***************************************************************************)
(* The protocol proved, codec and client, which share this module and      *)
(* nothing else.                                                           *)
(*                                                                         *)
(* Wire and Codec, for any classes and slots, for structures of any size   *)
(* and depth, and for any bytes: the properties of the run codec.          *)
(*                                                                         *)
(* LLRPClient, for any number of tasks, any queue capacities and any       *)
(* bounds: the safety properties that the run client checks on a small     *)
(* instance, and that it implements RequestService.                        *)
(***************************************************************************)
EXTENDS LLRPClient, Wire, SequenceTheorems, FiniteSetTheorems, WellFoundedInduction, TLAPS

(* Induction and recursion over naturals and sequences, of sets. *)

\* A set of naturals has a least element, ...
LEMMA LeastNat ==
    ASSUME NEW S \in SUBSET Nat, S # {}
    PROVE  \E n \in S : \A m \in S : n <= m
<1> DEFINE Up == {0 .. n : n \in S}
<1>1. Up \subseteq FiniteSubsetsOf(Nat)
  <2>1. ASSUME NEW n \in S PROVE IsFiniteSet(0 .. n) /\ 0 .. n \subseteq Nat
    BY FS_Interval
  <2> QED BY <2>1 DEF FiniteSubsetsOf
<1>2. Up # {}
  OBVIOUS
<1>3. PICK X \in Up : \A Y \in Up : <<Y, X>> \notin StrictSubsetOrdering(Nat)
  BY <1>1, <1>2, FS_StrictSubsetOrderingWellFounded, WFMin
<1>4. PICK n \in S : X = 0 .. n
  BY <1>3
<1>5. ASSUME NEW m \in S, m < n PROVE FALSE
  <2>1. 0 .. m \in Up /\ 0 .. m \subseteq 0 .. n /\ n \in 0 .. n /\ n \notin 0 .. m
    BY <1>5
  <2>2. <<0 .. m, 0 .. n>> \in StrictSubsetOrdering(Nat)
    BY <2>1 DEF StrictSubsetOrdering
  <2> QED BY <1>3, <1>4, <2>1, <2>2
<1> QED BY <1>4, <1>5

\* ... which is induction, ...
LEMMA InductNat ==
    ASSUME NEW S, 0 \in S, \A n \in Nat : n \in S => n + 1 \in S
    PROVE  Nat \subseteq S
<1> SUFFICES ASSUME NEW k \in Nat, k \notin S PROVE FALSE
  OBVIOUS
<1> DEFINE T == Nat \ S
<1>1. PICK n \in T : \A m \in T : n <= m
  <2>1. T \in SUBSET Nat /\ T # {} OBVIOUS
  <2> HIDE DEF T
  <2> QED BY <2>1, LeastNat
<1>2. n \in Nat /\ n # 0 OBVIOUS
<1>3. n - 1 \in Nat /\ n - 1 \notin T BY <1>1, <1>2
<1> QED BY <1>1, <1>2, <1>3

\* ... and of sequences, by their length.
LEMMA InductSeq ==
    ASSUME NEW V, NEW S, <<>> \in S,
           \A s \in Seq(V) : s \in S => \A v \in V : Append(s, v) \in S
    PROVE  Seq(V) \subseteq S
<1> DEFINE N == {n \in Nat : \A s \in Seq(V) : Len(s) = n => s \in S}
<1>1. 0 \in N
  BY EmptySeq
<1>2. ASSUME NEW n \in Nat, n \in N PROVE n + 1 \in N
  <2> SUFFICES ASSUME NEW s \in Seq(V), Len(s) = n + 1 PROVE s \in S
    OBVIOUS
  <2>1. s # <<>> BY EmptySeq
  <2>2. PICK t \in Seq(V), v \in V : s = Append(t, v)
    BY <2>1, SequenceEmptyOrAppend
  <2>3. Len(t) = n BY <2>2, AppendProperties, LenProperties
  <2> QED BY <1>2, <2>2, <2>3
<1>3. Nat \subseteq N
  <2> HIDE DEF N
  <2> QED BY <1>1, <1>2, InductNat
<1> QED BY <1>3, LenProperties

\* What is iterated n times has a value after each.
Iterates(n, V, F, v0, g) ==
    g \in [0..n -> V] /\ g[0] = v0 /\ \A i \in 1..n : g[i] = F[i][g[i - 1]]

IsIteration(n, V, F) == \A i \in 1..n, v \in V : F[i][v] \in V

LEMMA Iterated ==
    ASSUME NEW n \in Nat, NEW V, NEW F, IsIteration(n, V, F), NEW v0 \in V
    PROVE  \E g : Iterates(n, V, F, v0, g)
<1> USE DEF Iterates, IsIteration
<1> DEFINE Upto(k, g) == g \in [0..k -> V] /\ g[0] = v0 /\ \A i \in 1..k : g[i] = F[i][g[i - 1]]
           N == {k \in Nat : k <= n => \E g : Upto(k, g)}
<1>1. 0 \in N
  <2> DEFINE g == [i \in 0..0 |-> v0]
  <2>1. Upto(0, g) OBVIOUS
  <2> QED BY <2>1
<1>2. ASSUME NEW k \in Nat, k \in N, k + 1 <= n PROVE \E g : Upto(k + 1, g)
  <2>1. PICK g : Upto(k, g) BY <1>2
  <2> DEFINE h == [i \in 0..(k + 1) |-> IF i = k + 1 THEN F[k + 1][g[k]] ELSE g[i]]
  <2>2. h \in [0..(k + 1) -> V]
    <3>1. g[k] \in V /\ k + 1 \in 1..n BY <1>2, <2>1
    <3>2. F[k + 1][g[k]] \in V BY <3>1
    <3> QED BY <2>1, <3>2
  <2>3. h[0] = v0 BY <2>1
  <2>4. ASSUME NEW i \in 1..(k + 1) PROVE h[i] = F[i][h[i - 1]]
    BY <2>1
  <2>5. Upto(k + 1, h) BY <2>2, <2>3, <2>4
  <2> QED BY <2>5
<1>3. ASSUME NEW k \in Nat, k \in N PROVE k + 1 \in N
  <2> HIDE DEF Upto
  <2> QED BY <1>2, <1>3
<1>4. Nat \subseteq N
  <2> HIDE DEF N
  <2> QED BY <1>1, <1>3, InductNat
<1> QED BY <1>4

LEMMA OneIteration ==
    ASSUME NEW n \in Nat, NEW V, NEW F, IsIteration(n, V, F), NEW v0 \in V, NEW h,
           h[0] = v0, \A i \in 1..n : h[i - 1] \in V => h[i] = F[i][h[i - 1]]
    PROVE  \A i \in 0..n : h[i] \in V
<1> DEFINE N == {k \in Nat : k <= n => h[k] \in V}
<1>1. 0 \in N OBVIOUS
<1>2. ASSUME NEW k \in Nat, k \in N PROVE k + 1 \in N
  <2> SUFFICES ASSUME k + 1 <= n PROVE h[k + 1] \in V
    OBVIOUS
  <2>1. PICK i \in 1..n : i = k + 1 /\ i - 1 = k /\ k <= n OBVIOUS
  <2>2. h[i - 1] \in V BY <1>2, <2>1
  <2>3. F[i][h[i - 1]] \in V BY <2>2 DEF IsIteration
  <2> QED BY <2>1, <2>2, <2>3
<1>3. Nat \subseteq N
  <2> HIDE DEF N
  <2> QED BY <1>1, <1>2, InductNat
<1> QED BY <1>3

(* Sequences put behind each other. *)

\* FlattenSeq, step by step.
LEMMA Flattening ==
    ASSUME NEW V, NEW ss \in Seq(Seq(V))
    PROVE  \E g \in [0..Len(ss) -> Seq(V)] :
              /\ g[0] = <<>> /\ \A i \in 1..Len(ss) : g[i] = g[i - 1] \o ss[i]
              /\ FlattenSeq(ss) = g[Len(ss)]
<1> DEFINE n == Len(ss)
           F == [i \in 1..n |-> [v \in Seq(V) |-> v \o ss[i]]]
           flat(f) == f = [i \in 1..n |-> IF i = 1 THEN ss[i] ELSE f[i - 1] \o ss[i]]
           flatten == CHOOSE f : flat(f)
<1>0. n \in Nat /\ \A i \in 1..n : ss[i] \in Seq(V)
  BY LenProperties, ElementOfSeq
<1>1. PICK g \in [0..n -> Seq(V)] : g[0] = <<>> /\ \A i \in 1..n : g[i] = F[i][g[i - 1]]
  <2>1. IsIteration(n, Seq(V), F)
    BY <1>0, ConcatProperties DEF IsIteration
  <2>2. <<>> \in Seq(V) BY EmptySeq
  <2> HIDE DEF F, n
  <2>3. \E g : Iterates(n, Seq(V), F, <<>>, g) BY <1>0, <2>1, <2>2, Iterated
  <2> QED BY <2>3 DEF Iterates
<1>2. \A i \in 1..n : g[i - 1] \in Seq(V) /\ g[i] = g[i - 1] \o ss[i]
  <2>1. \A i \in 1..n : i - 1 \in 0..n BY <1>0
  <2> QED BY <1>1, <2>1
<1>3. CASE n = 0
  <2>1. ss = <<>> BY <1>3, EmptySeq
  <2> QED BY <1>1, <1>2, <1>3, <2>1 DEF FlattenSeq
<1>4. CASE n # 0
  <2> DEFINE f0 == [i \in 1..n |-> g[i]]
  <2>1. flat(f0)
    <3>1. \A i \in 1..n : f0[i] = IF i = 1 THEN ss[i] ELSE f0[i - 1] \o ss[i]
      <4>1. ASSUME NEW i \in 1..n, i = 1 PROVE g[i] = ss[i]
        <5>1. i - 1 = 0 BY <4>1
        <5>2. g[i] = <<>> \o ss[i] BY <1>1, <1>2, <4>1, <5>1, Zenon
        <5> QED BY <1>0, <5>2, ConcatEmptySeq
      <4>2. ASSUME NEW i \in 1..n, i # 1 PROVE i - 1 \in 1..n
        BY <1>0, <4>2
      <4> QED BY <1>2, <4>1, <4>2
    <3> QED BY <3>1
  <2>2. flat(flatten) BY <2>1, Zenon
  <2>3. FlattenSeq(ss) = flatten[n]
    BY <1>4 DEF FlattenSeq
  <2> DEFINE N == {k \in Nat : k + 1 \in 1..n => flatten[k + 1] = g[k + 1]}
  <2>4. 0 \in N
    <3>1. 1 \in 1..n BY <1>0, <1>4
    <3>2. f0[1] = ss[1] /\ flatten[1] = ss[1] BY <2>1, <2>2, <3>1, Zenon
    <3> QED BY <3>1, <3>2
  <2>5. ASSUME NEW k \in Nat, k \in N PROVE k + 1 \in N
    <3> SUFFICES ASSUME k + 2 \in 1..n PROVE flatten[k + 2] = g[k + 2]
      OBVIOUS
    <3>1. k + 1 \in 1..n /\ (k + 2) - 1 = k + 1 /\ k + 2 # 1 BY <1>0
    <3>2. flatten[k + 2] = flatten[k + 1] \o ss[k + 2]
      <4> HIDE DEF flatten
      <4> QED BY <2>2, <3>1
    <3> QED BY <2>5, <3>1, <3>2, <1>2, Zenon
  <2>6. Nat \subseteq N
    <3> HIDE DEF N
    <3> QED BY <2>4, <2>5, InductNat
  <2>7. n - 1 \in Nat /\ n = (n - 1) + 1 /\ n \in 1..n
    BY <1>0, <1>4
  <2>8. n - 1 \in N BY <2>6, <2>7
  <2>9. flatten[n] = g[n] BY <2>7, <2>8
  <2> QED BY <1>1, <1>2, <2>3, <2>9
<1> QED BY <1>3, <1>4

LEMMA FlattenEmpty == FlattenSeq(<<>>) = <<>>
  BY DEF FlattenSeq

LEMMA FlattenType == ASSUME NEW V, NEW ss \in Seq(Seq(V)) PROVE FlattenSeq(ss) \in Seq(V)
<1>1. PICK g \in [0..Len(ss) -> Seq(V)] : FlattenSeq(ss) = g[Len(ss)]
  BY Flattening
<1>2. Len(ss) \in 0..Len(ss) BY LenProperties
<1> QED BY <1>1, <1>2

LEMMA FlattenAppend ==
    ASSUME NEW V, NEW ss \in Seq(Seq(V)), NEW s \in Seq(V)
    PROVE  FlattenSeq(Append(ss, s)) = FlattenSeq(ss) \o s
<1> DEFINE tt == Append(ss, s)
           n == Len(ss)
<1>1. tt \in Seq(Seq(V)) /\ Len(tt) = n + 1 /\ tt[n + 1] = s /\ n \in Nat /\ n = Len(ss)
      /\ \A i \in 1..n : tt[i] = ss[i]
  BY AppendProperties, LenProperties
<1>2. PICK g \in [0..n -> Seq(V)] :
         /\ g[0] = <<>> /\ \A i \in 1..n : g[i] = g[i - 1] \o ss[i]
         /\ FlattenSeq(ss) = g[n]
  BY Flattening
<1>3. PICK h \in [0..(n + 1) -> Seq(V)] :
         /\ h[0] = <<>> /\ \A i \in 1..(n + 1) : h[i] = h[i - 1] \o tt[i]
         /\ FlattenSeq(tt) = h[n + 1]
  <2> HIDE DEF tt
  <2>1. \E h \in [0..Len(tt) -> Seq(V)] :
         /\ h[0] = <<>> /\ \A i \in 1..Len(tt) : h[i] = h[i - 1] \o tt[i]
         /\ FlattenSeq(tt) = h[Len(tt)]
    BY <1>1, Flattening
  <2>2. Len(tt) = n + 1 BY <1>1
  <2> HIDE DEF n
  <2> QED BY <2>1, <2>2
<1> HIDE DEF tt, n
<1> DEFINE N == {k \in Nat : k <= n => h[k] = g[k]}
<1>4. 0 \in N BY <1>2, <1>3
<1>5. ASSUME NEW k \in Nat, k \in N PROVE k + 1 \in N
  <2> SUFFICES ASSUME k + 1 <= n PROVE h[k + 1] = g[k + 1]
    OBVIOUS
  <2>1. k + 1 \in 1..n /\ k + 1 \in 1..(n + 1) /\ (k + 1) - 1 = k BY <1>1
  <2>2. h[k + 1] = h[k] \o tt[k + 1] /\ g[k + 1] = g[k] \o ss[k + 1] BY <1>2, <1>3, <2>1
  <2>3. h[k] = g[k] BY <1>1, <1>5
  <2>4. tt[k + 1] = ss[k + 1] BY <1>1, <2>1
  <2> QED BY <2>2, <2>3, <2>4
<1>6. Nat \subseteq N
  <2> HIDE DEF N
  <2> QED BY <1>4, <1>5, InductNat
<1>7. h[n] = g[n]
  <2>1. n \in N BY <1>1, <1>6
  <2> QED BY <1>1, <2>1
<1>8. h[n + 1] = h[n] \o tt[n + 1]
  <2>1. n + 1 \in 1..(n + 1) /\ (n + 1) - 1 = n BY <1>1
  <2> QED BY <1>3, <2>1
<1> QED BY <1>1, <1>2, <1>3, <1>7, <1>8 DEF tt

\* A sequence lies in a wire behind its first pos bytes.
Lies(w, pos, s) == pos + Len(s) <= Len(w) /\ \A i \in 1..Len(s) : w[pos + i] = s[i]

LEMMA LiesConcat ==
    ASSUME NEW V, NEW w \in Seq(V), NEW pos \in Nat, NEW s \in Seq(V), NEW t \in Seq(V),
           Lies(w, pos, s \o t)
    PROVE  Lies(w, pos, s) /\ Lies(w, pos + Len(s), t)
<1>1. /\ Len(s) \in Nat /\ Len(t) \in Nat /\ Len(w) \in Nat /\ Len(s \o t) = Len(s) + Len(t)
      /\ \A i \in 1..(Len(s) + Len(t)) : (s \o t)[i] = IF i <= Len(s) THEN s[i] ELSE t[i - Len(s)]
  BY ConcatProperties, LenProperties
<1>2. Lies(w, pos, s)
  <2>1. \A i \in 1..Len(s) : i \in 1..(Len(s) + Len(t)) /\ i <= Len(s) BY <1>1
  <2>2. \A i \in 1..Len(s) : w[pos + i] = s[i] BY <1>1, <2>1 DEF Lies
  <2> QED BY <1>1, <2>2 DEF Lies
<1>3. Lies(w, pos + Len(s), t)
  <2>1. ASSUME NEW i \in 1..Len(t) PROVE w[(pos + Len(s)) + i] = t[i]
    <3>1. Len(s) + i \in 1..(Len(s) + Len(t)) /\ ~(Len(s) + i <= Len(s)) /\ (Len(s) + i) - Len(s) = i
          /\ (pos + Len(s)) + i = pos + (Len(s) + i)
      BY <1>1
    <3>2. (s \o t)[Len(s) + i] = t[i] BY <1>1, <3>1
    <3>3. w[pos + (Len(s) + i)] = (s \o t)[Len(s) + i] BY <1>1, <3>1 DEF Lies
    <3> QED BY <3>1, <3>2, <3>3
  <2> QED BY <1>1, <2>1 DEF Lies
<1> QED BY <1>2, <1>3

\* A byte is made of its bits, ...
ByteOf(b, i) == (b \div Weight[i]) % 2

LEMMA Weights == /\ Weight[1] = 128 /\ Weight[2] = 64 /\ Weight[3] = 32 /\ Weight[4] = 16
                 /\ Weight[5] = 8 /\ Weight[6] = 4 /\ Weight[7] = 2 /\ Weight[8] = 1
  BY DEF Weight

LEMMA ByteBits ==
    ASSUME NEW b \in Byte
    PROVE  /\ \A i \in 1..8 : ByteOf(b, i) \in {0, 1}
           /\ b = ByteOf(b, 1) * 128 + ByteOf(b, 2) * 64 + ByteOf(b, 3) * 32 + ByteOf(b, 4) * 16
                  + ByteOf(b, 5) * 8 + ByteOf(b, 6) * 4 + ByteOf(b, 7) * 2 + ByteOf(b, 8)
<1>1. /\ ByteOf(b, 1) = (b \div 128) % 2 /\ ByteOf(b, 2) = (b \div 64) % 2
      /\ ByteOf(b, 3) = (b \div 32) % 2 /\ ByteOf(b, 4) = (b \div 16) % 2
      /\ ByteOf(b, 5) = (b \div 8) % 2 /\ ByteOf(b, 6) = (b \div 4) % 2
      /\ ByteOf(b, 7) = (b \div 2) % 2 /\ ByteOf(b, 8) = (b \div 1) % 2
  BY Weights DEF ByteOf
<1>2. b \in 0..255 BY DEF Byte
<1>3. \A i \in 1..8 : i \in {1, 2, 3, 4, 5, 6, 7, 8} OBVIOUS
<1>4. \A i \in {1, 2, 3, 4, 5, 6, 7, 8} : ByteOf(b, i) \in {0, 1} BY <1>1, <1>2
<1>5. b = ByteOf(b, 1) * 128 + ByteOf(b, 2) * 64 + ByteOf(b, 3) * 32 + ByteOf(b, 4) * 16
           + ByteOf(b, 5) * 8 + ByteOf(b, 6) * 4 + ByteOf(b, 7) * 2 + ByteOf(b, 8)
  <2>1. b = ((b \div 128) % 2) * 128 + ((b \div 64) % 2) * 64 + ((b \div 32) % 2) * 32 + ((b \div 16) % 2) * 16
            + ((b \div 8) % 2) * 8 + ((b \div 4) % 2) * 4 + ((b \div 2) % 2) * 2 + ((b \div 1) % 2)
    BY <1>2
  <2> QED BY <1>1, <2>1
<1> QED BY <1>3, <1>4, <1>5

\* ... and eight bits make a byte that has them.
AreBits(d) == \A i \in 1..8 : d[i] \in {0, 1}

ByteFrom(d) == d[1] * 128 + d[2] * 64 + d[3] * 32 + d[4] * 16 + d[5] * 8 + d[6] * 4 + d[7] * 2 + d[8]

LEMMA BitsByte ==
    ASSUME NEW d, AreBits(d)
    PROVE  ByteFrom(d) \in Byte /\ \A i \in 1..8 : ByteOf(ByteFrom(d), i) = d[i]
<1> DEFINE b == ByteFrom(d)
<1>0. /\ d[1] \in {0, 1} /\ d[2] \in {0, 1} /\ d[3] \in {0, 1} /\ d[4] \in {0, 1}
      /\ d[5] \in {0, 1} /\ d[6] \in {0, 1} /\ d[7] \in {0, 1} /\ d[8] \in {0, 1}
  BY DEF AreBits
<1>1. /\ ByteFrom(d) \in Byte
      /\ (b \div 128) % 2 = d[1] /\ (b \div 64) % 2 = d[2] /\ (b \div 32) % 2 = d[3] /\ (b \div 16) % 2 = d[4]
      /\ (b \div 8) % 2 = d[5] /\ (b \div 4) % 2 = d[6] /\ (b \div 2) % 2 = d[7] /\ (b \div 1) % 2 = d[8]
  <2>1. PICK b1 \in {0, 1}, b2 \in {0, 1}, b3 \in {0, 1}, b4 \in {0, 1} :
           d[1] = b1 /\ d[2] = b2 /\ d[3] = b3 /\ d[4] = b4
    BY <1>0
  <2>2. PICK b5 \in {0, 1}, b6 \in {0, 1}, b7 \in {0, 1}, b8 \in {0, 1} :
           d[5] = b5 /\ d[6] = b6 /\ d[7] = b7 /\ d[8] = b8
    BY <1>0
  <2>3. b = b1 * 128 + b2 * 64 + b3 * 32 + b4 * 16 + b5 * 8 + b6 * 4 + b7 * 2 + b8
    BY <2>1, <2>2 DEF ByteFrom
  <2> HIDE DEF b
  <2>4. (b \div 128) % 2 = b1 /\ (b \div 64) % 2 = b2 /\ (b \div 32) % 2 = b3 /\ (b \div 16) % 2 = b4
    BY <2>3
  <2>5. (b \div 8) % 2 = b5 /\ (b \div 4) % 2 = b6 /\ (b \div 2) % 2 = b7 /\ (b \div 1) % 2 = b8
    BY <2>3
  <2>6. b \in Byte BY <2>3 DEF Byte
  <2> QED BY <2>1, <2>2, <2>4, <2>5, <2>6 DEF b
<1> HIDE DEF b
<1>4. \A i \in 1..8 : i = 1 \/ i = 2 \/ i = 3 \/ i = 4 \/ i = 5 \/ i = 6 \/ i = 7 \/ i = 8 OBVIOUS
<1>5. \A i \in 1..8 : (b \div Weight[i]) % 2 = d[i] BY <1>1, <1>4, Weights
<1> QED BY <1>1, <1>5 DEF b, ByteOf

LEMMA Eighths ==
    ASSUME NEW p \in Nat
    PROVE  /\ p \div 8 \in Nat /\ p % 8 \in 0..7 /\ p = 8 * (p \div 8) + (p % 8)
           /\ \A q \in Nat, r \in 0..7 : p = 8 * q + r => p \div 8 = q /\ p % 8 = r
  OBVIOUS

LEMMA BitIs == ASSUME NEW w, NEW q \in Nat, NEW r \in 0..7 PROVE Bit(w, 8 * q + r) = ByteOf(w[q + 1], r + 1)
<1>1. (8 * q + r) \div 8 = q /\ (8 * q + r) % 8 = r OBVIOUS
<1> QED BY <1>1 DEF Bit, ByteOf

\* Of a wire, every bit is one.
LEMMA BitType ==
    ASSUME NEW w \in Seq(Byte), NEW p \in Nat, p < 8 * Len(w)
    PROVE  Bit(w, p) \in {0, 1}
<1>1. p \div 8 \in Nat /\ p % 8 \in 0..7 /\ p = 8 * (p \div 8) + (p % 8) BY Eighths
<1>2. Len(w) \in Nat BY LenProperties
<1>3. (p \div 8) + 1 \in 1..Len(w) /\ (p % 8) + 1 \in 1..8 BY <1>1, <1>2
<1>4. w[(p \div 8) + 1] \in Byte BY <1>3, ElementOfSeq
<1>5. ByteOf(w[(p \div 8) + 1], (p % 8) + 1) \in {0, 1} BY <1>3, <1>4, ByteBits
<1> QED BY <1>5 DEF Bit, ByteOf

\* What is packed has the bits it was packed from.
LEMMA Packed ==
    ASSUME NEW bits \in Seq({0, 1})
    PROVE  /\ Pack(bits) \in Seq(Byte) /\ Len(Pack(bits)) = Len(bits) \div 8
           /\ \A i \in 1..(Len(bits) \div 8) : Pack(bits)[i] = PackByte(bits, i)
           /\ \A q \in Nat, r \in 0..7 : q < Len(bits) \div 8 => ByteOf(Pack(bits)[q + 1], r + 1) = bits[8 * q + r + 1]
<1>0. Len(bits) \in Nat BY LenProperties
<1>1. ASSUME NEW i \in 1..(Len(bits) \div 8)
      PROVE  /\ PackByte(bits, i) \in Byte
             /\ \A r \in 1..8 : ByteOf(PackByte(bits, i), r) = bits[8 * i - 8 + r]
  <2> DEFINE d == [r \in 1..8 |-> bits[8 * i - 8 + r]]
  <2>1. 8 * i <= Len(bits) /\ i >= 1 /\ i \in Nat BY <1>0
  <2>2. \A r \in 1..8 : 8 * i - 8 + r \in 1..Len(bits) BY <1>0, <2>1
  <2>3. AreBits(d) BY <2>2, ElementOfSeq DEF AreBits
  <2>4. /\ d[1] = bits[8 * i - 7] /\ d[2] = bits[8 * i - 6] /\ d[3] = bits[8 * i - 5] /\ d[4] = bits[8 * i - 4]
        /\ d[5] = bits[8 * i - 3] /\ d[6] = bits[8 * i - 2] /\ d[7] = bits[8 * i - 1] /\ d[8] = bits[8 * i]
    <3>1. /\ 8 * i - 8 + 1 = 8 * i - 7 /\ 8 * i - 8 + 2 = 8 * i - 6 /\ 8 * i - 8 + 3 = 8 * i - 5
          /\ 8 * i - 8 + 4 = 8 * i - 4 /\ 8 * i - 8 + 5 = 8 * i - 3 /\ 8 * i - 8 + 6 = 8 * i - 2
          /\ 8 * i - 8 + 7 = 8 * i - 1 /\ 8 * i - 8 + 8 = 8 * i
      OBVIOUS
    <3> QED BY <3>1
  <2>5. PackByte(bits, i) = ByteFrom(d) 
    <3> HIDE DEF d
    <3> QED BY <2>4 DEF PackByte, ByteFrom
  <2>6. \A r \in 1..8 : d[r] = bits[8 * i - 8 + r] OBVIOUS
  <2> HIDE DEF d
  <2> QED BY <2>3, <2>5, <2>6, BitsByte
<1>2. Len(bits) \div 8 \in Nat BY <1>0
<1>3. Pack(bits) \in [1..(Len(bits) \div 8) -> Byte] BY <1>1 DEF Pack
<1>4. Pack(bits) \in Seq(Byte) /\ Len(Pack(bits)) = Len(bits) \div 8
  BY <1>2, <1>3
<1>5. ASSUME NEW q \in Nat, NEW r \in 0..7, q < Len(bits) \div 8
      PROVE  ByteOf(Pack(bits)[q + 1], r + 1) = bits[8 * q + r + 1]
  <2>1. q + 1 \in 1..(Len(bits) \div 8) BY <1>2, <1>5
  <2>2. Pack(bits)[q + 1] = PackByte(bits, q + 1) BY <2>1 DEF Pack
  <2>3. r + 1 \in 1..8 /\ 8 * (q + 1) - 8 + (r + 1) = 8 * q + r + 1 OBVIOUS
  <2> QED BY <1>1, <2>1, <2>2, <2>3
<1> QED BY <1>4, <1>5 DEF Pack

LEMMA ByteEqual ==
    ASSUME NEW a \in Byte, NEW b \in Byte, \A r \in 0..7 : ByteOf(a, r + 1) = ByteOf(b, r + 1)
    PROVE  a = b
<1>1. /\ 0 \in 0..7 /\ 1 \in 0..7 /\ 2 \in 0..7 /\ 3 \in 0..7 /\ 4 \in 0..7 /\ 5 \in 0..7 /\ 6 \in 0..7 /\ 7 \in 0..7
      /\ 0 + 1 = 1 /\ 1 + 1 = 2 /\ 2 + 1 = 3 /\ 3 + 1 = 4 /\ 4 + 1 = 5 /\ 5 + 1 = 6 /\ 6 + 1 = 7 /\ 7 + 1 = 8
  OBVIOUS
<1>2. /\ ByteOf(a, 1) = ByteOf(b, 1) /\ ByteOf(a, 2) = ByteOf(b, 2) /\ ByteOf(a, 3) = ByteOf(b, 3)
      /\ ByteOf(a, 4) = ByteOf(b, 4) /\ ByteOf(a, 5) = ByteOf(b, 5) /\ ByteOf(a, 6) = ByteOf(b, 6)
      /\ ByteOf(a, 7) = ByteOf(b, 7) /\ ByteOf(a, 8) = ByteOf(b, 8)
  BY <1>1
<1> QED BY <1>2, ByteBits

\* Bits lie in a wire behind its first p bits.
BitsLie(w, p, bs) == p + Len(bs) <= 8 * Len(w) /\ \A j \in 1..Len(bs) : Bit(w, p + j - 1) = bs[j]

LEMMA BitsLieConcat ==
    ASSUME NEW w \in Seq(Byte), NEW p \in Nat, NEW s \in Seq({0, 1}), NEW t \in Seq({0, 1}),
           BitsLie(w, p, s \o t)
    PROVE  BitsLie(w, p, s) /\ BitsLie(w, p + Len(s), t)
<1>1. /\ Len(s) \in Nat /\ Len(t) \in Nat /\ Len(w) \in Nat /\ Len(s \o t) = Len(s) + Len(t)
      /\ \A i \in 1..(Len(s) + Len(t)) : (s \o t)[i] = IF i <= Len(s) THEN s[i] ELSE t[i - Len(s)]
  BY ConcatProperties, LenProperties
<1>2. BitsLie(w, p, s)
  <2>1. \A i \in 1..Len(s) : i \in 1..(Len(s) + Len(t)) /\ i <= Len(s) BY <1>1
  <2>2. \A i \in 1..Len(s) : Bit(w, p + i - 1) = s[i] BY <1>1, <2>1 DEF BitsLie
  <2>3. p + Len(s) <= 8 * Len(w) BY <1>1 DEF BitsLie
  <2> QED BY <2>2, <2>3 DEF BitsLie
<1>3. BitsLie(w, p + Len(s), t)
  <2>1. ASSUME NEW i \in 1..Len(t) PROVE Bit(w, (p + Len(s)) + i - 1) = t[i]
    <3>1. Len(s) + i \in 1..(Len(s) + Len(t)) /\ ~(Len(s) + i <= Len(s)) /\ (Len(s) + i) - Len(s) = i
          /\ (p + Len(s)) + i - 1 = p + (Len(s) + i) - 1
      BY <1>1
    <3>2. (s \o t)[Len(s) + i] = t[i] BY <1>1, <3>1
    <3>3. Bit(w, p + (Len(s) + i) - 1) = (s \o t)[Len(s) + i] BY <1>1, <3>1 DEF BitsLie
    <3> QED BY <3>1, <3>2, <3>3
  <2>2. (p + Len(s)) + Len(t) <= 8 * Len(w) BY <1>1 DEF BitsLie
  <2> QED BY <2>1, <2>2 DEF BitsLie
<1> QED BY <1>2, <1>3

LEMMA PackedLie ==
    ASSUME NEW w \in Seq(Byte), NEW pos \in Nat, NEW bits \in Seq({0, 1}), Len(bits) % 8 = 0,
           Lies(w, pos, Pack(bits))
    PROVE  BitsLie(w, 8 * pos, bits)
<1>1. Len(bits) \in Nat /\ Len(w) \in Nat /\ Len(bits) = 8 * (Len(bits) \div 8) /\ Len(bits) \div 8 \in Nat
  BY LenProperties
<1>2. Len(Pack(bits)) = Len(bits) \div 8 BY Packed
<1>3. 8 * pos + Len(bits) <= 8 * Len(w)
  <2>1. pos + (Len(bits) \div 8) <= Len(w) BY <1>2 DEF Lies
  <2> QED BY <1>1, <2>1
<1>4. ASSUME NEW j \in 1..Len(bits) PROVE Bit(w, 8 * pos + j - 1) = bits[j]
  <2>1. j - 1 \in Nat BY <1>1
  <2>2. PICK q \in Nat, r \in 0..7 : j - 1 = 8 * q + r BY <2>1, Eighths
  <2>3. q < Len(bits) \div 8 /\ q + 1 \in 1..(Len(bits) \div 8) /\ j = 8 * q + r + 1
        /\ 8 * pos + j - 1 = 8 * (pos + q) + r /\ pos + q \in Nat /\ (pos + q) + 1 = pos + (q + 1)
    BY <1>1, <2>2
  <2>4. Bit(w, 8 * pos + j - 1) = ByteOf(w[pos + (q + 1)], r + 1) BY <2>3, BitIs
  <2>5. w[pos + (q + 1)] = Pack(bits)[q + 1] BY <1>2, <2>3 DEF Lies
  <2>6. ByteOf(Pack(bits)[q + 1], r + 1) = bits[8 * q + r + 1] BY <2>3, Packed
  <2> QED BY <2>3, <2>4, <2>5, <2>6
<1> QED BY <1>3, <1>4 DEF BitsLie

\* The count of a vector is the same in the wire and in the vector.
LEMMA CountBits ==
    ASSUME NEW w \in Seq(Byte), NEW q \in Nat, NEW v \in Seq({0, 1}), Len(v) >= 16, BitsLie(w, 8 * q, v)
    PROVE  U16(Pack(v), 0) = U16(w, q) /\ U16(w, q) \in Nat /\ q + 2 <= Len(w)
<1>1. Len(v) \in Nat /\ Len(w) \in Nat /\ Len(v) \div 8 \in Nat /\ Len(v) \div 8 >= 2 BY LenProperties
<1>2. q + 2 <= Len(w) BY <1>1 DEF BitsLie
<1>3. q + 1 \in 1..Len(w) /\ q + 2 \in 1..Len(w) BY <1>1, <1>2
<1>4. w[q + 1] \in Byte /\ w[q + 2] \in Byte BY <1>3, ElementOfSeq
<1>5. 1 \in 1..(Len(v) \div 8) /\ 2 \in 1..(Len(v) \div 8) BY <1>1
<1>6. Pack(v) \in Seq(Byte) /\ Len(Pack(v)) = Len(v) \div 8 BY Packed
<1>7. Pack(v)[1] \in Byte /\ Pack(v)[2] \in Byte BY <1>5, <1>6, ElementOfSeq
<1>8. \A r \in 0..7 : ByteOf(Pack(v)[1], r + 1) = ByteOf(w[q + 1], r + 1)
  <2> SUFFICES ASSUME NEW r \in 0..7 PROVE ByteOf(Pack(v)[1], r + 1) = ByteOf(w[q + 1], r + 1)
    OBVIOUS
  <2>0. PICK k \in Nat : k = 0 /\ k < Len(v) \div 8 BY <1>1
  <2>1. ByteOf(Pack(v)[k + 1], r + 1) = v[8 * k + r + 1] BY <2>0, Packed
  <2>2. r + 1 \in 1..Len(v) /\ 8 * q + (r + 1) - 1 = 8 * q + r /\ 8 * k + r + 1 = r + 1 /\ k + 1 = 1 BY <1>1, <2>0
  <2>3. Bit(w, 8 * q + r) = v[r + 1] BY <2>2 DEF BitsLie
  <2>4. Bit(w, 8 * q + r) = ByteOf(w[q + 1], r + 1) BY BitIs
  <2> QED BY <2>1, <2>2, <2>3, <2>4
<1>9. \A r \in 0..7 : ByteOf(Pack(v)[2], r + 1) = ByteOf(w[q + 2], r + 1)
  <2> SUFFICES ASSUME NEW r \in 0..7 PROVE ByteOf(Pack(v)[2], r + 1) = ByteOf(w[q + 2], r + 1)
    OBVIOUS
  <2>0. PICK k \in Nat : k = 1 /\ k < Len(v) \div 8 BY <1>1
  <2>1. ByteOf(Pack(v)[k + 1], r + 1) = v[8 * k + r + 1] BY <2>0, Packed
  <2>2. r + 9 \in 1..Len(v) /\ 8 * q + (r + 9) - 1 = 8 * (q + 1) + r /\ 8 * k + r + 1 = r + 9 /\ k + 1 = 2
        /\ (q + 1) + 1 = q + 2 /\ q + 1 \in Nat
    BY <1>1, <2>0
  <2>3. Bit(w, 8 * (q + 1) + r) = v[r + 9] BY <2>2 DEF BitsLie
  <2>4. Bit(w, 8 * (q + 1) + r) = ByteOf(w[q + 2], r + 1) BY <2>2, BitIs, Zenon
  <2> QED BY <2>1, <2>2, <2>3, <2>4
<1>10. Pack(v)[1] = w[q + 1] BY <1>4, <1>7, <1>8, ByteEqual
<1>11. Pack(v)[2] = w[q + 2] BY <1>4, <1>7, <1>9, ByteEqual
<1>12. U16(w, q) \in Nat
  <2>1. PICK a \in 0..255, b \in 0..255 : w[q + 1] = a /\ w[q + 2] = b BY <1>4, Zenon DEF Byte
  <2> QED BY <2>1 DEF U16
<1>13. U16(Pack(v), 0) = U16(w, q)
  <2>1. 0 + 1 = 1 /\ 0 + 2 = 2 OBVIOUS
  <2> QED BY <1>10, <1>11, <2>1 DEF U16
<1> QED BY <1>2, <1>12, <1>13

LEMMA U16Type ==
    ASSUME NEW w \in Seq(Byte), NEW q \in Nat, q + 2 <= Len(w)
    PROVE  U16(w, q) \in Nat /\ U16(w, q) <= 65535
<1>1. q + 1 \in 1..Len(w) /\ q + 2 \in 1..Len(w) BY LenProperties
<1>2. w[q + 1] \in Byte /\ w[q + 2] \in Byte BY <1>1, ElementOfSeq
<1>3. PICK a \in 0..255, b \in 0..255 : w[q + 1] = a /\ w[q + 2] = b BY <1>2, Zenon DEF Byte
<1>4. U16(w, q) = a * 256 + b BY <1>3 DEF U16
<1>5. a * 256 + b \in Nat /\ a * 256 + b <= 65535 OBVIOUS
<1> QED BY <1>4, <1>5

LEMMA PutU16Type ==
    ASSUME NEW n \in Nat, n <= 65535
    PROVE  PutU16(n) \in Seq(Byte) /\ Len(PutU16(n)) = 2 /\ U16(PutU16(n), 0) = n
<1>1. n \div 256 \in Byte /\ n % 256 \in Byte /\ (n \div 256) * 256 + (n % 256) = n BY DEF Byte
<1>2. 0 + 1 = 1 /\ 0 + 2 = 2 OBVIOUS
<1> QED BY <1>1, <1>2 DEF PutU16, U16

LEMMA PutU32Type ==
    ASSUME NEW n \in Nat, TopByte(n) <= 255
    PROVE  PutU32(n) \in Seq(Byte) /\ Len(PutU32(n)) = 4
<1>1. TopByte(n) \in Byte /\ (n \div 65536) % 256 \in Byte /\ (n \div 256) % 256 \in Byte /\ n % 256 \in Byte
  BY DEF Byte, TopByte
<1> QED BY <1>1 DEF PutU32

(* Fields. *)

BitStrings == Seq({0, 1})

Outputs == [ok : BOOLEAN, bits : BitStrings]

Inputs == [ok : BOOLEAN, p : Nat, values : Seq(BitStrings)]

LEMMA WriteFieldType ==
    ASSUME NEW o \in Outputs, NEW kind \in Int, NEW value \in BitStrings
    PROVE  /\ WriteField(o, kind, value) \in Outputs
           /\ kind < 0 => [k \in 1..(-kind) |-> 0] \in BitStrings /\ Len([k \in 1..(-kind) |-> 0]) = -kind
<1> USE DEF Outputs, BitStrings
<1>1. kind < 0 => [k \in 1..(-kind) |-> 0] \in Seq({0, 1}) /\ Len([k \in 1..(-kind) |-> 0]) = -kind
  <2> SUFFICES ASSUME kind < 0
               PROVE  [k \in 1..(-kind) |-> 0] \in Seq({0, 1}) /\ Len([k \in 1..(-kind) |-> 0]) = -kind
    OBVIOUS
  <2>1. -kind \in Nat OBVIOUS
  <2>2. [k \in 1..(-kind) |-> 0] \in [1..(-kind) -> {0, 1}] OBVIOUS
  <2> QED BY <2>1, <2>2
<1>2. o.bits \in Seq({0, 1}) /\ o.ok \in BOOLEAN OBVIOUS
<1>3. (IF kind < 0 THEN [k \in 1..(-kind) |-> 0] ELSE value) \in Seq({0, 1}) BY <1>1
<1>4. o.bits \o (IF kind < 0 THEN [k \in 1..(-kind) |-> 0] ELSE value) \in Seq({0, 1})
  BY <1>2, <1>3, ConcatProperties
<1> QED BY <1>1, <1>4 DEF WriteField, Written

\* Fields are written one after the other.
LEMMA WritingIs ==
    ASSUME NEW kinds \in Seq(Int), NEW values \in Seq(BitStrings), Len(values) = Len(kinds)
    PROVE  /\ Writing(kinds, values) \in [0..Len(kinds) -> Outputs]
           /\ Writing(kinds, values)[0] = Written(TRUE, <<>>)
           /\ \A i \in 1..Len(kinds) :
                 Writing(kinds, values)[i] = WriteField(Writing(kinds, values)[i - 1], kinds[i], values[i])
<1> DEFINE n == Len(kinds)
           F == [i \in 1..n |-> [o \in Outputs |-> WriteField(o, kinds[i], values[i])]]
           is(f) == f = [i \in 0..n |-> IF i = 0 THEN Written(TRUE, <<>>) ELSE WriteField(f[i - 1], kinds[i], values[i])]
           out == CHOOSE f : is(f)
<1>0. n \in Nat /\ \A i \in 1..n : kinds[i] \in Int /\ values[i] \in BitStrings /\ i - 1 \in 0..n /\ i \in 0..n /\ i # 0
  BY LenProperties, ElementOfSeq
<1>1. Written(TRUE, <<>>) \in Outputs BY EmptySeq DEF Outputs, Written, BitStrings
<1>2. PICK g : Iterates(n, Outputs, F, Written(TRUE, <<>>), g)
  <2>1. IsIteration(n, Outputs, F) BY <1>0, WriteFieldType DEF IsIteration
  <2> HIDE DEF F, n
  <2> QED BY <1>0, <1>1, <2>1, Iterated
<1>3. \A i \in 1..n : g[i - 1] \in Outputs /\ g[i] = WriteField(g[i - 1], kinds[i], values[i])
  BY <1>0, <1>2 DEF Iterates
<1>4. g \in [0..n -> Outputs] /\ g[0] = Written(TRUE, <<>>) BY <1>2 DEF Iterates
<1>5. is(g)
  <2> HIDE DEF n
  <2>1. \A i \in 0..n : i # 0 => i \in 1..n BY <1>0
  <2>2. \A i \in 0..n : g[i] = IF i = 0 THEN Written(TRUE, <<>>) ELSE WriteField(g[i - 1], kinds[i], values[i])
    BY <1>3, <1>4, <2>1
  <2> QED BY <1>4, <2>2
<1>6. is(out) BY <1>5
<1>7. out = Writing(kinds, values) BY DEF Writing
<1> HIDE DEF out, F
<1>8. out[0] = Written(TRUE, <<>>) /\ \A i \in 1..n : out[i] = WriteField(out[i - 1], kinds[i], values[i])
  BY <1>0, <1>6
<1> DEFINE N == {k \in Nat : k <= n => out[k] = g[k]}
<1>9. 0 \in N BY <1>4, <1>8
<1>10. ASSUME NEW k \in Nat, k \in N PROVE k + 1 \in N
  <2> SUFFICES ASSUME k + 1 <= n PROVE out[k + 1] = g[k + 1]
    OBVIOUS
  <2>1. k + 1 \in 1..n /\ (k + 1) - 1 = k /\ k <= n BY <1>0
  <2> HIDE DEF n
  <2> QED BY <1>3, <1>8, <1>10, <2>1
<1>11. Nat \subseteq N
  <2> HIDE DEF N
  <2> QED BY <1>9, <1>10, InductNat
<1>12. out \in [0..n -> Outputs]
  <2> HIDE DEF n
  <2>1. \A k \in 0..n : k \in Nat /\ k <= n BY <1>0
  <2>2. \A k \in 0..n : out[k] \in Outputs BY <1>4, <1>11, <2>1
  <2>3. DOMAIN out = 0..n /\ out = [k \in 0..n |-> out[k]] BY <1>6
  <2> QED BY <2>2, <2>3
<1> QED BY <1>7, <1>8, <1>12

LEMMA ReservedSize == ASSUME NEW w, NEW p, NEW kind \in Int, kind < 0 PROVE FieldSize(w, p, kind) = -kind
  BY DEF FieldSize

LEMMA PlainSize == ASSUME NEW w, NEW p, NEW kind \in 0..100 PROVE FieldSize(w, p, kind) = kind
  BY DEF FieldSize

LEMMA VectorSize ==
    ASSUME NEW w, NEW p, NEW kind \in Int, kind > 100
    PROVE  FieldSize(w, p, kind) = 16 + 8 * ((U16(w, p \div 8) * (kind - 100) + 7) \div 8)
  BY DEF FieldSize

\* The size of a field, where it and its count are there.
LEMMA FieldSizeType ==
    ASSUME NEW w \in Seq(Byte), NEW p \in Nat, NEW kind \in Int,
           kind > 100 => p % 8 = 0 /\ p + 16 <= 8 * Len(w)
    PROVE  /\ FieldSize(w, p, kind) \in Nat
           /\ kind < 0 => FieldSize(w, p, kind) = -kind
           /\ kind \in 0..100 => FieldSize(w, p, kind) = kind
           /\ kind > 100 => FieldSize(w, p, kind) >= 16
<1>1. CASE kind < 0
  <2>1. FieldSize(w, p, kind) = -kind BY <1>1, ReservedSize
  <2> QED BY <1>1, <2>1
<1>2. CASE kind \in 0..100
  <2>1. FieldSize(w, p, kind) = kind BY <1>2, PlainSize
  <2> QED BY <1>2, <2>1
<1>3. CASE kind > 100
  <2>0. Len(w) \in Nat BY LenProperties
  <2>1. p \div 8 \in Nat /\ (p \div 8) + 2 <= Len(w) BY <1>3, <2>0
  <2>2. PICK u \in Nat : u = U16(w, p \div 8) BY <2>1, U16Type
  <2>3. PICK k \in Nat : k = kind - 100 BY <1>3
  <2>4. u * k \in Nat OBVIOUS
  <2>5. ((u * k) + 7) \div 8 \in Nat BY <2>4
  <2>6. FieldSize(w, p, kind) = 16 + 8 * (((u * k) + 7) \div 8) 
    <3>1. FieldSize(w, p, kind) = 16 + 8 * ((U16(w, p \div 8) * (kind - 100) + 7) \div 8) BY <1>3, VectorSize
    <3> QED BY <2>2, <2>3, <3>1
  <2> QED BY <1>3, <2>5, <2>6
<1> QED BY <1>1, <1>2, <1>3

LEMMA BitsType ==
    ASSUME NEW w \in Seq(Byte), NEW p \in Nat, NEW n \in Nat, p + n <= 8 * Len(w)
    PROVE  Bits(w, p, n) \in BitStrings /\ Len(Bits(w, p, n)) = n /\ BitsLie(w, p, Bits(w, p, n))
<1>0. Len(w) \in Nat BY LenProperties
<1>1. \A i \in 1..n : Bit(w, p + i - 1) \in {0, 1}
  <2> SUFFICES ASSUME NEW i \in 1..n PROVE Bit(w, p + i - 1) \in {0, 1}
    OBVIOUS
  <2>1. p + i - 1 \in Nat /\ p + i - 1 < 8 * Len(w) BY <1>0
  <2> QED BY <2>1, BitType
<1>2. Bits(w, p, n) \in [1..n -> {0, 1}] BY <1>1 DEF Bits
<1>3. Bits(w, p, n) \in Seq({0, 1}) /\ Len(Bits(w, p, n)) = n BY <1>2
<1>4. \A i \in 1..n : Bits(w, p, n)[i] = Bit(w, p + i - 1) BY DEF Bits
<1> QED BY <1>3, <1>4 DEF BitStrings, BitsLie

LEMMA ReadFieldType ==
    ASSUME NEW w \in Seq(Byte), NEW r \in Inputs, NEW kind \in Int
    PROVE  ReadField(w, r, kind) \in Inputs
<1> DEFINE size == FieldSize(w, r.p, kind)
<1>0. r.p \in Nat /\ r.values \in Seq(BitStrings) /\ r.ok \in BOOLEAN BY DEF Inputs
<1>1. CASE Readable(w, r, kind) /\ r.p + size <= 8 * Len(w)
  <2>1. kind > 100 => r.p % 8 = 0 /\ r.p + 16 <= 8 * Len(w) BY <1>1 DEF Readable, Raw
  <2>2. size \in Nat BY <1>0, <2>1, FieldSizeType
  <2>3. Bits(w, r.p, size) \in BitStrings BY <1>0, <1>1, <2>2, BitsType
  <2>4. <<>> \in BitStrings BY EmptySeq DEF BitStrings
  <2>5. Append(r.values, IF kind < 0 THEN <<>> ELSE Bits(w, r.p, size)) \in Seq(BitStrings)
    BY <1>0, <2>3, <2>4, AppendProperties
  <2>6. r.p + size \in Nat BY <1>0, <2>2
  <2>7. ReadField(w, r, kind) = Read(TRUE, r.p + size, Append(r.values, IF kind < 0 THEN <<>> ELSE Bits(w, r.p, size)))
    BY <1>1 DEF ReadField
  <2> HIDE DEF size
  <2> QED BY <2>5, <2>6, <2>7 DEF Inputs, Read
<1>2. CASE ~(Readable(w, r, kind) /\ r.p + size <= 8 * Len(w))
  <2>1. ReadField(w, r, kind) = Read(FALSE, r.p, r.values) BY <1>2 DEF ReadField
  <2> QED BY <1>0, <2>1 DEF Inputs, Read
<1> QED BY <1>1, <1>2

\* Fields are read one after the other.
LEMMA ReadingIs ==
    ASSUME NEW kinds \in Seq(Int), NEW w \in Seq(Byte), NEW pos \in Nat
    PROVE  /\ Reading(kinds, w, pos) \in [0..Len(kinds) -> Inputs]
           /\ Reading(kinds, w, pos)[0] = Read(TRUE, 8 * pos, <<>>)
           /\ \A i \in 1..Len(kinds) :
                 Reading(kinds, w, pos)[i] = ReadField(w, Reading(kinds, w, pos)[i - 1], kinds[i])
<1> DEFINE n == Len(kinds)
           F == [i \in 1..n |-> [r \in Inputs |-> ReadField(w, r, kinds[i])]]
           is(f) == f = [i \in 0..n |-> IF i = 0 THEN Read(TRUE, 8 * pos, <<>>) ELSE ReadField(w, f[i - 1], kinds[i])]
           in == CHOOSE f : is(f)
<1>0. n \in Nat /\ \A i \in 1..n : kinds[i] \in Int /\ i - 1 \in 0..n /\ i \in 0..n /\ i # 0
  BY LenProperties, ElementOfSeq
<1>1. Read(TRUE, 8 * pos, <<>>) \in Inputs BY EmptySeq DEF Inputs, Read
<1>2. PICK g : Iterates(n, Inputs, F, Read(TRUE, 8 * pos, <<>>), g)
  <2>1. IsIteration(n, Inputs, F) BY <1>0, ReadFieldType DEF IsIteration
  <2> HIDE DEF F, n
  <2> QED BY <1>0, <1>1, <2>1, Iterated
<1>3. \A i \in 1..n : g[i - 1] \in Inputs /\ g[i] = ReadField(w, g[i - 1], kinds[i])
  BY <1>0, <1>2 DEF Iterates
<1>4. g \in [0..n -> Inputs] /\ g[0] = Read(TRUE, 8 * pos, <<>>) BY <1>2 DEF Iterates
<1>5. is(g)
  <2> HIDE DEF n
  <2>1. \A i \in 0..n : i # 0 => i \in 1..n BY <1>0
  <2>2. \A i \in 0..n : g[i] = IF i = 0 THEN Read(TRUE, 8 * pos, <<>>) ELSE ReadField(w, g[i - 1], kinds[i])
    BY <1>3, <1>4, <2>1
  <2> QED BY <1>4, <2>2
<1>6. is(in) BY <1>5
<1>7. in = Reading(kinds, w, pos) BY DEF Reading
<1> HIDE DEF in, F
<1>8. in[0] = Read(TRUE, 8 * pos, <<>>) /\ \A i \in 1..n : in[i] = ReadField(w, in[i - 1], kinds[i])
  <2> HIDE DEF n
  <2>1. 0 \in 0..n BY <1>0
  <2>2. in[0] = Read(TRUE, 8 * pos, <<>>) BY <1>6, <2>1
  <2>3. \A i \in 1..n : in[i] = ReadField(w, in[i - 1], kinds[i]) BY <1>0, <1>6
  <2> QED BY <2>2, <2>3
<1> DEFINE N == {k \in Nat : k <= n => in[k] = g[k]}
<1>9. 0 \in N BY <1>4, <1>8
<1>10. ASSUME NEW k \in Nat, k \in N PROVE k + 1 \in N
  <2> SUFFICES ASSUME k + 1 <= n PROVE in[k + 1] = g[k + 1]
    OBVIOUS
  <2>1. k + 1 \in 1..n /\ (k + 1) - 1 = k /\ k <= n BY <1>0
  <2> HIDE DEF n
  <2> QED BY <1>3, <1>8, <1>10, <2>1
<1>11. Nat \subseteq N
  <2> HIDE DEF N
  <2> QED BY <1>9, <1>10, InductNat
<1>12. in \in [0..n -> Inputs]
  <2> HIDE DEF n
  <2>1. \A k \in 0..n : k \in Nat /\ k <= n BY <1>0
  <2>2. \A k \in 0..n : in[k] \in Inputs BY <1>4, <1>11, <2>1
  <2>3. DOMAIN in = 0..n /\ in = [k \in 0..n |-> in[k]] BY <1>6
  <2> QED BY <2>2, <2>3
<1> QED BY <1>7, <1>8, <1>12

\* What a field puts on the wire.
Output(kind, value) == IF kind < 0 THEN [k \in 1..(-kind) |-> 0] ELSE value

LEMMA OutputType ==
    ASSUME NEW kind \in Int, NEW value \in BitStrings
    PROVE  Output(kind, value) \in BitStrings /\ (kind < 0 => Len(Output(kind, value)) = -kind)
<1>1. PICK o : o = [ok |-> TRUE, bits |-> <<>>] OBVIOUS
<1>2. o \in Outputs BY <1>1, EmptySeq DEF Outputs, BitStrings
<1> QED BY <1>2, WriteFieldType DEF Output

LEMMA WriteFieldIs ==
    ASSUME NEW o \in Outputs, NEW kind \in Int, NEW value \in BitStrings
    PROVE  /\ WriteField(o, kind, value).ok = (o.ok /\ (Raw(kind) => Len(o.bits) % 8 = 0))
           /\ WriteField(o, kind, value).bits = o.bits \o Output(kind, value)
           /\ o.bits \in BitStrings
  BY DEF WriteField, Written, Output, Outputs

\* A vector's size is the same in the wire and in the vector.
LEMMA SameSize ==
    ASSUME NEW w \in Seq(Byte), NEW p \in Nat, p % 8 = 0, NEW kind \in Int, kind > 100,
           NEW v \in BitStrings, Len(v) >= 16, BitsLie(w, p, v)
    PROVE  FieldSize(Pack(v), 0, kind) = FieldSize(w, p, kind) /\ p + 16 <= 8 * Len(w)
<1>0. Len(w) \in Nat /\ Len(v) \in Nat BY LenProperties DEF BitStrings
<1>1. p \div 8 \in Nat /\ 8 * (p \div 8) = p OBVIOUS
<1>2. BitsLie(w, 8 * (p \div 8), v) BY <1>1
<1>3. U16(Pack(v), 0) = U16(w, p \div 8) BY <1>1, <1>2, CountBits DEF BitStrings
<1>4. 0 \div 8 = 0 OBVIOUS
<1>5. FieldSize(Pack(v), 0, kind) = 16 + 8 * ((U16(Pack(v), 0) * (kind - 100) + 7) \div 8)
  BY <1>4, VectorSize
<1>6. FieldSize(w, p, kind) = 16 + 8 * ((U16(w, p \div 8) * (kind - 100) + 7) \div 8)
  BY VectorSize
<1>7. p + 16 <= 8 * Len(w) BY <1>0 DEF BitsLie
<1> QED BY <1>3, <1>5, <1>6, <1>7

\* One field, written and read back.
LEMMA FieldBack ==
    ASSUME NEW w \in Seq(Byte), NEW p \in Nat, NEW kind \in Int, NEW v \in BitStrings, IsValue(v, kind),
           BitsLie(w, p, Output(kind, v)), Raw(kind) => p % 8 = 0
    PROVE  /\ FieldSize(w, p, kind) = Len(Output(kind, v))
           /\ kind > 100 => p + 16 <= 8 * Len(w)
           /\ v = IF kind < 0 THEN <<>> ELSE Bits(w, p, Len(Output(kind, v)))
<1>0. Len(w) \in Nat /\ Len(v) \in Nat BY LenProperties DEF BitStrings
<1>1. CASE kind < 0
  BY <1>1, OutputType, ReservedSize DEF IsValue
<1>2. CASE kind >= 0
  <2>1. Output(kind, v) = v BY <1>2 DEF Output
  <2>2. Bits(w, p, Len(v)) = v
    <3>1. v \in [1..Len(v) -> {0, 1}] BY LenProperties DEF BitStrings
    <3>2. \A i \in 1..Len(v) : Bit(w, p + i - 1) = v[i] BY <2>1 DEF BitsLie
    <3> QED BY <3>1, <3>2 DEF Bits
  <2>3. Len(v) = FieldSize(Pack(v), 0, kind) /\ (kind > 100 => Len(v) >= 16) BY <1>2 DEF IsValue
  <2>4. CASE kind \in 0..100
    <3>1. FieldSize(w, p, kind) = kind /\ FieldSize(Pack(v), 0, kind) = kind BY <2>4, PlainSize
    <3> QED BY <1>2, <2>1, <2>2, <2>3, <2>4, <3>1
  <2>5. CASE kind > 100
    <3>1. p % 8 = 0 BY <2>5 DEF Raw
    <3>2. FieldSize(Pack(v), 0, kind) = FieldSize(w, p, kind) /\ p + 16 <= 8 * Len(w)
      BY <2>1, <2>3, <2>5, <3>1, SameSize
    <3> QED BY <1>2, <2>1, <2>2, <2>3, <2>5, <3>2
  <2> QED BY <1>2, <2>4, <2>5
<1> QED BY <1>1, <1>2

AreValues(kinds, values) ==
    /\ values \in Seq(BitStrings) /\ Len(values) = Len(kinds)
    /\ \A i \in 1..Len(kinds) : IsValue(values[i], kinds[i])

\* The fields of a class, written and read back.
LEMMA FieldsBack ==
    ASSUME NEW kinds \in Seq(Int), NEW values, AreValues(kinds, values),
           NEW w \in Seq(Byte), NEW pos \in Nat, NEW o, o = Writing(kinds, values)[Len(kinds)],
           o.ok, BitsLie(w, 8 * pos, o.bits)
    PROVE  Reading(kinds, w, pos)[Len(kinds)] = Read(TRUE, 8 * pos + Len(o.bits), values)
<1> DEFINE n == Len(kinds)
           out == Writing(kinds, values)
           in == Reading(kinds, w, pos)
<1>1. values \in Seq(BitStrings) /\ Len(values) = n BY DEF AreValues
<1>2. n \in Nat BY LenProperties
<1>3. \A i \in 1..n : kinds[i] \in Int /\ values[i] \in BitStrings /\ IsValue(values[i], kinds[i])
  BY <1>1, ElementOfSeq DEF AreValues
<1>4. /\ out \in [0..n -> Outputs] /\ out[0] = Written(TRUE, <<>>)
      /\ \A i \in 1..n : out[i] = WriteField(out[i - 1], kinds[i], values[i])
  BY <1>1, WritingIs
<1>5. /\ in[0] = Read(TRUE, 8 * pos, <<>>)
      /\ \A i \in 1..n : in[i] = ReadField(w, in[i - 1], kinds[i])
  BY ReadingIs
<1>6. o = out[n] OBVIOUS
<1> HIDE DEF n, out, in
<1>7. ASSUME NEW i \in 1..n
      PROVE  /\ out[i].ok = (out[i - 1].ok /\ (Raw(kinds[i]) => Len(out[i - 1].bits) % 8 = 0))
             /\ out[i].bits = out[i - 1].bits \o Output(kinds[i], values[i])
             /\ out[i - 1].bits \in BitStrings /\ Output(kinds[i], values[i]) \in BitStrings
  <2>1. i - 1 \in 0..n BY <1>2
  <2>2. out[i - 1] \in Outputs BY <1>4, <2>1
  <2>3. out[i] = WriteField(out[i - 1], kinds[i], values[i]) BY <1>4
  <2>4. kinds[i] \in Int /\ values[i] \in BitStrings BY <1>3
  <2>5. Output(kinds[i], values[i]) \in BitStrings BY <2>4, OutputType
  <2>6. /\ WriteField(out[i - 1], kinds[i], values[i]).ok
             = (out[i - 1].ok /\ (Raw(kinds[i]) => Len(out[i - 1].bits) % 8 = 0))
        /\ WriteField(out[i - 1], kinds[i], values[i]).bits = out[i - 1].bits \o Output(kinds[i], values[i])
        /\ out[i - 1].bits \in BitStrings
    BY <2>2, <2>4, WriteFieldIs
  <2> QED BY <2>3, <2>5, <2>6
<1> DEFINE N == {k \in Nat : k <= n => out[n - k].ok /\ BitsLie(w, 8 * pos, out[n - k].bits)}
<1>8. 0 \in N BY <1>2, <1>6
<1>9. ASSUME NEW k \in Nat, k \in N PROVE k + 1 \in N
  <2> SUFFICES ASSUME k + 1 <= n PROVE out[n - (k + 1)].ok /\ BitsLie(w, 8 * pos, out[n - (k + 1)].bits)
    OBVIOUS
  <2>1. PICK i \in 1..n : i = n - k /\ i - 1 = n - (k + 1) /\ k <= n BY <1>2
  <2>2. out[i].ok /\ BitsLie(w, 8 * pos, out[i].bits) BY <1>9, <2>1
  <2>3. /\ out[i].ok = (out[i - 1].ok /\ (Raw(kinds[i]) => Len(out[i - 1].bits) % 8 = 0))
        /\ out[i].bits = out[i - 1].bits \o Output(kinds[i], values[i])
        /\ out[i - 1].bits \in BitStrings /\ Output(kinds[i], values[i]) \in BitStrings
    BY <1>7
  <2>4. 8 * pos \in Nat OBVIOUS
  <2>5. BitsLie(w, 8 * pos, out[i - 1].bits) BY <2>2, <2>3, <2>4, BitsLieConcat DEF BitStrings
  <2> QED BY <2>1, <2>2, <2>3, <2>5
<1>10. Nat \subseteq N
  <2> HIDE DEF N
  <2> QED BY <1>8, <1>9, InductNat
<1>11. ASSUME NEW i \in 0..n PROVE out[i].ok /\ BitsLie(w, 8 * pos, out[i].bits)
  <2>1. n - i \in Nat /\ n - i <= n /\ n - (n - i) = i BY <1>2
  <2>2. n - i \in N BY <1>10, <2>1
  <2> QED BY <2>1, <2>2
<1> DEFINE Back(k) == in[k] = Read(TRUE, 8 * pos + Len(out[k].bits), SubSeq(values, 1, k))
           M == {k \in Nat : k <= n => Back(k)}
<1>12. 0 \in M
  <2>1. out[0].bits = <<>> /\ Len(<<>>) = 0 BY <1>4 DEF Written
  <2>2. SubSeq(values, 1, 0) = <<>> BY SubSeqEmpty
  <2>3. 8 * pos + 0 = 8 * pos OBVIOUS
  <2> QED BY <1>5, <2>1, <2>2, <2>3
<1>13. ASSUME NEW k \in Nat, k \in M PROVE k + 1 \in M
  <2> SUFFICES ASSUME k + 1 <= n PROVE Back(k + 1)
    <3> HIDE DEF Back
    <3> QED  OBVIOUS
  <2> DEFINE i == k + 1
             kind == kinds[i]
             v == values[i]
             p == 8 * pos + Len(out[k].bits)
             size == FieldSize(w, p, kind)
  <2>1. i \in 1..n /\ i - 1 = k /\ k <= n /\ k \in 0..n /\ i \in 0..n /\ i \in Nat BY <1>2
  <2>2. in[k] = Read(TRUE, p, SubSeq(values, 1, k)) BY <1>13, <2>1
  <2>3. kind \in Int /\ v \in BitStrings /\ IsValue(v, kind) BY <1>3, <2>1
  <2>4. /\ out[i].bits = out[k].bits \o Output(kind, v)
        /\ out[k].bits \in BitStrings /\ Output(kind, v) \in BitStrings
        /\ (Raw(kind) => Len(out[k].bits) % 8 = 0)
    BY <1>7, <1>11, <2>1, ZenonT(60)
  <2>5. Len(out[k].bits) \in Nat /\ Len(Output(kind, v)) \in Nat
        /\ Len(out[i].bits) = Len(out[k].bits) + Len(Output(kind, v))
    BY <2>4, ConcatProperties, LenProperties DEF BitStrings
  <2>6. p \in Nat /\ (Raw(kind) => p % 8 = 0)
    <3>1. PICK a \in Nat : a = Len(out[k].bits) BY <2>5
    <3>2. 8 * pos + a \in Nat /\ (a % 8 = 0 => (8 * pos + a) % 8 = 0) OBVIOUS
    <3>3. Raw(kind) => a % 8 = 0 BY <2>4, <3>1
    <3>4. p = 8 * pos + a BY <3>1
    <3> HIDE DEF p, kind
    <3> QED BY <3>2, <3>3, <3>4
  <2>7. BitsLie(w, p, Output(kind, v))
    <3>1. BitsLie(w, 8 * pos, out[k].bits \o Output(kind, v)) BY <1>11, <2>1, <2>4
    <3>2. 8 * pos \in Nat OBVIOUS
    <3> QED BY <2>4, <3>1, <3>2, BitsLieConcat DEF BitStrings
  <2> HIDE DEF i, kind, v, p
  <2>8. /\ size = Len(Output(kind, v)) /\ (kind > 100 => p + 16 <= 8 * Len(w))
        /\ v = IF kind < 0 THEN <<>> ELSE Bits(w, p, Len(Output(kind, v)))
    BY <2>3, <2>6, <2>7, FieldBack
  <2>9. in[i] = ReadField(w, in[k], kind)
    BY <1>5, <2>1 DEF kind
  <2>10. in[k].ok /\ in[k].p = p /\ in[k].values = SubSeq(values, 1, k) BY <2>2 DEF Read
  <2>11. Readable(w, in[k], kind) BY <2>6, <2>8, <2>10 DEF Readable
  <2>12. p + size <= 8 * Len(w) BY <2>7, <2>8 DEF BitsLie
  <2>13. in[i] = Read(TRUE, p + size, Append(SubSeq(values, 1, k), v))
    BY <2>8, <2>9, <2>10, <2>11, <2>12 DEF ReadField
  <2>14. p + size = 8 * pos + Len(out[i].bits)
    <3> HIDE DEF size
    <3>1. PICK a \in Nat, b \in Nat : a = Len(out[k].bits) /\ b = Len(Output(kind, v)) BY <2>5
    <3>2. p = 8 * pos + a /\ size = b /\ Len(out[i].bits) = a + b BY <2>5, <2>8, <3>1 DEF p
    <3>3. (8 * pos + a) + b = 8 * pos + (a + b) OBVIOUS
    <3> QED BY <3>2, <3>3
  <2>15. Append(SubSeq(values, 1, k), v) = SubSeq(values, 1, i)
    <3>1. Len(values) = n /\ i \in 1..Len(values) /\ 1 \in 1..Len(values) /\ i \in 1..Len(values) BY <1>1, <1>2, <2>1
    <3>2. SubSeq(values, 1, i) = SubSeq(values, 1, i - 1) \o <<values[i]>>
      BY <1>1, <3>1, SubSeqRecursiveSecond
    <3>3. SubSeq(values, 1, k) \in Seq(BitStrings)
      <4>1. \A j \in 1..k : values[j] \in BitStrings BY <1>2, <1>3, <2>1
      <4>2. k \in Int /\ 1 \in Int OBVIOUS
      <4> QED BY <4>1, <4>2, SubSeqProperties
    <3>4. Append(SubSeq(values, 1, k), v) = SubSeq(values, 1, k) \o <<v>> BY <2>3, <3>3, AppendIsConcat
    <3> QED BY <2>1, <3>2, <3>4 DEF v
  <2> QED BY <2>13, <2>14, <2>15 DEF i
<1>14. Nat \subseteq M
  <2> HIDE DEF M
  <2> QED BY <1>12, <1>13, InductNat
<1>15. in[n] = Read(TRUE, 8 * pos + Len(out[n].bits), SubSeq(values, 1, n))
  <2>1. \A k \in Nat : k <= n => in[k] = Read(TRUE, 8 * pos + Len(out[k].bits), SubSeq(values, 1, k))
    BY <1>14
  <2>2. n <= n BY <1>2
  <2> QED BY <1>2, <2>1, <2>2
<1>16. SubSeq(values, 1, n) = values BY <1>1, SubSeqFull
<1> QED BY <1>6, <1>15, <1>16 DEF n, out, in

\* One field read: its value is one that can be written, to as many bits.
ReadOn(w, r, kind, s) ==
    /\ r.ok /\ (Raw(kind) => r.p % 8 = 0)
    /\ s.p \in Nat /\ s.p <= 8 * Len(w)
    /\ \E v \in BitStrings : /\ s.values = Append(r.values, v) /\ IsValue(v, kind)
                             /\ s.p = r.p + Len(Output(kind, v))

LEMMA FieldRead ==
    ASSUME NEW w \in Seq(Byte), NEW r \in Inputs, NEW kind \in Int, r.p <= 8 * Len(w),
           NEW s, s = ReadField(w, r, kind)
    PROVE  s.ok => ReadOn(w, r, kind, s)
<1> DEFINE size == FieldSize(w, r.p, kind)
           v == IF kind < 0 THEN <<>> ELSE Bits(w, r.p, size)
<1> SUFFICES ASSUME s.ok
             PROVE  /\ r.ok /\ (Raw(kind) => r.p % 8 = 0)
                    /\ s.p \in Nat /\ s.p <= 8 * Len(w)
                    /\ v \in BitStrings /\ s.values = Append(r.values, v) /\ IsValue(v, kind)
                    /\ s.p = r.p + Len(Output(kind, v))
  BY DEF ReadOn
<1>0. r.p \in Nat /\ Len(w) \in Nat BY LenProperties DEF Inputs
<1>1. Readable(w, r, kind) /\ r.p + size <= 8 * Len(w)
  <2>1. ~Read(FALSE, r.p, r.values).ok BY DEF Read
  <2> QED BY <2>1 DEF ReadField
<1>2. s = Read(TRUE, r.p + size, Append(r.values, v)) BY <1>1 DEF ReadField
<1>3. s.p = r.p + size /\ s.values = Append(r.values, v) BY <1>2 DEF Read
<1>4. r.ok /\ (Raw(kind) => r.p % 8 = 0) /\ (kind > 100 => r.p % 8 = 0 /\ r.p + 16 <= 8 * Len(w))
  BY <1>1 DEF Readable, Raw
<1>5. /\ size \in Nat /\ (kind < 0 => size = -kind) /\ (kind \in 0..100 => size = kind)
      /\ (kind > 100 => size >= 16)
  BY <1>0, <1>4, FieldSizeType
<1>6. v \in BitStrings BY <1>0, <1>1, <1>5, BitsType, EmptySeq DEF BitStrings
<1>7. Len(Output(kind, v)) = size /\ IsValue(v, kind)
  <2>1. CASE kind < 0
    <3>1. Len(Output(kind, v)) = -kind BY <1>6, <2>1, OutputType
    <3>2. IsValue(v, kind) BY <1>6, <2>1 DEF IsValue, BitStrings
    <3> QED BY <1>5, <2>1, <3>1, <3>2
  <2>2. CASE kind >= 0
    <3>1. v = Bits(w, r.p, size) /\ Output(kind, v) = v BY <2>2 DEF Output
    <3> HIDE DEF size, v
    <3>2. Len(v) = size /\ BitsLie(w, r.p, v) BY <1>0, <1>1, <1>5, <3>1, BitsType
    <3>3. CASE kind \in 0..100
      <4>1. FieldSize(Pack(v), 0, kind) = kind BY <3>3, PlainSize
      <4> QED BY <1>5, <1>6, <2>2, <3>1, <3>2, <3>3, <4>1 DEF IsValue, BitStrings
    <3>4. CASE kind > 100
      <4>1. FieldSize(Pack(v), 0, kind) = size
        BY <1>0, <1>4, <1>5, <1>6, <3>2, <3>4, SameSize DEF size
      <4> QED BY <1>5, <1>6, <2>2, <3>1, <3>2, <3>4, <4>1 DEF IsValue, BitStrings
    <3> QED BY <2>2, <3>3, <3>4
  <2> QED BY <2>1, <2>2
<1> HIDE DEF size, v
<1>8. s.p \in Nat /\ s.p <= 8 * Len(w) BY <1>0, <1>1, <1>3, <1>5
<1> QED BY <1>3, <1>4, <1>6, <1>7, <1>8

\* The fields of a class, read: they can be written again, to as many bits.
LEMMA FieldsRead ==
    ASSUME NEW kinds \in Seq(Int), NEW w \in Seq(Byte), NEW pos \in Nat, pos <= Len(w),
           NEW r, r = Reading(kinds, w, pos)[Len(kinds)], r.ok
    PROVE  /\ AreValues(kinds, r.values) /\ r.p \in Nat /\ 8 * pos <= r.p /\ r.p <= 8 * Len(w)
           /\ Writing(kinds, r.values)[Len(kinds)].ok
           /\ Writing(kinds, r.values)[Len(kinds)].bits \in BitStrings
           /\ 8 * pos + Len(Writing(kinds, r.values)[Len(kinds)].bits) = r.p
<1> DEFINE n == Len(kinds)
           in == Reading(kinds, w, pos)
           values == r.values
           out == Writing(kinds, values)
<1>1. n \in Nat /\ Len(w) \in Nat /\ \A i \in 1..n : kinds[i] \in Int BY LenProperties, ElementOfSeq
<1>2. /\ in \in [0..n -> Inputs] /\ in[0] = Read(TRUE, 8 * pos, <<>>)
      /\ \A i \in 1..n : in[i] = ReadField(w, in[i - 1], kinds[i])
  BY ReadingIs
<1>3. r = in[n] OBVIOUS
<1> HIDE DEF n, in
<1> DEFINE N == {k \in Nat : k <= n => in[n - k].ok}
<1>4. 0 \in N BY <1>1, <1>3
<1>5. ASSUME NEW k \in Nat, k \in N PROVE k + 1 \in N
  <2> SUFFICES ASSUME k + 1 <= n PROVE in[n - (k + 1)].ok
    OBVIOUS
  <2>1. PICK i \in 1..n : i = n - k /\ i - 1 = n - (k + 1) /\ k <= n BY <1>1
  <2>2. in[i].ok BY <1>5, <2>1
  <2>3. in[i] = ReadField(w, in[i - 1], kinds[i]) BY <1>2
  <2>4. ~in[i - 1].ok => in[i].ok = FALSE BY <2>3 DEF ReadField, Readable, Read
  <2> QED BY <2>1, <2>2, <2>4
<1>6. Nat \subseteq N
  <2> HIDE DEF N
  <2> QED BY <1>4, <1>5, InductNat
<1>7. ASSUME NEW i \in 0..n PROVE in[i].ok
  <2>1. n - i \in Nat /\ n - i <= n /\ n - (n - i) = i BY <1>1
  <2>2. n - i \in N BY <1>6, <2>1
  <2> QED BY <2>1, <2>2
<1> DEFINE Fine(k) == /\ in[k].p <= 8 * Len(w) /\ 8 * pos <= in[k].p /\ Len(in[k].values) = k
                      /\ \A j \in 1..k : in[k].values[j] = in[j].values[j]
           M == {k \in Nat : k <= n => Fine(k)}
<1>8. 0 \in M
  <2>1. in[0].p = 8 * pos /\ in[0].values = <<>> BY <1>2 DEF Read
  <2>2. Len(<<>>) = 0 /\ 1..0 = {} OBVIOUS
  <2>3. 8 * pos <= 8 * Len(w) BY <1>1
  <2>4. Fine(0) BY <2>1, <2>2, <2>3
  <2> HIDE DEF Fine
  <2> QED BY <2>4
<1>9. ASSUME NEW i \in 1..n, in[i - 1].p <= 8 * Len(w)
      PROVE  /\ (Raw(kinds[i]) => in[i - 1].p % 8 = 0) /\ in[i].p \in Nat /\ in[i].p <= 8 * Len(w)
             /\ \E v \in BitStrings : /\ in[i].values = Append(in[i - 1].values, v) /\ IsValue(v, kinds[i])
                                      /\ in[i].p = in[i - 1].p + Len(Output(kinds[i], v))
  <2>1. in[i] = ReadField(w, in[i - 1], kinds[i]) /\ kinds[i] \in Int BY <1>1, <1>2
  <2>2. i - 1 \in 0..n /\ i \in 0..n BY <1>1
  <2>3. in[i - 1] \in Inputs BY <1>2, <2>2
  <2>4. in[i].ok BY <1>7, <2>2
  <2>5. ReadOn(w, in[i - 1], kinds[i], in[i])
    BY <1>9, <2>1, <2>3, <2>4, FieldRead
  <2> QED BY <2>5, Zenon DEF ReadOn
<1>10. ASSUME NEW k \in Nat, k \in M PROVE k + 1 \in M
  <2> SUFFICES ASSUME k + 1 <= n PROVE Fine(k + 1)
    <3> HIDE DEF Fine
    <3> QED  OBVIOUS
  <2>1. PICK i \in 1..n : i = k + 1 /\ i - 1 = k /\ k <= n /\ k \in 0..n /\ i \in 0..n BY <1>1
  <2>2. Fine(k)
    <3> HIDE DEF Fine
    <3> QED BY <1>10, <2>1
  <2>3. PICK v \in BitStrings : /\ in[i].values = Append(in[k].values, v) /\ IsValue(v, kinds[i])
                                /\ in[i].p = in[k].p + Len(Output(kinds[i], v))
    BY <1>9, <2>1, <2>2
  <2>4. in[i].p <= 8 * Len(w) BY <1>9, <2>1, <2>2
  <2>5. in[k].values \in Seq(BitStrings) /\ in[k].p \in Nat BY <1>2, <2>1 DEF Inputs
  <2>6. /\ Len(in[i].values) = k + 1 /\ in[i].values[k + 1] = in[i].values[i]
        /\ \A j \in 1..k : in[i].values[j] = in[k].values[j]
    <3>1. Len(in[k].values) = k BY <2>2
    <3>2. /\ Len(Append(in[k].values, v)) = k + 1
          /\ \A j \in 1..k : Append(in[k].values, v)[j] = in[k].values[j]
      BY <2>5, <3>1, AppendProperties
    <3> HIDE DEF Fine
    <3> QED BY <2>1, <2>3, <3>2
  <2>7. Len(Output(kinds[i], v)) \in Nat BY <1>1, OutputType, LenProperties DEF BitStrings
  <2>8. 8 * pos <= in[i].p
    <3>1. PICK a \in Nat, b \in Nat : a = in[k].p /\ b = Len(Output(kinds[i], v)) BY <2>5, <2>7
    <3> QED BY <2>2, <2>3, <3>1
  <2>9. \A j \in 1..(k + 1) : in[k + 1].values[j] = in[j].values[j]
    <3>1. \A j \in 1..(k + 1) : j \in 1..k \/ j = k + 1 OBVIOUS
    <3> QED BY <2>1, <2>2, <2>6, <3>1
  <2> QED BY <2>1, <2>4, <2>6, <2>8, <2>9
<1>11. Nat \subseteq M
  <2> HIDE DEF M
  <2> QED BY <1>8, <1>10, InductNat
<1>12. ASSUME NEW k \in 0..n PROVE Fine(k)
  <2>1. k \in Nat /\ k <= n BY <1>1
  <2> HIDE DEF Fine
  <2> QED BY <1>11, <2>1
<1>13. Fine(n) /\ n \in 0..n /\ in[n] \in Inputs
  <2>1. n \in 0..n BY <1>1
  <2> HIDE DEF Fine
  <2> QED BY <1>2, <1>12, <2>1
<1>14. values \in Seq(BitStrings) /\ Len(values) = n /\ \A j \in 1..n : values[j] = in[j].values[j]
  BY <1>3, <1>13 DEF Inputs
<1>15. ASSUME NEW i \in 1..n
       PROVE  /\ values[i] \in BitStrings /\ IsValue(values[i], kinds[i])
              /\ (Raw(kinds[i]) => in[i - 1].p % 8 = 0)
              /\ in[i].p = in[i - 1].p + Len(Output(kinds[i], values[i]))
  <2>1. i - 1 \in 0..n BY <1>1
  <2>2. Fine(i - 1) BY <1>12, <2>1
  <2>3. (Raw(kinds[i]) => in[i - 1].p % 8 = 0) BY <1>9, <2>2
  <2>4. PICK v \in BitStrings : /\ in[i].values = Append(in[i - 1].values, v) /\ IsValue(v, kinds[i])
                                /\ in[i].p = in[i - 1].p + Len(Output(kinds[i], v))
    BY <1>9, <2>2
  <2>5. in[i - 1].values \in Seq(BitStrings) /\ Len(in[i - 1].values) = i - 1 BY <1>2, <2>1, <2>2 DEF Inputs
  <2>6. in[i].values[(i - 1) + 1] = v BY <2>4, <2>5, AppendProperties
  <2>7. (i - 1) + 1 = i OBVIOUS
  <2>8. values[i] = v BY <1>14, <2>6, <2>7
  <2> QED BY <2>3, <2>4, <2>8
<1>16. AreValues(kinds, values) BY <1>14, <1>15 DEF AreValues, n
<1>17. /\ out \in [0..n -> Outputs] /\ out[0] = Written(TRUE, <<>>)
       /\ \A i \in 1..n : out[i] = WriteField(out[i - 1], kinds[i], values[i])
  BY <1>14, WritingIs DEF n
<1> HIDE DEF out, values
<1> DEFINE Same(k) == out[k].ok /\ 8 * pos + Len(out[k].bits) = in[k].p
           L == {k \in Nat : k <= n => Same(k)}
<1>18. 0 \in L
  <2>1. in[0].p = 8 * pos /\ out[0].ok /\ out[0].bits = <<>> BY <1>2, <1>17 DEF Read, Written
  <2>2. Len(<<>>) = 0 /\ 8 * pos + 0 = 8 * pos OBVIOUS
  <2>3. Same(0) BY <2>1, <2>2
  <2> HIDE DEF Same
  <2> QED BY <2>3
<1>19. ASSUME NEW k \in Nat, k \in L PROVE k + 1 \in L
  <2> SUFFICES ASSUME k + 1 <= n PROVE Same(k + 1)
    <3> HIDE DEF Same
    <3> QED  OBVIOUS
  <2>1. PICK i \in 1..n : i = k + 1 /\ i - 1 = k /\ k <= n /\ k \in 0..n BY <1>1
  <2>2. Same(k)
    <3> HIDE DEF Same
    <3> QED BY <1>19, <2>1
  <2>3. out[k] \in Outputs /\ kinds[i] \in Int /\ values[i] \in BitStrings /\ out[i] = WriteField(out[k], kinds[i], values[i])
    BY <1>1, <1>15, <1>17, <2>1
  <2>4. /\ out[i].ok = (out[k].ok /\ (Raw(kinds[i]) => Len(out[k].bits) % 8 = 0))
        /\ out[i].bits = out[k].bits \o Output(kinds[i], values[i]) /\ out[k].bits \in BitStrings
        /\ Output(kinds[i], values[i]) \in BitStrings
    <3>1. /\ WriteField(out[k], kinds[i], values[i]).ok
               = (out[k].ok /\ (Raw(kinds[i]) => Len(out[k].bits) % 8 = 0))
          /\ WriteField(out[k], kinds[i], values[i]).bits = out[k].bits \o Output(kinds[i], values[i])
          /\ out[k].bits \in BitStrings
      BY <2>3, WriteFieldIs
    <3>2. Output(kinds[i], values[i]) \in BitStrings BY <2>3, OutputType
    <3> QED BY <2>3, <3>1, <3>2
  <2>5. PICK a \in Nat, b \in Nat : a = Len(out[k].bits) /\ b = Len(Output(kinds[i], values[i]))
    BY <2>4, LenProperties DEF BitStrings
  <2>6. Len(out[i].bits) = a + b BY <2>4, <2>5, ConcatProperties DEF BitStrings
  <2>7. in[k].p = 8 * pos + a /\ in[i].p = in[k].p + b /\ (Raw(kinds[i]) => in[k].p % 8 = 0)
    BY <1>15, <2>1, <2>2, <2>5
  <2>8. Raw(kinds[i]) => a % 8 = 0
    <3>1. (8 * pos + a) % 8 = a % 8 OBVIOUS
    <3> QED BY <2>7, <3>1
  <2>9. (8 * pos + a) + b = 8 * pos + (a + b) OBVIOUS
  <2>10. out[i].ok BY <2>2, <2>4, <2>5, <2>8
  <2>11. 8 * pos + Len(out[i].bits) = in[i].p BY <2>6, <2>7, <2>9
  <2> QED BY <2>1, <2>10, <2>11
<1>20. Nat \subseteq L
  <2> HIDE DEF L
  <2> QED BY <1>18, <1>19, InductNat
<1>21. Same(n) /\ out[n] \in Outputs
  <2>1. n <= n /\ n \in 0..n BY <1>1
  <2> HIDE DEF Same
  <2> QED BY <1>1, <1>17, <1>20, <2>1
<1> QED BY <1>3, <1>13, <1>16, <1>21 DEF values, out, n, Inputs, Outputs

(* Binding sub-parameters to slots. *)

Bounds(c, V) == {b \in [slots : Seq(Seq(V)), extra : Seq(V)] : Len(b.slots) = Len(SlotsOf(c))}

Unbound(c) == Bound([i \in 1..Len(SlotsOf(c)) |-> <<>>], <<>>)

LEMMA SlotsType ==
    ASSUME NEW c \in DOMAIN Classes
    PROVE  /\ Len(SlotsOf(c)) \in Nat /\ DOMAIN SlotsOf(c) = 1..Len(SlotsOf(c))
           /\ \A i \in 1..Len(SlotsOf(c)) : SlotsOf(c)[i].list \in BOOLEAN /\ SlotsOf(c)[i].min \in Nat
<1> DEFINE T == [types : SUBSET (DOMAIN Classes \cup {"CustomParameter"}), min : Nat, list : BOOLEAN]
<1>1. IsClass(c) BY SchemaAssumption DEF WellDefined
<1>2. SlotsOf(c) \in Seq(T) BY <1>1 DEF IsClass
<1> HIDE DEF T
<1>3. \A i \in 1..Len(SlotsOf(c)) : SlotsOf(c)[i] \in T BY <1>2, ElementOfSeq
<1>4. Len(SlotsOf(c)) \in Nat /\ DOMAIN SlotsOf(c) = 1..Len(SlotsOf(c)) BY <1>2, LenProperties
<1> QED BY <1>3, <1>4 DEF T

LEMMA BoundsType ==
    ASSUME NEW c \in DOMAIN Classes, NEW V, NEW b \in Bounds(c, V)
    PROVE  /\ b.slots \in Seq(Seq(V)) /\ b.extra \in Seq(V) /\ Len(b.slots) = Len(SlotsOf(c))
           /\ DOMAIN b.slots = 1..Len(SlotsOf(c)) /\ b = Bound(b.slots, b.extra)
           /\ \A i \in 1..Len(SlotsOf(c)) : b.slots[i] \in Seq(V)
<1>1. b \in [slots : Seq(Seq(V)), extra : Seq(V)] /\ Len(b.slots) = Len(SlotsOf(c)) BY DEF Bounds
<1>2. b.slots \in Seq(Seq(V)) BY <1>1
<1> QED BY <1>1, <1>2, LenProperties, ElementOfSeq DEF Bound

\* The first slot with room.
LEMMA FirstRoom ==
    ASSUME NEW c \in DOMAIN Classes, NEW V, NEW b \in Bounds(c, V), NEW x, Room(c, b, x) # {}
    PROVE  /\ Min(Room(c, b, x)) \in Room(c, b, x) /\ Min(Room(c, b, x)) \in 1..Len(SlotsOf(c))
           /\ \A i \in Room(c, b, x) : Min(Room(c, b, x)) <= i
<1> DEFINE R == Room(c, b, x)
<1>1. R \subseteq 1..Len(SlotsOf(c)) BY BoundsType DEF Room
<1>2. Len(SlotsOf(c)) \in Nat BY SlotsType
<1>3. R \in SUBSET Nat BY <1>1, <1>2
<1> HIDE DEF R
<1>4. \E n \in R : \A m \in R : n <= m BY <1>3, LeastNat DEF R
<1>5. Min(R) \in R /\ \A m \in R : Min(R) <= m BY <1>4 DEF Min
<1> QED BY <1>1, <1>5 DEF R

LEMMA BindType ==
    ASSUME NEW c \in DOMAIN Classes, NEW V, NEW b \in Bounds(c, V), NEW x \in V
    PROVE  Bind(c, b, x) \in Bounds(c, V)
<1>1. CASE Room(c, b, x) = {}
  <2>1. Bind(c, b, x) = Bound(b.slots, Append(b.extra, x)) BY <1>1 DEF Bind, Keep
  <2>2. Append(b.extra, x) \in Seq(V) BY BoundsType, AppendProperties
  <2> QED BY <2>1, <2>2, BoundsType DEF Bound, Bounds
<1>2. CASE Room(c, b, x) # {}
  <2>1. PICK i \in 1..Len(SlotsOf(c)) : i = Min(Room(c, b, x)) BY <1>2, FirstRoom
  <2> DEFINE slots == [b.slots EXCEPT ![i] = Append(@, x)]
  <2>2. Bind(c, b, x) = Bound(slots, b.extra) BY <1>2, <2>1 DEF Bind
  <2>3. b.slots \in Seq(Seq(V)) /\ i \in 1..Len(b.slots) /\ b.slots[i] \in Seq(V) /\ b.extra \in Seq(V)
        /\ Len(b.slots) = Len(SlotsOf(c))
    BY <2>1, BoundsType
  <2>4. Append(b.slots[i], x) \in Seq(V) BY <2>3, AppendProperties
  <2>5. slots = [b.slots EXCEPT ![i] = Append(b.slots[i], x)] OBVIOUS
  <2>6. slots \in Seq(Seq(V)) /\ Len(slots) = Len(b.slots) BY <2>3, <2>4, <2>5, ExceptSeq
  <2> HIDE DEF slots
  <2> QED BY <2>2, <2>3, <2>6 DEF Bound, Bounds
<1> QED BY <1>1, <1>2

LEMMA UnboundType == ASSUME NEW c \in DOMAIN Classes, NEW V PROVE Unbound(c) \in Bounds(c, V)
<1> DEFINE e == [i \in 1..Len(SlotsOf(c)) |-> <<>>]
<1>1. Len(SlotsOf(c)) \in Nat BY SlotsType
<1>2. <<>> \in Seq(V) BY EmptySeq
<1>3. e \in [1..Len(SlotsOf(c)) -> Seq(V)] BY <1>2
<1>4. e \in Seq(Seq(V)) /\ Len(e) = Len(SlotsOf(c)) BY <1>1, <1>3
<1> HIDE DEF e
<1> QED BY <1>2, <1>4 DEF Unbound, Bound, Bounds, e

\* Parameters are bound one after the other.
LEMMA BindingIs ==
    ASSUME NEW c \in DOMAIN Classes, NEW V, NEW params \in Seq(V)
    PROVE  /\ Binding(c, params)[0] = Unbound(c)
           /\ \A i \in 1..Len(params) : Binding(c, params)[i] = Bind(c, Binding(c, params)[i - 1], params[i])
           /\ \A i \in 0..Len(params) : Binding(c, params)[i] \in Bounds(c, V)
<1> DEFINE n == Len(params)
           F == [i \in 1..n |-> [b \in Bounds(c, V) |-> Bind(c, b, params[i])]]
           is(f) == f = [i \in 0..n |-> IF i = 0 THEN Unbound(c) ELSE Bind(c, f[i - 1], params[i])]
           bound == CHOOSE f : is(f)
<1>0. n \in Nat /\ \A i \in 1..n : params[i] \in V /\ i - 1 \in 0..n /\ i \in 0..n /\ i # 0
  BY LenProperties, ElementOfSeq
<1>1. Unbound(c) \in Bounds(c, V) BY UnboundType
<1>2. IsIteration(n, Bounds(c, V), F) BY <1>0, BindType DEF IsIteration
<1>3. PICK g : Iterates(n, Bounds(c, V), F, Unbound(c), g)
  <2> HIDE DEF F, n
  <2> QED BY <1>0, <1>1, <1>2, Iterated
<1>4. \A i \in 1..n : g[i - 1] \in Bounds(c, V) /\ g[i] = Bind(c, g[i - 1], params[i])
  BY <1>0, <1>3 DEF Iterates
<1>5. g \in [0..n -> Bounds(c, V)] /\ g[0] = Unbound(c) BY <1>3 DEF Iterates
<1>6. is(g)
  <2> HIDE DEF n
  <2>1. \A i \in 0..n : i # 0 => i \in 1..n BY <1>0
  <2>2. \A i \in 0..n : g[i] = IF i = 0 THEN Unbound(c) ELSE Bind(c, g[i - 1], params[i])
    BY <1>4, <1>5, <2>1
  <2> QED BY <1>5, <2>2
<1>7. is(bound) BY <1>6
<1>8. bound = Binding(c, params) BY DEF Binding, Unbound
<1> HIDE DEF bound
<1>9. bound[0] = Unbound(c) /\ \A i \in 1..n : bound[i] = Bind(c, bound[i - 1], params[i])
  <2> HIDE DEF n
  <2>1. 0 \in 0..n BY <1>0
  <2>2. bound[0] = Unbound(c) BY <1>7, <2>1
  <2>3. \A i \in 1..n : bound[i] = Bind(c, bound[i - 1], params[i]) BY <1>0, <1>7
  <2> QED BY <2>2, <2>3
<1>10. \A i \in 1..n : bound[i - 1] \in Bounds(c, V) => bound[i] = F[i][bound[i - 1]] BY <1>9
<1>11. \A i \in 0..n : bound[i] \in Bounds(c, V)
  <2> HIDE DEF F, n
  <2> QED BY <1>0, <1>1, <1>2, <1>9, <1>10, OneIteration
<1> QED BY <1>8, <1>9, <1>11

LEMMA BindParamsType ==
    ASSUME NEW c \in DOMAIN Classes, NEW V, NEW params \in Seq(V)
    PROVE  BindParams(c, params) \in Bounds(c, V)
<1>1. Len(params) \in 0..Len(params) BY LenProperties
<1> QED BY <1>1, BindingIs DEF BindParams

LEMMA BindEmpty == ASSUME NEW c \in DOMAIN Classes PROVE BindParams(c, <<>>) = Unbound(c)
<1>1. <<>> \in Seq({}) /\ Len(<<>>) = 0 BY EmptySeq
<1> QED BY <1>1, BindingIs DEF BindParams

LEMMA BindAppend ==
    ASSUME NEW c \in DOMAIN Classes, NEW V, NEW params \in Seq(V), NEW x \in V
    PROVE  BindParams(c, Append(params, x)) = Bind(c, BindParams(c, params), x)
<1> DEFINE longer == Append(params, x)
           n == Len(params)
           f == Binding(c, longer)
           g == Binding(c, params)
<1>1. /\ longer \in Seq(V) /\ Len(longer) = n + 1 /\ n \in Nat /\ longer[n + 1] = x
      /\ \A i \in 1..n : longer[i] = params[i]
  BY AppendProperties, LenProperties
<1>2. g[0] = Unbound(c) /\ \A i \in 1..n : g[i] = Bind(c, g[i - 1], params[i]) BY BindingIs
<1> HIDE DEF longer
<1>3. f[0] = Unbound(c) /\ \A i \in 1..Len(longer) : f[i] = Bind(c, f[i - 1], longer[i]) BY <1>1, BindingIs
<1> HIDE DEF n, f, g
<1>4. \A i \in 1..(n + 1) : f[i] = Bind(c, f[i - 1], longer[i]) BY <1>1, <1>3
<1> DEFINE N == {k \in Nat : k <= n => f[k] = g[k]}
<1>5. 0 \in N BY <1>2, <1>3
<1>6. ASSUME NEW k \in Nat, k \in N PROVE k + 1 \in N
  <2> SUFFICES ASSUME k + 1 <= n PROVE f[k + 1] = g[k + 1]
    OBVIOUS
  <2>1. PICK i \in 1..n : i = k + 1 /\ i - 1 = k /\ k <= n /\ i \in 1..(n + 1) BY <1>1
  <2>2. f[i] = Bind(c, f[i - 1], longer[i]) /\ g[i] = Bind(c, g[i - 1], params[i]) BY <1>2, <1>4, <2>1
  <2>3. f[k] = g[k] BY <1>6, <2>1
  <2> QED BY <1>1, <2>1, <2>2, <2>3
<1>7. Nat \subseteq N
  <2> HIDE DEF N
  <2> QED BY <1>5, <1>6, InductNat
<1>8. f[n] = g[n]
  <2>1. n <= n BY <1>1
  <2> QED BY <1>1, <1>7, <2>1
<1>9. f[n + 1] = Bind(c, f[n], x)
  <2>1. PICK i \in 1..(n + 1) : i = n + 1 /\ i - 1 = n BY <1>1
  <2>2. f[i] = Bind(c, f[i - 1], longer[i]) BY <1>4
  <2> QED BY <1>1, <2>1, <2>2
<1> QED BY <1>1, <1>8, <1>9 DEF BindParams, n, f, g, longer

Taken(c, slots, i, x) == IsInstance(x, SlotsOf(c)[i].types) => ~SlotsOf(c)[i].list /\ slots[i] # <<>>

\* IsPlaced, slot by slot.
LEMMA PlacedIs ==
    ASSUME NEW c \in DOMAIN Classes, NEW V, NEW b \in Bounds(c, V)
    PROVE  IsPlaced(c, b.slots, b.extra) <=>
              /\ \A i \in 1..Len(SlotsOf(c)) : SlotsOf(c)[i].list \/ Len(b.slots[i]) <= 1
              /\ \A i \in 1..Len(SlotsOf(c)) : \A k \in 1..Len(b.slots[i]) :
                    /\ IsInstance(b.slots[i][k], SlotsOf(c)[i].types)
                    /\ \A j \in 1..(i - 1) : Taken(c, b.slots, j, b.slots[i][k])
              /\ \A k \in 1..Len(b.extra), i \in 1..Len(SlotsOf(c)) : Taken(c, b.slots, i, b.extra[k])
<1>1. /\ DOMAIN b.slots = 1..Len(SlotsOf(c)) /\ Len(b.slots) = Len(SlotsOf(c))
      /\ \A i \in 1..Len(SlotsOf(c)) : b.slots[i] \in Seq(V)
      /\ b.extra \in Seq(V)
  BY BoundsType
<1>2. /\ \A i \in 1..Len(SlotsOf(c)) : DOMAIN b.slots[i] = 1..Len(b.slots[i])
      /\ DOMAIN b.extra = 1..Len(b.extra)
  BY <1>1, LenProperties
<1>3. /\ \A i \in 1..Len(SlotsOf(c)) : ToSet(b.slots[i]) = {b.slots[i][k] : k \in 1..Len(b.slots[i])}
      /\ ToSet(b.extra) = {b.extra[k] : k \in 1..Len(b.extra)}
  BY <1>2 DEF ToSet
<1> DEFINE full(i, x) == IsInstance(x, SlotsOf(c)[i].types) => ~SlotsOf(c)[i].list /\ b.slots[i] # <<>>
<1>4. IsPlaced(c, b.slots, b.extra) <=>
              /\ \A i \in 1..Len(SlotsOf(c)) :
                    /\ SlotsOf(c)[i].list \/ Len(b.slots[i]) <= 1
                    /\ \A x \in ToSet(b.slots[i]) : /\ IsInstance(x, SlotsOf(c)[i].types)
                                                    /\ \A j \in 1..(i - 1) : full(j, x)
              /\ \A x \in ToSet(b.extra), i \in 1..Len(SlotsOf(c)) : full(i, x)
  BY <1>1 DEF IsPlaced
<1>5. \A i, x : full(i, x) <=> Taken(c, b.slots, i, x) BY DEF Taken
<1> HIDE DEF full
<1>6. ASSUME NEW i \in 1..Len(SlotsOf(c))
      PROVE  (\A x \in ToSet(b.slots[i]) : /\ IsInstance(x, SlotsOf(c)[i].types)
                                            /\ \A j \in 1..(i - 1) : full(j, x))
             <=> \A k \in 1..Len(b.slots[i]) :
                    /\ IsInstance(b.slots[i][k], SlotsOf(c)[i].types)
                    /\ \A j \in 1..(i - 1) : Taken(c, b.slots, j, b.slots[i][k])
  <2> DEFINE Holds(x) == IsInstance(x, SlotsOf(c)[i].types) /\ \A j \in 1..(i - 1) : Taken(c, b.slots, j, x)
  <2>1. \A x : (IsInstance(x, SlotsOf(c)[i].types) /\ \A j \in 1..(i - 1) : full(j, x)) <=> Holds(x)
    BY <1>5
  <2>2. (\A x \in ToSet(b.slots[i]) : Holds(x)) <=> \A k \in 1..Len(b.slots[i]) : Holds(b.slots[i][k])
    <3> HIDE DEF Holds
    <3> QED BY <1>3
  <2> QED BY <2>1, <2>2
<1>7. (\A x \in ToSet(b.extra), i \in 1..Len(SlotsOf(c)) : full(i, x))
      <=> \A k \in 1..Len(b.extra), i \in 1..Len(SlotsOf(c)) : Taken(c, b.slots, i, b.extra[k])
  BY <1>3, <1>5
<1> QED BY <1>4, <1>6, <1>7

\* Binding one more parameter keeps every one in its place, ...
LEMMA BindPlaced ==
    ASSUME NEW c \in DOMAIN Classes, NEW V, NEW b \in Bounds(c, V), NEW x \in V,
           IsPlaced(c, b.slots, b.extra), NEW d, d = Bind(c, b, x)
    PROVE  IsPlaced(c, d.slots, d.extra)
<1> DEFINE L == Len(SlotsOf(c))
           S(i) == SlotsOf(c)[i]
<1>1. /\ b.slots \in Seq(Seq(V)) /\ b.extra \in Seq(V) /\ DOMAIN b.slots = 1..L
      /\ \A i \in 1..L : b.slots[i] \in Seq(V)
  BY BoundsType
<1>2. d \in Bounds(c, V) BY BindType
<1>3. L \in Nat /\ \A i \in 1..L : S(i).list \in BOOLEAN BY SlotsType
<1>4. /\ \A i \in 1..L : S(i).list \/ Len(b.slots[i]) <= 1
      /\ \A i \in 1..L : \A k \in 1..Len(b.slots[i]) :
            /\ IsInstance(b.slots[i][k], S(i).types)
            /\ \A j \in 1..(i - 1) : Taken(c, b.slots, j, b.slots[i][k])
      /\ \A k \in 1..Len(b.extra), i \in 1..L : Taken(c, b.slots, i, b.extra[k])
  BY PlacedIs
<1>5. Room(c, b, x) = {i \in 1..L : IsInstance(x, S(i).types) /\ (S(i).list \/ b.slots[i] = <<>>)}
  BY <1>1 DEF Room
<1>6. \A i \in 1..L : i \notin Room(c, b, x) => Taken(c, b.slots, i, x) BY <1>3, <1>5 DEF Taken
<1> HIDE DEF L, S
<1>7. CASE Room(c, b, x) = {}
  <2>1. d = Bound(b.slots, Append(b.extra, x)) BY <1>7 DEF Bind, Keep
  <2>2. d.slots = b.slots /\ d.extra = Append(b.extra, x) BY <2>1 DEF Bound
  <2>3. Len(b.extra) \in Nat /\ Len(d.extra) = Len(b.extra) + 1 /\ d.extra[Len(b.extra) + 1] = x
        /\ \A k \in 1..Len(b.extra) : d.extra[k] = b.extra[k]
    BY <1>1, <2>2, AppendProperties, LenProperties
  <2>4. \A k \in 1..Len(d.extra), i \in 1..L : Taken(c, d.slots, i, d.extra[k])
    <3> SUFFICES ASSUME NEW k \in 1..Len(d.extra), NEW i \in 1..L PROVE Taken(c, b.slots, i, d.extra[k])
      BY <2>2
    <3>1. CASE k \in 1..Len(b.extra) BY <1>4, <2>3, <3>1
    <3>2. CASE k = Len(b.extra) + 1 BY <1>6, <1>7, <2>3, <3>2
    <3> QED BY <2>3, <3>1, <3>2
  <2> QED BY <1>2, <1>4, <2>2, <2>4, PlacedIs DEF L, S
<1>8. CASE Room(c, b, x) # {}
  <2>1. PICK m \in 1..L : m = Min(Room(c, b, x)) /\ m \in Room(c, b, x) /\ \A i \in Room(c, b, x) : m <= i
    BY <1>8, FirstRoom DEF L
  <2>2. d = Bound([b.slots EXCEPT ![m] = Append(@, x)], b.extra) BY <1>8, <2>1 DEF Bind
  <2>3. d.extra = b.extra /\ d.slots = [b.slots EXCEPT ![m] = Append(b.slots[m], x)] BY <2>2 DEF Bound
  <2>4. /\ d.slots[m] = Append(b.slots[m], x) /\ \A i \in 1..L : i # m => d.slots[i] = b.slots[i]
    BY <1>1, <2>3
  <2>5. /\ Len(b.slots[m]) \in Nat /\ Len(d.slots[m]) = Len(b.slots[m]) + 1
        /\ d.slots[m][Len(b.slots[m]) + 1] = x /\ d.slots[m] # <<>>
        /\ \A k \in 1..Len(b.slots[m]) : d.slots[m][k] = b.slots[m][k]
    <3>1. b.slots[m] \in Seq(V) BY <1>1
    <3>2. PICK t \in Seq(V) : t = b.slots[m] BY <3>1
    <3>3. d.slots[m] = Append(t, x) BY <2>4, <3>2
    <3> QED BY <3>2, <3>3, AppendProperties, LenProperties
  <2>6. ASSUME NEW i \in 1..L, NEW y, Taken(c, b.slots, i, y) PROVE Taken(c, d.slots, i, y)
    BY <2>4, <2>5, <2>6 DEF Taken
  <2>7. ASSUME NEW i \in 1..L PROVE S(i).list \/ Len(d.slots[i]) <= 1
    <3>1. CASE i = m
      <4>1. CASE S(m).list BY <3>1, <4>1
      <4>2. CASE b.slots[m] = <<>>
        <5>1. Len(b.slots[m]) = 0 BY <4>2
        <5>2. Len(d.slots[m]) = 0 + 1 BY <2>5, <5>1
        <5> QED BY <3>1, <5>2
      <4> QED BY <1>5, <2>1, <4>1, <4>2
    <3>2. CASE i # m BY <1>4, <2>4, <3>2
    <3> QED BY <3>1, <3>2
  <2>8. ASSUME NEW i \in 1..L, NEW k \in 1..Len(d.slots[i])
        PROVE  /\ IsInstance(d.slots[i][k], S(i).types)
               /\ \A j \in 1..(i - 1) : Taken(c, d.slots, j, d.slots[i][k])
    <3>1. \A j \in 1..(i - 1) : j \in 1..L BY <1>3
    <3>2. CASE i = m /\ k = Len(b.slots[m]) + 1
      <4>1. d.slots[i][k] = x BY <2>5, <3>2
      <4>2. \A j \in 1..(i - 1) : j \notin Room(c, b, x) BY <1>3, <2>1, <3>2
      <4>3. \A j \in 1..(i - 1) : Taken(c, d.slots, j, x) BY <1>6, <2>6, <3>1, <4>2
      <4>4. IsInstance(x, S(i).types) BY <1>5, <2>1, <3>2
      <4> QED BY <4>1, <4>3, <4>4
    <3>3. CASE ~(i = m /\ k = Len(b.slots[m]) + 1)
      <4>1. k \in 1..Len(b.slots[i]) /\ d.slots[i][k] = b.slots[i][k]
        <5>1. CASE i = m BY <2>5, <3>3, <5>1
        <5>2. CASE i # m BY <2>4, <5>2
        <5> QED BY <5>1, <5>2
      <4> QED BY <1>4, <2>6, <3>1, <4>1
    <3> QED BY <3>2, <3>3
  <2>9. \A k \in 1..Len(d.extra), i \in 1..L : Taken(c, d.slots, i, d.extra[k]) BY <1>4, <2>3, <2>6
  <2> QED BY <1>2, <2>7, <2>8, <2>9, PlacedIs DEF L, S
<1> QED BY <1>7, <1>8

\* ... and so every one is.
LEMMA BindParamsPlaced ==
    ASSUME NEW c \in DOMAIN Classes, NEW V, NEW params \in Seq(V), NEW b, b = BindParams(c, params)
    PROVE  IsPlaced(c, b.slots, b.extra)
<1> DEFINE S == {ps \in Seq(V) : IsPlaced(c, BindParams(c, ps).slots, BindParams(c, ps).extra)}
<1>1. <<>> \in S
  <2> DEFINE e == Unbound(c)
  <2>1. <<>> \in Seq(V) BY EmptySeq
  <2>2. e \in Bounds(c, V) BY UnboundType
  <2>3. e.extra = <<>> /\ \A i \in 1..Len(SlotsOf(c)) : e.slots[i] = <<>> BY DEF Unbound, Bound
  <2> HIDE DEF e
  <2>4. Len(<<>>) = 0 /\ 1..0 = {} /\ 0 <= 1 OBVIOUS
  <2>5. IsPlaced(c, e.slots, e.extra) BY <2>2, <2>3, <2>4, PlacedIs
  <2>6. BindParams(c, <<>>) = e BY BindEmpty DEF e
  <2> QED BY <2>1, <2>5, <2>6
<1>2. ASSUME NEW ps \in Seq(V), ps \in S, NEW x \in V PROVE Append(ps, x) \in S
  <2>1. Append(ps, x) \in Seq(V) BY AppendProperties
  <2>2. PICK d : d = BindParams(c, ps) OBVIOUS
  <2>3. d \in Bounds(c, V) BY <2>2, BindParamsType
  <2>4. PICK f : f = BindParams(c, Append(ps, x)) OBVIOUS
  <2>5. f = Bind(c, d, x) BY <2>2, <2>4, BindAppend
  <2>6. IsPlaced(c, d.slots, d.extra) BY <1>2, <2>2
  <2>7. IsPlaced(c, f.slots, f.extra) BY <2>3, <2>5, <2>6, BindPlaced
  <2> QED BY <2>1, <2>4, <2>7
<1>3. Seq(V) \subseteq S
  <2> HIDE DEF S
  <2> QED BY <1>1, <1>2, InductSeq
<1> QED BY <1>3

LEMMA PrefixStep ==
    ASSUME NEW V, NEW t \in Seq(V), NEW j \in Nat, j + 1 <= Len(t)
    PROVE  /\ SubSeq(t, 1, j) \in Seq(V) /\ Len(SubSeq(t, 1, j)) = j /\ t[j + 1] \in V
           /\ SubSeq(t, 1, j + 1) = Append(SubSeq(t, 1, j), t[j + 1])
<1>1. Len(t) \in Nat /\ \A i \in 1..Len(t) : t[i] \in V BY LenProperties, ElementOfSeq
<1>2. j + 1 \in 1..Len(t) /\ 1 \in 1..Len(t) /\ j + 1 \in 1..Len(t) /\ (j + 1) - 1 = j BY <1>1
<1>3. SubSeq(t, 1, j) \in Seq(V) /\ Len(SubSeq(t, 1, j)) = IF 1 <= j THEN j - 1 + 1 ELSE 0
  <2>1. \A i \in 1..j : t[i] \in V BY <1>1
  <2>2. 1 \in Int /\ j \in Int OBVIOUS
  <2> QED BY <2>1, <2>2, SubSeqProperties
<1>4. PICK i \in 1..Len(t) : i = j + 1 /\ i - 1 = j BY <1>2
<1>5. SubSeq(t, 1, i) = SubSeq(t, 1, i - 1) \o <<t[i]>> BY <1>2, <1>4, SubSeqRecursiveSecond
<1>6. t[i] \in V BY <1>1
<1>7. Append(SubSeq(t, 1, j), t[i]) = SubSeq(t, 1, j) \o <<t[i]>> BY <1>3, <1>6, AppendIsConcat
<1>8. (IF 1 <= j THEN j - 1 + 1 ELSE 0) = j OBVIOUS
<1> QED BY <1>3, <1>4, <1>5, <1>6, <1>7, <1>8

LEMMA ConcatAppend ==
    ASSUME NEW V, NEW s \in Seq(V), NEW u \in Seq(V), NEW x \in V
    PROVE  s \o Append(u, x) = Append(s \o u, x)
<1>1. <<x>> \in Seq(V) OBVIOUS
<1>2. Append(u, x) = u \o <<x>> BY AppendIsConcat
<1>3. s \o u \in Seq(V) BY ConcatProperties
<1>4. Append(s \o u, x) = (s \o u) \o <<x>> BY <1>3, AppendIsConcat
<1> QED BY <1>1, <1>2, <1>4, ConcatAssociative

\* What is in its place stays there when it is bound again, in the order in which it is
\* encoded: the slots that take no more have no room left, those before take none of it.
LEMMA BindStable ==
    ASSUME NEW c \in DOMAIN Classes, NEW V, NEW b \in Bounds(c, V), IsPlaced(c, b.slots, b.extra)
    PROVE  BindParams(c, FlattenSeq(b.slots) \o b.extra) = b
<1> DEFINE L == Len(SlotsOf(c))
           S(i) == SlotsOf(c)[i]
           slots == b.slots
           extra == b.extra
<1>1. /\ slots \in Seq(Seq(V)) /\ extra \in Seq(V) /\ Len(slots) = L /\ DOMAIN slots = 1..L
      /\ b = Bound(slots, extra) /\ \A i \in 1..L : slots[i] \in Seq(V)
  BY BoundsType
<1>2. L \in Nat /\ \A i \in 1..L : S(i).list \in BOOLEAN BY SlotsType
<1>3. /\ \A i \in 1..L : S(i).list \/ Len(slots[i]) <= 1
      /\ \A i \in 1..L : \A k \in 1..Len(slots[i]) :
            /\ IsInstance(slots[i][k], S(i).types)
            /\ \A j \in 1..(i - 1) : Taken(c, slots, j, slots[i][k])
      /\ \A k \in 1..Len(extra), i \in 1..L : Taken(c, slots, i, extra[k])
  BY PlacedIs
<1> HIDE DEF L, slots, extra
<1>4. PICK g \in [0..L -> Seq(V)] :
         /\ g[0] = <<>> /\ \A i \in 1..L : g[i] = g[i - 1] \o slots[i]
         /\ FlattenSeq(slots) = g[L]
  BY <1>1, Flattening
<1> DEFINE Full(m) == [i \in 1..L |-> IF i <= m THEN slots[i] ELSE <<>>]
           Part(m, s) == [i \in 1..L |-> IF i < m THEN slots[i] ELSE IF i = m THEN s ELSE <<>>]
\* Whatever is bound, the room for the next parameter.
<1>5. ASSUME NEW d, NEW x, DOMAIN d.slots = 1..L
      PROVE  Room(c, d, x) = {i \in 1..L : IsInstance(x, S(i).types) /\ (S(i).list \/ d.slots[i] = <<>>)}
  BY <1>5 DEF Room
<1>6. ASSUME NEW m \in 1..L, BindParams(c, g[m - 1]) = Bound(Full(m - 1), <<>>)
      PROVE  BindParams(c, g[m]) = Bound(Full(m), <<>>)
  <2> DEFINE t == slots[m]
             Bnd(j) == BindParams(c, g[m - 1] \o SubSeq(t, 1, j)) = Bound(Part(m, SubSeq(t, 1, j)), <<>>)
             N == {j \in Nat : j <= Len(t) => Bnd(j)}
  <2>1. t \in Seq(V) /\ Len(t) \in Nat BY <1>1, LenProperties
  <2>2. m - 1 \in 0..L /\ m \in Nat BY <1>2
  <2>3. g[m - 1] \in Seq(V) BY <1>4, <2>2
  <2>4. 0 \in N
    <3>1. SubSeq(t, 1, 0) = <<>> BY SubSeqEmpty
    <3>2. g[m - 1] \o <<>> = g[m - 1] BY <2>3, ConcatEmptySeq
    <3>3. Part(m, <<>>) = Full(m - 1)
      <4>1. \A i \in 1..L : i <= m - 1 <=> i < m BY <1>2, <2>2
      <4> QED BY <4>1
    <3>4. Bnd(0)
      <4> HIDE DEF Part, Full, t
      <4> QED BY <1>6, <3>1, <3>2, <3>3
    <3> HIDE DEF Bnd
    <3> QED BY <3>4
  <2>5. ASSUME NEW j \in Nat, j \in N PROVE j + 1 \in N
    <3> SUFFICES ASSUME j + 1 <= Len(t) PROVE Bnd(j + 1)
      <4> HIDE DEF Bnd
      <4> QED  OBVIOUS
    <3>1. Bnd(j)
      <4>1. j <= Len(t) BY <2>1
      <4> HIDE DEF Bnd
      <4> QED BY <2>5, <4>1
    <3> DEFINE s == SubSeq(t, 1, j)
               x == t[j + 1]
               d == Bound(Part(m, s), <<>>)
    <3>2. s \in Seq(V) /\ Len(s) = j /\ x \in V /\ SubSeq(t, 1, j + 1) = Append(s, x) BY <2>1, PrefixStep
    <3> HIDE DEF t
    <3>3. d.slots = Part(m, s) /\ d.extra = <<>> BY DEF Bound
    <3> HIDE DEF s, x, d
    <3>4. DOMAIN d.slots = 1..L BY <3>3
    <3>5. j + 1 \in 1..Len(t) BY <2>1
    <3>6. IsInstance(x, S(m).types) /\ \A i \in 1..(m - 1) : Taken(c, slots, i, x)
      BY <1>3, <3>5 DEF t, x
    <3>7. S(m).list \/ d.slots[m] = <<>>
      <4>1. CASE S(m).list BY <4>1
      <4>2. CASE ~S(m).list
        <5>1. Len(t) <= 1 BY <1>3, <4>2 DEF t
        <5>2. j = 0 BY <2>1, <5>1
        <5>3. s = <<>> BY <3>2, <5>2, EmptySeq
        <5>4. d.slots[m] = s BY <3>3
        <5> QED BY <5>3, <5>4
      <4> QED BY <4>1, <4>2
    <3>8. Room(c, d, x) = {i \in 1..L : IsInstance(x, S(i).types) /\ (S(i).list \/ d.slots[i] = <<>>)}
      BY <1>5, <3>4
    <3>9. m \in Room(c, d, x) BY <3>6, <3>7, <3>8
    <3>10. ASSUME NEW i \in Room(c, d, x) PROVE m <= i
      <4> SUFFICES ASSUME i < m PROVE FALSE
        BY <1>2, <2>2, <3>8
      <4>1. i \in 1..L /\ i \in 1..(m - 1) BY <1>2, <2>2, <3>8
      <4>2. d.slots[i] = slots[i] BY <3>3, <4>1
      <4> QED BY <3>6, <3>8, <4>1, <4>2 DEF Taken
    <3>11. Min(Room(c, d, x)) = m
      <4>1. \A i \in Room(c, d, x) : i \in Nat BY <1>2, <3>8
      <4> DEFINE R == Room(c, d, x)
      <4>2. m \in R /\ \A i \in R : m <= i BY <3>9, <3>10
      <4> HIDE DEF R
      <4>3. Min(R) \in R /\ \A i \in R : Min(R) <= i BY <4>2 DEF Min
      <4>4. Min(R) \in Nat /\ Min(R) <= m /\ m <= Min(R) BY <4>1, <4>2, <4>3 DEF R
      <4> QED BY <2>2, <4>4 DEF R
    <3>12. Bind(c, d, x) = Bound([d.slots EXCEPT ![m] = Append(@, x)], <<>>)
      BY <3>3, <3>9, <3>11 DEF Bind
    <3>13. [d.slots EXCEPT ![m] = Append(@, x)] = Part(m, Append(s, x))
      <4> DEFINE new == Append(s, x)
      <4>1. d.slots[m] = s /\ DOMAIN d.slots = 1..L BY <3>3
      <4>2. [d.slots EXCEPT ![m] = Append(@, x)] = [d.slots EXCEPT ![m] = new] BY <4>1
      <4> HIDE DEF new
      <4>3. [d.slots EXCEPT ![m] = new] = [i \in 1..L |-> IF i = m THEN new ELSE d.slots[i]] BY <4>1
      <4>4. \A i \in 1..L : (IF i = m THEN new ELSE d.slots[i]) = Part(m, new)[i] BY <1>2, <2>2, <3>3
      <4>5. [d.slots EXCEPT ![m] = new] = Part(m, new) BY <4>3, <4>4
      <4> QED BY <4>2, <4>5 DEF new
    <3>14. g[m - 1] \o s \in Seq(V) BY <2>3, <3>2, ConcatProperties
    <3>15. BindParams(c, Append(g[m - 1] \o s, x)) = Bind(c, BindParams(c, g[m - 1] \o s), x)
      BY <3>2, <3>14, BindAppend
    <3>16. g[m - 1] \o Append(s, x) = Append(g[m - 1] \o s, x)
      <4>1. PICK a \in Seq(V) : a = g[m - 1] BY <2>3
      <4>2. a \o Append(s, x) = Append(a \o s, x) BY <3>2, ConcatAppend
      <4> QED BY <4>1, <4>2
    <3>17. BindParams(c, g[m - 1] \o s) = d BY <3>1 DEF s, d
    <3> QED BY <3>2, <3>12, <3>13, <3>15, <3>16, <3>17
  <2>6. Nat \subseteq N
    <3> HIDE DEF N
    <3> QED BY <2>4, <2>5, InductNat
  <2>7. Bnd(Len(t))
    <3>1. Len(t) <= Len(t) BY <2>1
    <3> HIDE DEF Bnd
    <3> QED BY <2>1, <2>6, <3>1
  <2>8. SubSeq(t, 1, Len(t)) = t BY <2>1, SubSeqFull
  <2>9. Part(m, t) = Full(m)
    <3>1. \A i \in 1..L : i <= m <=> i < m \/ i = m BY <1>2, <2>2
    <3> QED BY <3>1
  <2> HIDE DEF Part, Full
  <2>10. BindParams(c, g[m - 1] \o t) = Bound(Part(m, t), <<>>) BY <2>7, <2>8
  <2> QED BY <1>4, <2>9, <2>10
<1> DEFINE Slotted(m) == BindParams(c, g[m]) = Bound(Full(m), <<>>)
           M == {m \in Nat : m <= L => Slotted(m)}
<1>7. 0 \in M
  <2>1. Full(0) = [i \in 1..L |-> <<>>] BY <1>2
  <2>2. BindParams(c, <<>>) = Bound([i \in 1..L |-> <<>>], <<>>) BY BindEmpty DEF Unbound, L
  <2>3. Slotted(0)
    <3> HIDE DEF Full
    <3> QED BY <1>4, <2>1, <2>2
  <2> HIDE DEF Slotted
  <2> QED BY <2>3
<1>8. ASSUME NEW m \in Nat, m \in M PROVE m + 1 \in M
  <2> HIDE DEF Full
  <2> SUFFICES ASSUME m + 1 <= L PROVE Slotted(m + 1)
    <3> HIDE DEF Slotted
    <3> QED  OBVIOUS
  <2>1. PICK i \in 1..L : i = m + 1 /\ i - 1 = m /\ m <= L BY <1>2
  <2>2. Slotted(m)
    <3> HIDE DEF Slotted
    <3> QED BY <1>8, <2>1
  <2>3. BindParams(c, g[i]) = Bound(Full(i), <<>>) BY <1>6, <2>1, <2>2
  <2> QED BY <2>1, <2>3
<1>9. Nat \subseteq M
  <2> HIDE DEF M
  <2> QED BY <1>7, <1>8, InductNat
<1>10. BindParams(c, g[L]) = Bound(slots, <<>>)
  <2>1. Slotted(L)
    <3>1. L <= L BY <1>2
    <3> HIDE DEF Slotted
    <3> QED BY <1>2, <1>9, <3>1
  <2>2. Full(L) = slots
    <3>1. slots = [i \in 1..L |-> slots[i]] BY <1>1, LenProperties
    <3>2. \A i \in 1..L : i <= L BY <1>2
    <3> QED BY <3>1, <3>2
  <2> HIDE DEF Full
  <2> QED BY <2>1, <2>2
<1> DEFINE Extra(j) == BindParams(c, g[L] \o SubSeq(extra, 1, j)) = Bound(slots, SubSeq(extra, 1, j))
           K == {j \in Nat : j <= Len(extra) => Extra(j)}
<1>11. g[L] \in Seq(V) /\ Len(extra) \in Nat BY <1>1, <1>2, <1>4, LenProperties
<1>12. 0 \in K
  <2>1. SubSeq(extra, 1, 0) = <<>> BY SubSeqEmpty
  <2>2. g[L] \o <<>> = g[L] BY <1>11, ConcatEmptySeq
  <2>3. Extra(0) BY <1>10, <2>1, <2>2
  <2> HIDE DEF Extra
  <2> QED BY <2>3
<1>13. ASSUME NEW j \in Nat, j \in K PROVE j + 1 \in K
  <2> SUFFICES ASSUME j + 1 <= Len(extra) PROVE Extra(j + 1)
    <3> HIDE DEF Extra
    <3> QED  OBVIOUS
  <2>1. Extra(j)
    <3>1. j <= Len(extra) BY <1>11
    <3> HIDE DEF Extra
    <3> QED BY <1>13, <3>1
  <2> DEFINE s == SubSeq(extra, 1, j)
             x == extra[j + 1]
             d == Bound(slots, s)
  <2>2. s \in Seq(V) /\ x \in V /\ SubSeq(extra, 1, j + 1) = Append(s, x) BY <1>1, PrefixStep
  <2>3. d.slots = slots /\ d.extra = s BY DEF Bound
  <2>4. \A i \in 1..L : Taken(c, slots, i, x)
    <3>1. j + 1 \in 1..Len(extra) BY <1>11
    <3> QED BY <1>3, <3>1
  <2> HIDE DEF s, x, d
  <2>5. Room(c, d, x) = {i \in 1..L : IsInstance(x, S(i).types) /\ (S(i).list \/ d.slots[i] = <<>>)}
    BY <1>1, <1>5, <2>3
  <2>6. Room(c, d, x) = {} BY <2>3, <2>4, <2>5 DEF Taken
  <2>7. Bind(c, d, x) = Bound(slots, Append(s, x)) BY <2>3, <2>6 DEF Bind, Keep
  <2>8. g[L] \o s \in Seq(V) BY <1>11, <2>2, ConcatProperties
  <2>9. BindParams(c, Append(g[L] \o s, x)) = Bind(c, BindParams(c, g[L] \o s), x) BY <2>2, <2>8, BindAppend
  <2>10. g[L] \o Append(s, x) = Append(g[L] \o s, x)
    <3>1. PICK a \in Seq(V) : a = g[L] BY <1>11
    <3>2. a \o Append(s, x) = Append(a \o s, x) BY <2>2, ConcatAppend
    <3> QED BY <3>1, <3>2
  <2>11. BindParams(c, g[L] \o s) = d BY <2>1 DEF s, d
  <2> QED BY <2>2, <2>7, <2>9, <2>10, <2>11
<1>14. Nat \subseteq K
  <2> HIDE DEF K
  <2> QED BY <1>12, <1>13, InductNat
<1>15. Extra(Len(extra))
  <2>1. Len(extra) <= Len(extra) BY <1>11
  <2> HIDE DEF Extra
  <2> QED BY <1>11, <1>14, <2>1
<1>16. SubSeq(extra, 1, Len(extra)) = extra BY <1>1, SubSeqFull
<1>17. BindParams(c, g[L] \o extra) = Bound(slots, extra) BY <1>15, <1>16
<1> QED BY <1>1, <1>4, <1>17 DEF slots, extra

(* How many bytes sub-parameters take, in whatever order. *)

Wires(e, ps) == [k \in DOMAIN ps |-> e[ps[k]].wire]

Size(e, ps) == Len(FlattenSeq(Wires(e, ps)))

HasWires(e, V) == \A y \in V : e[y].wire \in Seq(Byte)

LEMMA WiresType ==
    ASSUME NEW V, NEW e, HasWires(e, V), NEW ps \in Seq(V)
    PROVE  Wires(e, ps) \in Seq(Seq(Byte)) /\ Len(Wires(e, ps)) = Len(ps) /\ Size(e, ps) \in Nat
<1>1. Len(ps) \in Nat /\ DOMAIN ps = 1..Len(ps) /\ \A k \in 1..Len(ps) : ps[k] \in V
  BY LenProperties, ElementOfSeq
<1>2. Wires(e, ps) \in [1..Len(ps) -> Seq(Byte)] BY <1>1 DEF Wires, HasWires
<1>3. Wires(e, ps) \in Seq(Seq(Byte)) /\ Len(Wires(e, ps)) = Len(ps) BY <1>1, <1>2
<1>4. FlattenSeq(Wires(e, ps)) \in Seq(Byte) BY <1>3, FlattenType
<1> QED BY <1>3, <1>4, LenProperties DEF Size

LEMMA SizeEmpty == ASSUME NEW e PROVE Size(e, <<>>) = 0
<1>1. Wires(e, <<>>) = <<>> BY DEF Wires
<1> QED BY <1>1, FlattenEmpty DEF Size

\* One more sub-parameter comes behind the others.
LEMMA WiresAppend ==
    ASSUME NEW V, NEW e, HasWires(e, V), NEW ps \in Seq(V), NEW x \in V
    PROVE  /\ FlattenSeq(Wires(e, Append(ps, x))) = FlattenSeq(Wires(e, ps)) \o e[x].wire
           /\ FlattenSeq(Wires(e, ps)) \in Seq(Byte) /\ e[x].wire \in Seq(Byte)
<1> DEFINE longer == Append(ps, x)
           n == Len(ps)
<1>1. /\ longer \in Seq(V) /\ Len(longer) = n + 1 /\ longer[n + 1] = x
      /\ \A i \in 1..n : longer[i] = ps[i]
  BY AppendProperties
<1>2. n \in Nat /\ DOMAIN ps = 1..n BY LenProperties
<1> HIDE DEF longer, n
<1>3. DOMAIN longer = 1..(n + 1) BY <1>1, LenProperties
<1>4. Wires(e, ps) \in Seq(Seq(Byte)) /\ Len(Wires(e, ps)) = n BY WiresType DEF n
<1>5. e[x].wire \in Seq(Byte) BY DEF HasWires
<1> DEFINE ws == Wires(e, ps)
           both == Append(ws, e[x].wire)
<1>6. /\ both \in Seq(Seq(Byte)) /\ Len(both) = n + 1 /\ both[n + 1] = e[x].wire
      /\ \A i \in 1..n : both[i] = ws[i]
  <2> HIDE DEF ws
  <2> QED BY <1>4, <1>5, AppendProperties DEF ws
<1>7. Wires(e, longer) = both
  <2>1. Wires(e, longer) \in Seq(Seq(Byte)) /\ Len(Wires(e, longer)) = n + 1 BY <1>1, WiresType
  <2>2. \A i \in 1..n : ws[i] = e[ps[i]].wire BY <1>2 DEF Wires
  <2>3. \A i \in 1..(n + 1) : Wires(e, longer)[i] = e[longer[i]].wire BY <1>3 DEF Wires
  <2> HIDE DEF both, ws
  <2>4. \A i \in 1..(n + 1) : i \in 1..n \/ i = n + 1 BY <1>2
  <2>5. \A i \in 1..(n + 1) : Wires(e, longer)[i] = both[i] BY <1>1, <1>6, <2>2, <2>3, <2>4
  <2> QED BY <1>6, <2>1, <2>5, SeqEqual
<1>8. FlattenSeq(both) = FlattenSeq(ws) \o e[x].wire
  <2> HIDE DEF ws
  <2> QED BY <1>4, <1>5, FlattenAppend DEF ws
<1>9. FlattenSeq(ws) \in Seq(Byte) BY <1>4, FlattenType
<1> HIDE DEF both, ws
<1> QED BY <1>5, <1>7, <1>8, <1>9 DEF longer, ws

LEMMA SizeAppend ==
    ASSUME NEW V, NEW e, HasWires(e, V), NEW ps \in Seq(V), NEW x \in V
    PROVE  /\ Size(e, Append(ps, x)) = Size(e, ps) + Len(e[x].wire) /\ Len(e[x].wire) \in Nat
           /\ Size(e, ps) \in Nat
<1>1. PICK f \in Seq(Byte) : f = FlattenSeq(Wires(e, ps)) BY WiresAppend
<1>2. PICK u \in Seq(Byte) : u = e[x].wire BY WiresAppend
<1>3. FlattenSeq(Wires(e, Append(ps, x))) = f \o u BY <1>1, <1>2, WiresAppend
<1>4. Len(f \o u) = Len(f) + Len(u) BY ConcatProperties
<1>5. Len(f) \in Nat /\ Len(u) \in Nat BY LenProperties
<1> QED BY <1>1, <1>2, <1>3, <1>4, <1>5 DEF Size

LEMMA SizeConcat ==
    ASSUME NEW V, NEW e, HasWires(e, V), NEW ps \in Seq(V), NEW qs \in Seq(V)
    PROVE  Size(e, ps \o qs) = Size(e, ps) + Size(e, qs)
<1> DEFINE S == {us \in Seq(V) : Size(e, ps \o us) = Size(e, ps) + Size(e, us)}
<1>1. <<>> \in S
  <2>1. ps \o <<>> = ps /\ <<>> \in Seq(V) BY ConcatEmptySeq, EmptySeq
  <2>2. Size(e, ps) \in Nat BY WiresType
  <2>3. Size(e, <<>>) = 0 BY SizeEmpty
  <2> QED BY <2>1, <2>2, <2>3
<1>2. ASSUME NEW us \in Seq(V), us \in S, NEW x \in V PROVE Append(us, x) \in S
  <2>1. Append(us, x) \in Seq(V) BY AppendProperties
  <2>2. ps \o us \in Seq(V) BY ConcatProperties
  <2>3. ps \o Append(us, x) = Append(ps \o us, x) BY ConcatAppend
  <2>4. Size(e, Append(ps \o us, x)) = Size(e, ps \o us) + Len(e[x].wire) BY <2>2, SizeAppend
  <2>5. /\ Size(e, Append(us, x)) = Size(e, us) + Len(e[x].wire)
        /\ Len(e[x].wire) \in Nat /\ Size(e, us) \in Nat /\ Size(e, ps) \in Nat
    BY SizeAppend, WiresType
  <2>6. Size(e, ps \o us) = Size(e, ps) + Size(e, us) BY <1>2
  <2> DEFINE longer == Append(us, x)
             l == Len(e[x].wire)
             m == Size(e, ps)
             n == Size(e, us)
  <2>7. l \in Nat /\ m \in Nat /\ n \in Nat BY <2>5
  <2>8. Size(e, ps \o longer) = (m + n) + l /\ Size(e, longer) = n + l BY <2>3, <2>4, <2>5, <2>6
  <2>9. longer \in Seq(V) BY <2>1
  <2> HIDE DEF longer, l, m, n
  <2>10. Size(e, ps \o longer) = m + Size(e, longer) BY <2>7, <2>8
  <2>11. longer \in S BY <2>9, <2>10 DEF m
  <2> QED BY <2>11 DEF longer
<1>3. Seq(V) \subseteq S
  <2> HIDE DEF S
  <2> QED BY <1>1, <1>2, InductSeq
<1> QED BY <1>3

\* One parameter more in one of the slots.
Grown(ss, i, x) == [ss EXCEPT ![i] = Append(ss[i], x)]

LEMMA SizeGrown ==
    ASSUME NEW V, NEW e, HasWires(e, V), NEW ss \in Seq(Seq(V)), NEW i \in 1..Len(ss), NEW x \in V
    PROVE  Size(e, FlattenSeq(Grown(ss, i, x))) = Size(e, FlattenSeq(ss)) + Len(e[x].wire)
<1> DEFINE Grows(us) == \A j \in 1..Len(us) : Size(e, FlattenSeq(Grown(us, j, x))) = Size(e, FlattenSeq(us)) + Len(e[x].wire)
           S == {us \in Seq(Seq(V)) : Grows(us)}
<1> USE DEF Grown
<1>0. Len(e[x].wire) \in Nat BY LenProperties DEF HasWires
<1>1. <<>> \in S
  <2>1. <<>> \in Seq(Seq(V)) /\ 1..Len(<<>>) = {} BY EmptySeq
  <2>2. Grows(<<>>) BY <2>1
  <2> HIDE DEF Grows
  <2> QED BY <2>1, <2>2
<1>2. ASSUME NEW us \in Seq(Seq(V)), us \in S, NEW t \in Seq(V) PROVE Append(us, t) \in S
  <2> DEFINE n == Len(us)
             vs == Append(us, t)
  <2>1. /\ vs \in Seq(Seq(V)) /\ Len(vs) = n + 1 /\ n \in Nat /\ vs[n + 1] = t
        /\ \A j \in 1..n : vs[j] = us[j]
    BY AppendProperties, LenProperties
  <2>2. FlattenSeq(vs) = FlattenSeq(us) \o t BY FlattenAppend
  <2>3. FlattenSeq(us) \in Seq(V) BY FlattenType
  <2>4. Size(e, FlattenSeq(vs)) = Size(e, FlattenSeq(us)) + Size(e, t) BY <2>2, <2>3, SizeConcat
  <2>5. Size(e, FlattenSeq(us)) \in Nat /\ Size(e, t) \in Nat BY <2>3, WiresType
  <2>6. ASSUME NEW j \in 1..Len(vs) PROVE Size(e, FlattenSeq(Grown(vs, j, x))) = Size(e, FlattenSeq(vs)) + Len(e[x].wire)
    <3>1. CASE j = n + 1
      <4>1. Append(t, x) \in Seq(V) BY AppendProperties
      <4>2. Append(us, Append(t, x)) = Grown(vs, j, x)
        <5> DEFINE r == Append(t, x)
        <5>1. r \in Seq(V) BY <4>1
        <5> HIDE DEF r
        <5>2. Append(us, r) \in Seq(Seq(V)) /\ Len(Append(us, r)) = n + 1 /\ Append(us, r)[n + 1] = r
              /\ \A k \in 1..n : Append(us, r)[k] = us[k]
          BY <5>1, AppendProperties DEF n
        <5> HIDE DEF vs, n
        <5>3. Grown(vs, j, x) = [vs EXCEPT ![j] = r] BY <2>1, <3>1 DEF r
        <5>4. /\ [vs EXCEPT ![j] = r] \in Seq(Seq(V)) /\ Len([vs EXCEPT ![j] = r]) = n + 1
              /\ \A k \in 1..(n + 1) : [vs EXCEPT ![j] = r][k] = IF k = j THEN r ELSE vs[k]
          BY <2>1, <5>1, ExceptSeq
        <5>5. \A k \in 1..(n + 1) : Append(us, r)[k] = [vs EXCEPT ![j] = r][k]
          <6>1. \A k \in 1..(n + 1) : k \in 1..n \/ k = n + 1 BY <2>1
          <6>2. \A k \in 1..n : k # n + 1 BY <2>1
          <6> QED BY <2>1, <3>1, <5>2, <5>4, <6>1, <6>2
        <5>6. Append(us, r) = [vs EXCEPT ![j] = r]
          <6> DEFINE A == Append(us, r)
                     B == [vs EXCEPT ![j] = r]
          <6>1. A \in Seq(Seq(V)) /\ B \in Seq(Seq(V)) /\ Len(A) = n + 1 /\ Len(B) = n + 1
                /\ \A k \in 1..(n + 1) : A[k] = B[k]
            BY <5>2, <5>4, <5>5
          <6> HIDE DEF A, B
          <6>2. A = B BY <6>1, SeqEqual
          <6> QED BY <6>2 DEF A, B
        <5> QED BY <5>3, <5>6 DEF r
      <4>3. FlattenSeq(Append(us, Append(t, x))) = FlattenSeq(us) \o Append(t, x) BY <4>1, FlattenAppend
      <4>4. Size(e, FlattenSeq(us) \o Append(t, x)) = Size(e, FlattenSeq(us)) + Size(e, Append(t, x))
        BY <2>3, <4>1, SizeConcat
      <4>5. Size(e, Append(t, x)) = Size(e, t) + Len(e[x].wire) BY SizeAppend
      <4>6. Size(e, FlattenSeq(Grown(vs, j, x))) = Size(e, FlattenSeq(us)) + Size(e, Append(t, x))
        <5> HIDE DEF Grown, vs
        <5> QED BY <4>2, <4>3, <4>4
      <4> HIDE DEF Grown, vs
      <4> QED BY <1>0, <2>4, <2>5, <4>5, <4>6
    <3>2. CASE j # n + 1
      <4>1. j \in 1..n
        <5> HIDE DEF vs, n
        <5>1. j \in 1..(n + 1) BY <2>1
        <5> QED BY <2>1, <3>2, <5>1
      <4> DEFINE gs == Grown(us, j, x)
      <4>2. us[j] \in Seq(V) /\ us[j] = vs[j] BY <2>1, <4>1, ElementOfSeq
      <4>3. Append(us[j], x) \in Seq(V) BY <4>2, AppendProperties
      <4>4. gs \in Seq(Seq(V)) /\ Len(gs) = n /\ \A k \in 1..n : gs[k] = IF k = j THEN Append(us[j], x) ELSE us[k]
        BY <4>1, <4>3, ExceptSeq
      <4>5. Size(e, FlattenSeq(gs)) = Size(e, FlattenSeq(us)) + Len(e[x].wire)
        <5>1. Grows(us)
          <6> HIDE DEF Grows
          <6> QED BY <1>2
        <5> QED BY <4>1, <5>1
      <4>6. Append(gs, t) = Grown(vs, j, x)
        <5> HIDE DEF gs
        <5> DEFINE A == Append(gs, t)
                   r == Append(us[j], x)
                   B == [vs EXCEPT ![j] = r]
        <5>1. A \in Seq(Seq(V)) /\ Len(A) = n + 1 /\ A[n + 1] = t /\ \A k \in 1..n : A[k] = gs[k]
          BY <4>4, AppendProperties
        <5>2. r \in Seq(V) BY <4>3
        <5>3. Grown(vs, j, x) = B BY <4>2
        <5> HIDE DEF r, A, vs, n
        <5>4. B \in Seq(Seq(V)) /\ Len(B) = n + 1 /\ \A k \in 1..(n + 1) : B[k] = IF k = j THEN r ELSE vs[k]
          BY <2>1, <5>2, ExceptSeq
        <5> HIDE DEF B
        <5>5. \A k \in 1..(n + 1) : A[k] = B[k]
          <6>1. \A k \in 1..(n + 1) : k \in 1..n \/ k = n + 1 BY <2>1
          <6>2. \A k \in 1..n : A[k] = IF k = j THEN r ELSE us[k] BY <4>4, <5>1 DEF r
          <6> QED BY <2>1, <3>2, <5>1, <5>4, <6>1, <6>2
        <5>6. A = B BY <5>1, <5>4, <5>5, SeqEqual
        <5> QED BY <5>3, <5>6 DEF A
      <4> HIDE DEF gs
      <4>7. FlattenSeq(Append(gs, t)) = FlattenSeq(gs) \o t BY <4>4, FlattenAppend
      <4>8. FlattenSeq(gs) \in Seq(V) BY <4>4, FlattenType
      <4>9. Size(e, FlattenSeq(gs) \o t) = Size(e, FlattenSeq(gs)) + Size(e, t) BY <4>8, SizeConcat
      <4>10. Size(e, FlattenSeq(Grown(vs, j, x))) = Size(e, FlattenSeq(gs)) + Size(e, t)
        <5> HIDE DEF Grown, vs
        <5> QED BY <4>6, <4>7, <4>9
      <4> HIDE DEF Grown, vs
      <4> QED BY <1>0, <2>4, <2>5, <4>5, <4>10
    <3> QED BY <3>1, <3>2
  <2>7. Grows(vs) BY <2>6
  <2> HIDE DEF Grows
  <2> QED BY <2>1, <2>7
<1>3. Seq(Seq(V)) \subseteq S
  <2> HIDE DEF S
  <2> QED BY <1>1, <1>2, InductSeq
<1> HIDE DEF Grown
<1>4. Grows(ss)
  <2> HIDE DEF Grows
  <2> QED BY <1>3
<1> QED BY <1>4

\* Whatever slots they are bound to, sub-parameters take as many bytes.
LEMMA WiredBound ==
    ASSUME NEW c \in DOMAIN Classes, NEW V, NEW e, HasWires(e, V), NEW ps \in Seq(V),
           NEW b, b = BindParams(c, ps)
    PROVE  /\ FlattenSeq(b.slots) \o b.extra \in Seq(V)
           /\ Size(e, FlattenSeq(b.slots) \o b.extra) = Size(e, ps)
<1> DEFINE Held(d) == FlattenSeq(d.slots) \o d.extra
           S == {us \in Seq(V) : Size(e, Held(BindParams(c, us))) = Size(e, us)}
<1>1. ASSUME NEW d \in Bounds(c, V) PROVE FlattenSeq(d.slots) \in Seq(V) /\ d.extra \in Seq(V) /\ Held(d) \in Seq(V)
  BY BoundsType, FlattenType, ConcatProperties
<1>2. <<>> \in S
  <2> DEFINE d == Unbound(c)
  <2>1. BindParams(c, <<>>) = d /\ d.extra = <<>> /\ <<>> \in Seq(V) BY BindEmpty, EmptySeq DEF Unbound, Bound
  <2>2. Size(e, FlattenSeq(d.slots)) = 0
    <3> DEFINE n == Len(SlotsOf(c))
               E == [i \in 1..n |-> <<>>]
    <3>1. d.slots = E BY DEF Unbound, Bound
    <3>2. n \in Nat BY SlotsType
    <3>3. E \in Seq({<<>>}) BY <3>2
    <3> DEFINE T == {us \in Seq({<<>>}) : FlattenSeq(us) = <<>>}
    <3>4. <<>> \in T BY EmptySeq, FlattenEmpty
    <3>5. ASSUME NEW us \in Seq({<<>>}), us \in T, NEW u \in {<<>>} PROVE Append(us, u) \in T
      <4>1. u = <<>> /\ u \in Seq(V) BY EmptySeq
      <4>2. us \in Seq(Seq(V))
        <5>1. Len(us) \in Nat /\ us \in [1..Len(us) -> {<<>>}] BY LenProperties
        <5>2. us \in [1..Len(us) -> Seq(V)] BY <4>1, <5>1
        <5> QED BY <5>1, <5>2
      <4>3. FlattenSeq(Append(us, u)) = FlattenSeq(us) \o u BY <4>1, <4>2, FlattenAppend
      <4>4. Append(us, u) \in Seq({<<>>}) BY AppendProperties
      <4>5. FlattenSeq(us) = <<>> BY <3>5
      <4>6. <<>> \o <<>> = <<>> OBVIOUS
      <4> HIDE DEF E
      <4> QED BY <4>1, <4>3, <4>4, <4>5, <4>6
    <3>6. Seq({<<>>}) \subseteq T
      <4> HIDE DEF T
      <4> QED BY <3>4, <3>5, InductSeq
    <3>7. FlattenSeq(E) = <<>> BY <3>3, <3>6
    <3> HIDE DEF E
    <3> QED BY <3>1, <3>7, SizeEmpty
  <2>3. d \in Bounds(c, V) BY UnboundType
  <2> DEFINE f == FlattenSeq(d.slots)
  <2>4. f \in Seq(V) BY <1>1, <2>3
  <2>5. Held(d) = f \o <<>> BY <2>1
  <2> HIDE DEF f
  <2>6. f \o <<>> = f BY <2>4, ConcatEmptySeq
  <2>7. Size(e, Held(d)) = 0 BY <2>2, <2>5, <2>6 DEF f
  <2> HIDE DEF d, Held
  <2> QED BY <2>1, <2>7, SizeEmpty
<1>3. ASSUME NEW us \in Seq(V), us \in S, NEW x \in V PROVE Append(us, x) \in S
  <2> DEFINE d == BindParams(c, us)
             g == Bind(c, d, x)
             l == Len(e[x].wire)
  <2>1. d \in Bounds(c, V) BY BindParamsType
  <2>2. BindParams(c, Append(us, x)) = g BY BindAppend
  <2>3. Size(e, Append(us, x)) = Size(e, us) + l /\ l \in Nat /\ Size(e, us) \in Nat BY SizeAppend
  <2>4. Append(us, x) \in Seq(V) BY AppendProperties
  <2>5. Size(e, Held(d)) = Size(e, us) BY <1>3
  <2> HIDE DEF d
  <2> DEFINE f == FlattenSeq(d.slots)
             h == d.extra
  <2>6. f \in Seq(V) /\ h \in Seq(V) BY <1>1, <2>1
  <2>7. Size(e, Held(d)) = Size(e, f) + Size(e, h) /\ Size(e, f) \in Nat /\ Size(e, h) \in Nat
    <3> HIDE DEF f, h
    <3>1. Size(e, f \o h) = Size(e, f) + Size(e, h) /\ Size(e, f) \in Nat /\ Size(e, h) \in Nat
      BY <2>6, SizeConcat, WiresType
    <3> QED BY <3>1 DEF f, h
  <2>8. Size(e, Held(g)) = Size(e, Held(d)) + l
    <3>1. CASE Room(c, d, x) = {}
      <4>1. g.slots = d.slots /\ g.extra = Append(h, x) BY <3>1 DEF Bind, Bound, Keep
      <4>2. Append(h, x) \in Seq(V) BY <2>6, AppendProperties
      <4>3. Size(e, Append(h, x)) = Size(e, h) + l BY <2>6, SizeAppend
      <4> DEFINE h2 == Append(h, x)
      <4> HIDE DEF g, f
      <4>4. Size(e, f \o h2) = Size(e, f) + Size(e, h2)
        <5>1. h2 \in Seq(V) BY <4>2
        <5> HIDE DEF h2
        <5> QED BY <2>6, <5>1, SizeConcat
      <4>5. Held(g) = f \o h2 BY <4>1 DEF f
      <4> HIDE DEF Held, h, l
      <4> QED BY <2>3, <2>7, <4>3, <4>4, <4>5
    <3>2. CASE Room(c, d, x) # {}
      <4> DEFINE m == Min(Room(c, d, x))
                 ss == d.slots
                 f2 == FlattenSeq([ss EXCEPT ![m] = Append(ss[m], x)])
      <4>1. g.slots = [ss EXCEPT ![m] = Append(ss[m], x)] /\ g.extra = h BY <3>2 DEF Bind, Bound
      <4>2. m \in 1..Len(SlotsOf(c)) BY <2>1, <3>2, FirstRoom
      <4>3. ss \in Seq(Seq(V)) /\ Len(ss) = Len(SlotsOf(c)) BY <2>1, BoundsType
      <4>4. Size(e, f2) = Size(e, f) + l
        <5>1. m \in 1..Len(ss) BY <4>2, <4>3
        <5> HIDE DEF m, ss
        <5>2. f2 = FlattenSeq([ss EXCEPT ![m] = Append(ss[m], x)]) OBVIOUS
        <5>3. f = FlattenSeq(ss) BY DEF ss
        <5> HIDE DEF f, f2
        <5>4. Size(e, FlattenSeq([ss EXCEPT ![m] = Append(ss[m], x)])) = Size(e, FlattenSeq(ss)) + Len(e[x].wire)
          <6>1. Size(e, FlattenSeq(Grown(ss, m, x))) = Size(e, FlattenSeq(ss)) + Len(e[x].wire) BY <4>3, <5>1, SizeGrown
          <6> QED BY <6>1 DEF Grown
        <5> QED BY <5>2, <5>3, <5>4
      <4>5. f2 \in Seq(V)
        <5>1. g \in Bounds(c, V) BY <2>1, BindType
        <5>2. FlattenSeq(g.slots) \in Seq(V)
          <6> HIDE DEF g
          <6> QED BY <1>1, <5>1
        <5> QED BY <4>1, <5>2
      <4>6. Size(e, f2 \o h) = Size(e, f2) + Size(e, h)
        <5> HIDE DEF f2, h
        <5> QED BY <2>6, <4>5, SizeConcat
      <4>7. Held(g) = f2 \o h
        <5> HIDE DEF g
        <5> QED BY <4>1
      <4> HIDE DEF g, f2, f, h, Held, l
      <4> QED BY <2>3, <2>7, <4>4, <4>6, <4>7
    <3> QED BY <3>1, <3>2
  <2> HIDE DEF g, Held, l
  <2> QED BY <2>2, <2>3, <2>4, <2>5, <2>8
<1>4. Seq(V) \subseteq S
  <2> HIDE DEF S
  <2> QED BY <1>2, <1>3, InductSeq
<1>5. b \in Bounds(c, V) BY BindParamsType
<1>6. Held(b) \in Seq(V) BY <1>1, <1>5
<1> QED BY <1>4, <1>6

(* Pieces of a wire. *)

\* What is cut out of a place lies there.
LEMMA CutLies ==
    ASSUME NEW V, NEW w \in Seq(V), NEW pos \in Nat, NEW n \in Nat, pos + n <= Len(w)
    PROVE  /\ SubSeq(w, pos + 1, pos + n) \in Seq(V) /\ Len(SubSeq(w, pos + 1, pos + n)) = n
           /\ \A i \in 1..n : SubSeq(w, pos + 1, pos + n)[i] = w[pos + i]
           /\ Lies(w, pos, SubSeq(w, pos + 1, pos + n))
<1> DEFINE lo == pos + 1
           hi == pos + n
           cut == SubSeq(w, lo, hi)
<1>1. Len(w) \in Nat /\ \A i \in 1..Len(w) : w[i] \in V BY LenProperties, ElementOfSeq
<1>2. lo \in Int /\ hi \in Int /\ hi - lo + 1 = n /\ (IF lo <= hi THEN n ELSE 0) = n OBVIOUS
<1>3. \A i \in lo..hi : i \in 1..Len(w) BY <1>1
<1>4. \A i \in 1..n : lo + i - 1 = pos + i OBVIOUS
<1> HIDE DEF lo, hi
<1>5. \A i \in lo..hi : w[i] \in V BY <1>1, <1>3
<1>6. cut \in Seq(V) /\ Len(cut) = (IF lo <= hi THEN hi - lo + 1 ELSE 0) /\ \A i \in 1..(hi - lo + 1) : cut[i] = w[lo + i - 1]
  BY <1>2, <1>5, SubSeqProperties
<1> HIDE DEF cut
<1>7. cut \in Seq(V) /\ Len(cut) = n /\ \A i \in 1..n : cut[i] = w[pos + i] BY <1>2, <1>4, <1>6
<1>8. Lies(w, pos, cut) BY <1>7 DEF Lies
<1> QED BY <1>7, <1>8 DEF cut, lo, hi

\* What lies at a place is what is cut out of there.
LEMMA CutOut ==
    ASSUME NEW V, NEW w \in Seq(V), NEW pos \in Nat, NEW s \in Seq(V), Lies(w, pos, s)
    PROVE  SubSeq(w, pos + 1, pos + Len(s)) = s
<1> DEFINE n == Len(s)
           cut == SubSeq(w, pos + 1, pos + n)
<1>1. n \in Nat /\ pos + n <= Len(w) /\ \A i \in 1..n : w[pos + i] = s[i]
  BY LenProperties DEF Lies
<1> HIDE DEF n
<1>2. cut \in Seq(V) /\ Len(cut) = n /\ \A i \in 1..n : cut[i] = w[pos + i] BY <1>1, CutLies
<1> HIDE DEF cut
<1>3. cut = s BY <1>1, <1>2, SeqEqual DEF n
<1> QED BY <1>3 DEF cut, n

\* The whole of a wire lies at its beginning.
LEMMA WholeLies == ASSUME NEW V, NEW w \in Seq(V) PROVE Lies(w, 0, w)
<1>1. Len(w) \in Nat /\ \A i \in 1..Len(w) : 0 + i = i BY LenProperties
<1> QED BY <1>1 DEF Lies

(* Classes, their registries and the headers of what they write. *)

LEMMA ClassIs ==
    ASSUME NEW c \in DOMAIN Classes
    PROVE  /\ c \notin Unknown /\ c # NoClass /\ Classes[c].fields \in Seq(Int)
           /\ Classes[c].kind \in {"tlv", "tv", "custom", "msg", "custommsg"}
           /\ IsMessage(c) <=> Classes[c].kind \in {"msg", "custommsg"}
<1>1. c \notin Unknown /\ c # NoClass
  <2>1. DOMAIN Classes \cap (Unknown \cup {NoClass}) = {} BY SchemaAssumption DEF WellDefined
  <2> QED BY <2>1
<1>2. IsMessage(c) <=> Classes[c].kind \in {"msg", "custommsg"} BY <1>1 DEF IsMessage
<1>3. IsClass(c) BY SchemaAssumption DEF WellDefined
<1>4. Classes[c].fields \in Seq(Int) /\ Classes[c].kind \in {"tlv", "tv", "custom", "msg", "custommsg"}
  BY <1>3 DEF IsClass
<1> QED BY <1>1, <1>2, <1>4

LEMMA KindIs ==
    ASSUME NEW c \in DOMAIN Classes, NEW kinds
    PROVE  c \in OfKinds(kinds) <=> Classes[c].kind \in kinds
  BY DEF OfKinds

LEMMA NumberIs ==
    ASSUME NEW c \in DOMAIN Classes
    PROVE  /\ Classes[c].type \in Nat
           /\ Classes[c].kind \in {"tlv", "msg"} => Classes[c].type < 1023
           /\ Classes[c].kind = "tv" => Classes[c].type < 128 /\ SlotsOf(c) = <<>>
           /\ Classes[c].kind = "custom" => TopByte(Classes[c].type) <= 255
           /\ Classes[c].kind = "custommsg" => Classes[c].type <= 255
<1>1. IsClass(c) BY SchemaAssumption DEF WellDefined
<1>2. TYPE_CUSTOM = 1023 BY DEF TYPE_CUSTOM
<1> QED BY <1>1, <1>2 DEF IsClass

\* A registry finds a class by its key, and nothing else.
LEMMA RegistryOf ==
    ASSUME NEW kinds \in {{"tlv", "tv"}, {"custom"}, {"msg"}, {"custommsg"}}
    PROVE  /\ \A c \in OfKinds(kinds) : Key(c) \in DOMAIN Registry(kinds) /\ Registry(kinds)[Key(c)] = c
           /\ \A k \in DOMAIN Registry(kinds) :
                 Registry(kinds)[k] \in OfKinds(kinds) /\ Key(Registry(kinds)[k]) = k
<1> DEFINE K == OfKinds(kinds)
           keys == {Key(c) : c \in K}
           found(k) == CHOOSE c \in K : Key(c) = k
<1>1. Registry(kinds) = [k \in keys |-> found(k)] BY DEF Registry
<1>2. ASSUME NEW k \in keys PROVE found(k) \in K /\ Key(found(k)) = k OBVIOUS
<1>3. \A c, d \in K : Key(c) = Key(d) => c = d
  <2>1. OneClassPerKey(kinds) BY SchemaAssumption DEF WellDefined
  <2> QED BY <2>1 DEF OneClassPerKey
<1>4. ASSUME NEW c \in K PROVE Key(c) \in keys /\ found(Key(c)) = c
  <2>1. Key(c) \in keys OBVIOUS
  <2>2. found(Key(c)) \in K /\ Key(found(Key(c))) = Key(c) BY <1>2, <2>1
  <2> HIDE DEF found, K
  <2> QED BY <1>3, <2>1, <2>2
<1> HIDE DEF keys, found
<1> QED BY <1>1, <1>2, <1>4

\* Two bytes of a wire are read as they were written.
LEMMA U16Lies ==
    ASSUME NEW w \in Seq(Byte), NEW q \in Nat, NEW n \in Nat, n <= 65535, Lies(w, q, PutU16(n))
    PROVE  U16(w, q) = n /\ w[q + 1] = n \div 256 /\ w[q + 2] = n % 256 /\ q + 2 <= Len(w)
<1>1. Len(PutU16(n)) = 2 /\ PutU16(n)[1] = n \div 256 /\ PutU16(n)[2] = n % 256 BY DEF PutU16
<1>2. w[q + 1] = n \div 256 /\ w[q + 2] = n % 256 /\ q + 2 <= Len(w)
  <2>1. 1 \in 1..2 /\ 2 \in 1..2 OBVIOUS
  <2> QED BY <1>1, <2>1 DEF Lies
<1>3. n = 256 * (n \div 256) + (n % 256) /\ n \div 256 \in Nat /\ n % 256 \in Nat OBVIOUS
<1> QED BY <1>2, <1>3 DEF U16

\* How long sequences are together.
LEMMA LenThree ==
    ASSUME NEW V, NEW s \in Seq(V), NEW t \in Seq(V), NEW u \in Seq(V)
    PROVE  s \o t \o u \in Seq(V) /\ Len(s \o t \o u) = Len(s) + Len(t) + Len(u)
<1>1. s \o t \in Seq(V) /\ Len(s \o t) = Len(s) + Len(t) BY ConcatProperties
<1>2. PICK st \in Seq(V) : st = s \o t BY <1>1
<1>3. st \o u \in Seq(V) /\ Len(st \o u) = Len(st) + Len(u) BY ConcatProperties
<1> QED BY <1>1, <1>2, <1>3

LEMMA LenFour ==
    ASSUME NEW V, NEW s \in Seq(V), NEW t \in Seq(V), NEW u \in Seq(V), NEW v \in Seq(V)
    PROVE  s \o t \o u \o v \in Seq(V) /\ Len(s \o t \o u \o v) = Len(s) + Len(t) + Len(u) + Len(v)
<1>1. s \o t \o u \in Seq(V) /\ Len(s \o t \o u) = Len(s) + Len(t) + Len(u) BY LenThree
<1>2. PICK stu \in Seq(V) : stu = s \o t \o u BY <1>1
<1>3. stu \o v \in Seq(V) /\ Len(stu \o v) = Len(stu) + Len(v) BY ConcatProperties
<1> QED BY <1>1, <1>2, <1>3

\* Three pieces, one behind the other.
LEMMA LiesThree ==
    ASSUME NEW V, NEW w \in Seq(V), NEW pos \in Nat, NEW s \in Seq(V), NEW t \in Seq(V), NEW u \in Seq(V),
           Lies(w, pos, s \o t \o u)
    PROVE  Lies(w, pos, s) /\ Lies(w, pos + Len(s), t) /\ Lies(w, pos + Len(s) + Len(t), u)
<1> DEFINE st == s \o t
<1>1. st \in Seq(V) /\ Len(st) = Len(s) + Len(t) BY ConcatProperties
<1>2. Lies(w, pos, st \o u) OBVIOUS
<1>3. Len(s) \in Nat /\ Len(t) \in Nat BY LenProperties
<1>4. Lies(w, pos, st) /\ Lies(w, pos + Len(st), u)
  <2> HIDE DEF st
  <2> QED BY <1>1, <1>2, LiesConcat
<1>5. Lies(w, pos, s) /\ Lies(w, pos + Len(s), t) BY <1>4, LiesConcat
<1>6. pos + Len(st) = pos + Len(s) + Len(t) BY <1>1, <1>3
<1> QED BY <1>4, <1>5, <1>6

\* The header of a TLV, and what is behind it.
LEMMA HeaderLies ==
    ASSUME NEW w \in Seq(Byte), NEW pos \in Nat, NEW t \in Nat, t <= 65535, NEW n \in Nat, n <= 65535,
           NEW body \in Seq(Byte), Lies(w, pos, PutU16(t) \o PutU16(n) \o body)
    PROVE  /\ U16(w, pos) = t /\ U16(w, pos + 2) = n /\ w[pos + 1] = t \div 256
           /\ Lies(w, pos + 4, body) /\ pos + 4 + Len(body) <= Len(w)
<1>1. PICK a \in Seq(Byte) : a = PutU16(t) /\ Len(a) = 2 BY PutU16Type
<1>2. PICK b \in Seq(Byte) : b = PutU16(n) /\ Len(b) = 2 BY PutU16Type
<1>3. Lies(w, pos, a \o b \o body) BY <1>1, <1>2
<1>4. Lies(w, pos, a) /\ Lies(w, pos + Len(a), b) /\ Lies(w, pos + Len(a) + Len(b), body)
  BY <1>3, LiesThree
<1>5. pos + Len(a) = pos + 2 /\ pos + Len(a) + Len(b) = pos + 4 BY <1>1, <1>2
<1>6. U16(w, pos) = t /\ w[pos + 1] = t \div 256 BY <1>1, <1>4, U16Lies
<1>7. U16(w, pos + 2) = n
  <2>1. pos + 2 \in Nat /\ Lies(w, pos + 2, b) BY <1>4, <1>5
  <2> QED BY <1>2, <2>1, U16Lies
<1>8. Lies(w, pos + 4, body) BY <1>4, <1>5
<1>9. pos + 4 + Len(body) <= Len(w) BY <1>8 DEF Lies
<1> QED BY <1>6, <1>7, <1>8, <1>9

\* What is written before the fields of a vendor class.
LEMMA KeyType ==
    ASSUME NEW c \in DOMAIN Classes
    PROVE  /\ Classes[c].kind = "custom" => Key(c) \in Seq(Byte) /\ Len(Key(c)) = 8
           /\ Classes[c].kind = "custommsg" => Key(c) \in Seq(Byte) /\ Len(Key(c)) = 5
           /\ Classes[c].kind \in {"tlv", "tv", "msg"} => Key(c) = Classes[c].type
<1>1. VENDOR_ID \in Seq(Byte) /\ Len(VENDOR_ID) = 4 BY DEF VENDOR_ID, Byte
<1>2. ASSUME Classes[c].kind = "custom" PROVE Key(c) \in Seq(Byte) /\ Len(Key(c)) = 8
  <2>1. PutU32(Classes[c].type) \in Seq(Byte) /\ Len(PutU32(Classes[c].type)) = 4
    BY <1>2, NumberIs, PutU32Type
  <2>2. Key(c) = VENDOR_ID \o PutU32(Classes[c].type) BY <1>2 DEF Key
  <2>3. PICK v \in Seq(Byte) : v = VENDOR_ID BY <1>1
  <2>4. PICK t \in Seq(Byte) : t = PutU32(Classes[c].type) BY <2>1
  <2>5. v \o t \in Seq(Byte) /\ Len(v \o t) = Len(v) + Len(t) BY ConcatProperties
  <2> QED BY <1>1, <2>1, <2>2, <2>3, <2>4, <2>5
<1>3. ASSUME Classes[c].kind = "custommsg" PROVE Key(c) \in Seq(Byte) /\ Len(Key(c)) = 5
  <2>0. Classes[c].type \in Nat /\ Classes[c].type <= 255 BY <1>3, NumberIs
  <2>1. Classes[c].type \in Byte BY <2>0 DEF Byte
  <2>2. Key(c) = Append(VENDOR_ID, Classes[c].type) BY <1>3 DEF Key
  <2>4. PICK v \in Seq(Byte) : v = VENDOR_ID BY <1>1
  <2>5. PICK t \in Byte : t = Classes[c].type BY <2>1
  <2>6. Append(v, t) \in Seq(Byte) /\ Len(Append(v, t)) = Len(v) + 1 BY AppendProperties
  <2>3. Key(c) \in Seq(Byte) /\ Len(Key(c)) = Len(VENDOR_ID) + 1 BY <2>2, <2>4, <2>5, <2>6
  <2> QED BY <1>1, <2>3
<1>4. Classes[c].kind \in {"tlv", "tv", "msg"} => Key(c) = Classes[c].type BY DEF Key
<1> QED BY <1>2, <1>3, <1>4

(* The encoding, one depth after the other. *)

Deeper(e) == [x \in StructsOver(DOMAIN e) |-> [ok |-> Encodes(e, x), wire |-> Frame(x, Body(e, x))]]

Below(d) == IF d = 0 THEN <<>> ELSE Encoding[d - 1]

UpTo(n, g) == g = [d \in 0..n |-> Deeper(IF d = 0 THEN <<>> ELSE g[d - 1])]

\* What is encoded so far, to each depth: there is one such function, and no two.
LEMMA SomeUpTo == \A n \in Nat : \E g : UpTo(n, g)
<1> DEFINE N == {n \in Nat : \E g : UpTo(n, g)}
<1>1. 0 \in N
  <2> DEFINE g == [d \in 0..0 |-> Deeper(<<>>)]
  <2>1. UpTo(0, g) BY DEF UpTo
  <2> QED BY <2>1
<1>2. ASSUME NEW n \in Nat, n \in N PROVE n + 1 \in N
  <2>1. PICK g : UpTo(n, g) BY <1>2
  <2> DEFINE h == [d \in 0..(n + 1) |-> IF d = n + 1 THEN Deeper(g[n]) ELSE g[d]]
  <2>2. ASSUME NEW d \in 0..(n + 1) PROVE h[d] = Deeper(IF d = 0 THEN <<>> ELSE h[d - 1])
    <3>1. CASE d = n + 1
      <4>1. d # 0 /\ d - 1 = n /\ n \in 0..(n + 1) /\ n # n + 1 BY <3>1
      <4>2. h[n] = g[n] BY <4>1
      <4>3. h[d] = Deeper(g[n]) BY <3>1
      <4> HIDE DEF h
      <4> QED BY <4>1, <4>2, <4>3
    <3>2. CASE d # n + 1
      <4>1. d \in 0..n BY <3>2
      <4>2. h[d] = g[d] BY <3>2
      <4>3. g[d] = Deeper(IF d = 0 THEN <<>> ELSE g[d - 1]) BY <2>1, <4>1 DEF UpTo
      <4>4. d # 0 => h[d - 1] = g[d - 1]
        <5>1. d # 0 => d - 1 \in 0..(n + 1) /\ d - 1 # n + 1 BY <4>1
        <5> QED BY <5>1
      <4> HIDE DEF h
      <4> QED BY <4>2, <4>3, <4>4
    <3> QED BY <3>1, <3>2
  <2>3. h = [d \in 0..(n + 1) |-> h[d]] OBVIOUS
  <2> HIDE DEF h
  <2>4. UpTo(n + 1, h) BY <2>2, <2>3 DEF UpTo
  <2> QED BY <2>4
<1>3. Nat \subseteq N
  <2> HIDE DEF N
  <2> QED BY <1>1, <1>2, InductNat
<1> QED BY <1>3

LEMMA SameUpTo ==
    ASSUME NEW m \in Nat, NEW n \in Nat, NEW g, UpTo(m, g), NEW h, UpTo(n, h)
    PROVE  \A d \in Nat : d <= m /\ d <= n => g[d] = h[d]
<1> DEFINE N == {d \in Nat : d <= m /\ d <= n => g[d] = h[d]}
<1>0. /\ \A d \in 0..m : g[d] = Deeper(IF d = 0 THEN <<>> ELSE g[d - 1])
      /\ \A d \in 0..n : h[d] = Deeper(IF d = 0 THEN <<>> ELSE h[d - 1])
  BY DEF UpTo
<1>1. 0 \in N BY <1>0
<1>2. ASSUME NEW d \in Nat, d \in N PROVE d + 1 \in N
  <2> SUFFICES ASSUME d + 1 <= m, d + 1 <= n PROVE g[d + 1] = h[d + 1] OBVIOUS
  <2>1. d + 1 \in 0..m /\ d + 1 \in 0..n /\ d + 1 # 0 /\ (d + 1) - 1 = d OBVIOUS
  <2>2. g[d] = h[d] BY <1>2
  <2>3. g[d + 1] = Deeper(g[(d + 1) - 1]) /\ h[d + 1] = Deeper(h[(d + 1) - 1]) BY <1>0, <2>1
  <2> QED BY <2>1, <2>2, <2>3
<1>3. Nat \subseteq N
  <2> HIDE DEF N
  <2> QED BY <1>1, <1>2, InductNat
<1> QED BY <1>3

LEMMA EncodingIs ==
    Encoding = [d \in Nat |-> Deeper(Below(d))]
<1> DEFINE is(f) == f = [d \in Nat |-> LET e == IF d = 0 THEN <<>> ELSE f[d - 1]
                                       IN  [x \in StructsOver(DOMAIN e) |-> [ok |-> Encodes(e, x), wire |-> Frame(x, Body(e, x))]]]
           far(n) == CHOOSE g : UpTo(n, g)
           f0 == [n \in Nat |-> far(n)[n]]
<1>1. ASSUME NEW n \in Nat PROVE UpTo(n, far(n)) BY SomeUpTo
<1>2. ASSUME NEW n \in Nat PROVE f0[n] = Deeper(IF n = 0 THEN <<>> ELSE f0[n - 1])
  <2>1. UpTo(n, far(n)) BY <1>1
  <2> DEFINE g == far(n)
  <2>2. g[n] = Deeper(IF n = 0 THEN <<>> ELSE g[n - 1])
    <3> HIDE DEF g
    <3>1. n \in 0..n OBVIOUS
    <3>2. UpTo(n, g) BY <2>1 DEF g
    <3> QED BY <3>1, <3>2 DEF UpTo
  <2>3. f0[n] = g[n] OBVIOUS
  <2>4. CASE n = 0
    <3> HIDE DEF g, f0
    <3> QED BY <2>2, <2>3, <2>4
  <2>5. CASE n # 0
    <3> DEFINE m == n - 1
               h == far(m)
    <3>1. m \in Nat /\ m <= n /\ m <= m BY <2>5
    <3>2. f0[m] = h[m]
      <4> HIDE DEF m
      <4> QED BY <3>1
    <3>3. UpTo(m, h)
      <4> HIDE DEF m
      <4> QED BY <1>1, <3>1
    <3>4. UpTo(n, g) BY <2>1
    <3> HIDE DEF f0, g, h, far
    <3>5. g[m] = h[m]
      <4> HIDE DEF m
      <4> QED BY <3>1, <3>3, <3>4, SameUpTo
    <3> QED BY <2>2, <2>3, <2>5, <3>2, <3>5
  <2> QED BY <2>4, <2>5
<1>3. is(f0)
  <2>1. f0 = [n \in Nat |-> f0[n]] OBVIOUS
  <2> HIDE DEF f0
  <2>2. f0 = [n \in Nat |-> Deeper(IF n = 0 THEN <<>> ELSE f0[n - 1])] BY <1>2, <2>1
  <2> QED BY <2>2 DEF Deeper
<1>4. is(CHOOSE f : is(f)) BY <1>3, Zenon
<1>5. Encoding = CHOOSE f : is(f) BY DEF Encoding
<1>6. is(Encoding) BY <1>4, <1>5, Zenon
<1> QED BY <1>6 DEF Deeper, Below

LEMMA EncodedIs ==
    ASSUME NEW d \in Nat
    PROVE  /\ DOMAIN Encoding[d] = StructsOver(DOMAIN Below(d))
           /\ \A x \in StructsOver(DOMAIN Below(d)) :
                 Encoding[d][x] = [ok |-> Encodes(Below(d), x), wire |-> Frame(x, Body(Below(d), x))]
           /\ Below(d + 1) = Encoding[d] /\ Below(0) = <<>>
<1>1. Encoding[d] = Deeper(Below(d)) BY EncodingIs
<1>2. Below(d + 1) = Encoding[d] /\ Below(0) = <<>> BY DEF Below
<1> QED BY <1>1, <1>2 DEF Deeper

(* Structures. *)

LEMMA StructIs ==
    ASSUME NEW S, NEW x \in StructsOver(S)
    PROVE  /\ x = Struct(x.cls, x.id, x.fields, x.slots, x.extra)
           /\ x.cls \in DOMAIN Classes \/ x.cls \in Unknown
           /\ x.id \in Seq(Byte) /\ x.fields \in Seq(Seq(Byte)) /\ x.slots \in Seq(Seq(S)) /\ x.extra \in Seq(S)
           /\ Subparams(x) \in Seq(S)
<1>1. /\ x = Struct(x.cls, x.id, x.fields, x.slots, x.extra)
      /\ x.cls \in DOMAIN Classes \/ x.cls \in Unknown
      /\ x.id \in Seq(Byte) /\ x.fields \in Seq(Seq(Byte)) /\ x.slots \in Seq(Seq(S)) /\ x.extra \in Seq(S)
  BY DEF StructsOver, Struct
<1>2. FlattenSeq(x.slots) \in Seq(S) BY <1>1, FlattenType
<1>3. Subparams(x) \in Seq(S) BY <1>1, <1>2, ConcatProperties DEF Subparams
<1> QED BY <1>1, <1>3

\* What is unknown has no sub-parameters.
LEMMA UnknownIs ==
    ASSUME NEW S, NEW x \in StructsOver(S), x.cls \in Unknown, Regular(x)
    PROVE  /\ Subparams(x) = <<>> /\ x.slots = <<>> /\ x.extra = <<>>
           /\ x.fields = <<x.fields[1]>> /\ x.fields[1] \in Seq(Byte)
           /\ x = Struct(x.cls, x.id, <<x.fields[1]>>, <<>>, <<>>)
<1>1. x.slots = <<>> /\ x.extra = <<>> /\ Len(x.fields) = 1 BY DEF Regular, IsUnknown
<1>2. x.fields \in Seq(Seq(Byte)) BY StructIs
<1>3. x.fields = <<x.fields[1]>> /\ x.fields[1] \in Seq(Byte)
  <2>1. x.fields \in [1..1 -> Seq(Byte)] BY <1>1, <1>2, LenProperties
  <2>2. 1..1 = {1} OBVIOUS
  <2> DEFINE f == x.fields
             v == f[1]
  <2>3. v \in Seq(Byte) BY <2>1, <2>2
  <2>4. <<v>> \in Seq(Seq(Byte)) /\ Len(<<v>>) = 1 /\ <<v>>[1] = v BY <2>3
  <2>5. f \in Seq(Seq(Byte)) /\ Len(f) = 1 BY <1>1, <1>2
  <2>6. \A i \in 1..1 : f[i] = <<v>>[i] BY <2>4
  <2> HIDE DEF f
  <2>7. f = <<v>> BY <2>4, <2>5, <2>6, SeqEqual
  <2> QED BY <2>3, <2>7 DEF f
<1>4. Subparams(x) = <<>>
  <2>1. FlattenSeq(<<>>) = <<>> /\ <<>> \o <<>> = <<>> BY FlattenEmpty
  <2> QED BY <1>1, <2>1 DEF Subparams
<1>5. x = Struct(x.cls, x.id, x.fields, x.slots, x.extra) BY StructIs
<1> QED BY <1>1, <1>3, <1>4, <1>5

\* The fields of a known class, written.
LEMMA FieldsWritten ==
    ASSUME NEW c \in DOMAIN Classes, NEW values, IsFields(c, values), Aligned(WriteFields(c, values)),
           NEW bits, bits = WriteFields(c, values).bits
    PROVE  /\ AreValues(Classes[c].fields, values) /\ WriteFields(c, values).ok
           /\ bits \in BitStrings /\ Len(bits) \in Nat /\ Len(bits) % 8 = 0 /\ 8 * (Len(bits) \div 8) = Len(bits)
           /\ Pack(bits) \in Seq(Byte) /\ Len(Pack(bits)) = Len(bits) \div 8 /\ Len(bits) \div 8 \in Nat
<1> DEFINE kinds == Classes[c].fields
           n == Len(kinds)
<1>1. kinds \in Seq(Int) BY ClassIs
<1>2. AreValues(kinds, values)
  <2>1. values \in Seq(BitStrings) /\ Len(values) = n /\ \A i \in DOMAIN values : IsValue(values[i], kinds[i])
    BY DEF IsFields, BitStrings
  <2>2. DOMAIN values = 1..n BY <2>1, LenProperties
  <2> QED BY <2>1, <2>2 DEF AreValues
<1> DEFINE o == Writing(kinds, values)[n]
<1>3. WriteFields(c, values) = o BY DEF WriteFields
<1>4. o \in Outputs
  <2>1. n \in Nat BY <1>1, LenProperties
  <2>2. n \in 0..n BY <2>1
  <2>3. Writing(kinds, values) \in [0..n -> Outputs]
    <3>1. values \in Seq(BitStrings) /\ Len(values) = Len(kinds) BY <1>2 DEF AreValues
    <3> HIDE DEF kinds
    <3> QED BY <1>1, <3>1, WritingIs
  <2> HIDE DEF kinds, n
  <2> QED BY <2>2, <2>3
<1>5. bits \in BitStrings BY <1>3, <1>4 DEF Outputs
<1>6. Len(bits) % 8 = 0 /\ WriteFields(c, values).ok BY DEF Aligned
<1>7. Len(bits) \in Nat BY <1>5, LenProperties DEF BitStrings
<1>8. 8 * (Len(bits) \div 8) = Len(bits) /\ Len(bits) \div 8 \in Nat
  <2> DEFINE l == Len(bits)
  <2>1. l \in Nat /\ l % 8 = 0 BY <1>6, <1>7
  <2> HIDE DEF l
  <2>2. 8 * (l \div 8) = l /\ l \div 8 \in Nat BY <2>1, Eighths
  <2> QED BY <2>2 DEF l
<1>9. Pack(bits) \in Seq(Byte) /\ Len(Pack(bits)) = Len(bits) \div 8 BY <1>5, Packed DEF BitStrings
<1> QED BY <1>2, <1>5, <1>6, <1>7, <1>8, <1>9

(* Bodies and headers. *)

IsTlv(x) == x.cls \in {"UnknownParameter", "UnknownCustomParameter"} \/ x.cls \in OfKinds({"tlv", "custom"})

\* The sorts of structures: a message, a TV or a TLV.
LEMMA SortsAre ==
    ASSUME NEW S, NEW x \in StructsOver(S)
    PROVE  /\ IsMessage(x.cls) \/ x.cls \in OfKinds({"tv"}) \/ IsTlv(x)
           /\ x.cls \in OfKinds({"tv"}) => ~IsMessage(x.cls)
           /\ IsTlv(x) => ~IsMessage(x.cls) /\ x.cls \notin OfKinds({"tv"})
<1>1. x.cls \in DOMAIN Classes \/ x.cls \in Unknown BY StructIs
<1>2. CASE x.cls \in DOMAIN Classes
  <2>1. x.cls \notin {"UnknownParameter", "UnknownCustomParameter"} BY <1>2, ClassIs DEF Unknown
  <2>2. x.cls \in OfKinds({"tv"}) <=> Classes[x.cls].kind \in {"tv"} BY <1>2, KindIs
  <2>3. x.cls \in OfKinds({"tlv", "custom"}) <=> Classes[x.cls].kind \in {"tlv", "custom"} BY <1>2, KindIs
  <2>4. /\ Classes[x.cls].kind \in {"tlv", "tv", "custom", "msg", "custommsg"}
        /\ IsMessage(x.cls) <=> Classes[x.cls].kind \in {"msg", "custommsg"}
    BY <1>2, ClassIs
  <2> QED BY <2>1, <2>2, <2>3, <2>4 DEF IsTlv
<1>3. CASE x.cls \in Unknown
  <2>1. x.cls \notin DOMAIN Classes BY <1>3, ClassIs
  <2>2. \A kinds : x.cls \notin OfKinds(kinds) BY <2>1 DEF OfKinds
  <2> QED BY <1>3, <2>2 DEF IsTlv, Unknown, IsMessage
<1> QED BY <1>1, <1>2, <1>3

\* The frame of each sort.
LEMMA TlvFrame ==
    ASSUME NEW S, NEW x \in StructsOver(S), NEW body, IsTlv(x)
    PROVE  /\ Frame(x, body) = PutU16(Type(x)) \o PutU16(4 + Len(body)) \o body
           /\ Fits(x, body) <=> 4 + Len(body) <= 65535
<1>1. ~IsMessage(x.cls) /\ x.cls \notin OfKinds({"tv"}) BY SortsAre
<1>2. Frame(x, body) = PutU16(Type(x)) \o PutU16(4 + Len(body)) \o body BY <1>1 DEF Frame
<1>3. Fits(x, body) <=> 4 + Len(body) <= 65535 BY <1>1 DEF Fits, MAX_TLV
<1> QED BY <1>2, <1>3

LEMMA TvFrame ==
    ASSUME NEW S, NEW x \in StructsOver(S), NEW body, x.cls \in OfKinds({"tv"})
    PROVE  Frame(x, body) = <<128 + Type(x)>> \o body /\ Fits(x, body)
<1>1. ~IsMessage(x.cls) BY SortsAre
<1> QED BY <1>1 DEF Frame, Fits

LEMMA MessageFrame ==
    ASSUME NEW x, NEW body, IsMessage(x.cls)
    PROVE  /\ Frame(x, body) = PutU16(x.id[1] * 1024 + Type(x)) \o PutU32(10 + Len(body))
                                   \o SubSeq(x.id, 2, 5) \o body
           /\ Fits(x, body) <=> TopByte(10 + Len(body)) <= 255
<1>1. Frame(x, body) = PutU16(x.id[1] * 1024 + Type(x)) \o PutU32(10 + Len(body))
                           \o SubSeq(x.id, 2, 5) \o body
  BY DEF Frame
<1>2. Fits(x, body) <=> TopByte(10 + Len(body)) <= 255 BY DEF Fits
<1> QED BY <1>1, <1>2

\* The prefix and the type of a known class.
LEMMA KnownPrefix ==
    ASSUME NEW x, x.cls \in DOMAIN Classes
    PROVE  /\ Classes[x.cls].kind = "custom" => Prefix(x) = Key(x.cls) /\ Len(Prefix(x)) = 8 /\ Type(x) = 1023
           /\ Classes[x.cls].kind = "custommsg" => Prefix(x) = Key(x.cls) /\ Len(Prefix(x)) = 5 /\ Type(x) = 1023
           /\ Classes[x.cls].kind \in {"tlv", "tv", "msg"} => Prefix(x) = <<>> /\ Type(x) = Classes[x.cls].type
           /\ Prefix(x) \in Seq(Byte)
<1> DEFINE c == x.cls
           kind == Classes[c].kind
<1>1. c \notin Unknown /\ kind \in {"tlv", "tv", "custom", "msg", "custommsg"} BY ClassIs
<1>2. c \in OfKinds({"custom", "custommsg"}) <=> kind \in {"custom", "custommsg"} BY KindIs
<1>3. c \in OfKinds({"tlv", "tv", "msg"}) <=> kind \in {"tlv", "tv", "msg"} BY KindIs
<1>4. c \notin {"UnknownParameter", "UnknownMessage", "UnknownCustomParameter", "UnknownCustomMessage"} BY <1>1 DEF Unknown
<1>5. kind \in {"custom", "custommsg"} => Prefix(x) = Key(c) /\ Type(x) = 1023
  BY <1>1, <1>2, <1>3, <1>4 DEF Prefix, Type, TYPE_CUSTOM
<1>6. kind \in {"tlv", "tv", "msg"} => Prefix(x) = <<>> /\ Type(x) = Classes[c].type
  BY <1>1, <1>2, <1>3, <1>4 DEF Prefix, Type
<1>7. <<>> \in Seq(Byte) BY EmptySeq
<1>8. CASE kind = "custom" BY <1>5, <1>8, KeyType
<1>9. CASE kind = "custommsg" BY <1>5, <1>9, KeyType
<1>10. CASE kind \in {"tlv", "tv", "msg"} BY <1>6, <1>7, <1>10, Zenon
<1> QED BY <1>1, <1>8, <1>9, <1>10

\* The prefix and the type of what is unknown.
LEMMA UnknownParameterIs ==
    ASSUME NEW x, x.cls = "UnknownParameter", Regular(x)
    PROVE  /\ Prefix(x) = <<>> /\ Type(x) \in 0..1022 /\ x.id = PutU16(Type(x))
           /\ Type(x) \notin {Classes[c].type : c \in OfKinds({"tlv"})}
<1>1. x.cls \notin DOMAIN Classes BY ClassIs DEF Unknown
<1>2. \A kinds : x.cls \notin OfKinds(kinds) BY <1>1 DEF OfKinds
<1>3. IsUnknown(x) BY DEF Regular, Unknown
<1>4. /\ x.id \in {PutU16(t) : t \in 0..(TYPE_CUSTOM - 1)}
      /\ U16(x.id, 0) \notin {Classes[c].type : c \in OfKinds({"tlv"})}
  BY <1>3 DEF IsUnknown
<1>5. PICK t \in 0..1022 : x.id = PutU16(t)
  <2>1. TYPE_CUSTOM - 1 = 1022 BY DEF TYPE_CUSTOM
  <2> QED BY <1>4, <2>1
<1>6. U16(x.id, 0) = t
  <2>1. t \in Nat /\ t <= 65535 OBVIOUS
  <2> QED BY <1>5, <2>1, PutU16Type
<1>7. Prefix(x) = <<>> /\ Type(x) = U16(x.id, 0) BY <1>2 DEF Prefix, Type
<1>8. Type(x) = t BY <1>6, <1>7
<1>9. Type(x) \in 0..1022 BY <1>8
<1>10. Type(x) \notin {Classes[c].type : c \in OfKinds({"tlv"})} BY <1>4, <1>7
<1> QED BY <1>4, <1>5, <1>7, <1>8, <1>9, <1>10

LEMMA UnknownCustomParameterIs ==
    ASSUME NEW x, x.cls = "UnknownCustomParameter", Regular(x)
    PROVE  /\ Prefix(x) = x.id /\ Len(x.id) = 8 /\ Type(x) = 1023
           /\ x.id \notin DOMAIN CUSTOM_PARAMETER_REGISTRY
<1>1. x.cls \notin DOMAIN Classes BY ClassIs DEF Unknown
<1>2. \A kinds : x.cls \notin OfKinds(kinds) BY <1>1 DEF OfKinds
<1>3. IsUnknown(x) BY DEF Regular, Unknown
<1>4. Len(x.id) = 8 /\ x.id \notin DOMAIN CUSTOM_PARAMETER_REGISTRY BY <1>3 DEF IsUnknown
<1>5. Prefix(x) = x.id /\ Type(x) = 1023 BY <1>2 DEF Prefix, Type, TYPE_CUSTOM
<1> QED BY <1>4, <1>5

LEMMA UnknownMessageIs ==
    ASSUME NEW x, x.cls = "UnknownMessage", Regular(x), x.id \in Seq(Byte)
    PROVE  /\ Prefix(x) = <<>> /\ Len(x.id) = 7 /\ Type(x) \in 0..1022 /\ SubSeq(x.id, 6, 7) = PutU16(Type(x))
           /\ Type(x) \notin DOMAIN MESSAGE_REGISTRY /\ IsHeader(SubSeq(x.id, 1, 5))
<1>1. x.cls \notin DOMAIN Classes BY ClassIs DEF Unknown
<1>2. \A kinds : x.cls \notin OfKinds(kinds) BY <1>1 DEF OfKinds
<1>3. IsUnknown(x) BY DEF Regular, Unknown
<1>4. /\ Len(x.id) = 7 /\ IsHeader(SubSeq(x.id, 1, 5))
      /\ SubSeq(x.id, 6, 7) \in {PutU16(t) : t \in 0..(TYPE_CUSTOM - 1)}
      /\ U16(x.id, 5) \notin DOMAIN MESSAGE_REGISTRY
  BY <1>3 DEF IsUnknown
<1>5. PICK t \in 0..1022 : SubSeq(x.id, 6, 7) = PutU16(t)
  <2>1. PICK m : m = TYPE_CUSTOM - 1 OBVIOUS
  <2>2. SubSeq(x.id, 6, 7) \in {PutU16(t) : t \in 0..m} BY <1>4, <2>1, Zenon
  <2>3. PICK t \in 0..m : SubSeq(x.id, 6, 7) = PutU16(t) BY <2>2, Zenon
  <2>4. m = 1022 BY <2>1 DEF TYPE_CUSTOM
  <2> QED BY <2>3, <2>4, ZenonT(60)
<1>6. U16(x.id, 5) = t
  <2>1. PICK p \in Nat : p = 5 OBVIOUS
  <2>2. PICK n \in Nat : n = 2 OBVIOUS
  <2>3. p + 1 = 6 /\ p + n = 7 /\ p + n <= Len(x.id) BY <1>4, <2>1, <2>2
  <2>4. Lies(x.id, p, SubSeq(x.id, p + 1, p + n)) BY <2>3, CutLies, Zenon
  <2>5. Lies(x.id, p, PutU16(t)) BY <1>5, <2>3, <2>4, Zenon
  <2>6. t \in Nat /\ t <= 65535 OBVIOUS
  <2>7. U16(x.id, p) = t BY <2>5, <2>6, U16Lies
  <2> QED BY <2>1, <2>7
<1>7. Prefix(x) = <<>> /\ Type(x) = U16(x.id, 5) BY <1>2 DEF Prefix, Type
<1>8. Type(x) = t BY <1>6, <1>7
<1>9. Type(x) \in 0..1022 BY <1>8
<1>10. Type(x) \notin DOMAIN MESSAGE_REGISTRY BY <1>4, <1>7
<1> QED BY <1>4, <1>5, <1>7, <1>8, <1>9, <1>10

LEMMA UnknownCustomMessageIs ==
    ASSUME NEW x, x.cls = "UnknownCustomMessage", Regular(x), x.id \in Seq(Byte)
    PROVE  /\ Prefix(x) = SubSeq(x.id, 6, 10) /\ Len(x.id) = 10 /\ Type(x) = 1023
           /\ Prefix(x) \in Seq(Byte) /\ Len(Prefix(x)) = 5
           /\ SubSeq(x.id, 6, 10) \notin DOMAIN CUSTOM_MESSAGE_REGISTRY /\ IsHeader(SubSeq(x.id, 1, 5))
<1>1. x.cls \notin DOMAIN Classes BY ClassIs DEF Unknown
<1>2. \A kinds : x.cls \notin OfKinds(kinds) BY <1>1 DEF OfKinds
<1>3. IsUnknown(x) BY DEF Regular, Unknown
<1>4. /\ Len(x.id) = 10 /\ IsHeader(SubSeq(x.id, 1, 5))
      /\ SubSeq(x.id, 6, 10) \notin DOMAIN CUSTOM_MESSAGE_REGISTRY
  BY <1>3 DEF IsUnknown
<1>5. Prefix(x) = SubSeq(x.id, 6, 10) /\ Type(x) = 1023 BY <1>2 DEF Prefix, Type, TYPE_CUSTOM
<1>6. SubSeq(x.id, 6, 10) \in Seq(Byte) /\ Len(SubSeq(x.id, 6, 10)) = 5
  <2>1. PICK p \in Nat : p = 5 OBVIOUS
  <2>2. p + 1 = 6 /\ p + p = 10 /\ p + p <= Len(x.id) BY <1>4, <2>1
  <2>3. SubSeq(x.id, p + 1, p + p) \in Seq(Byte) /\ Len(SubSeq(x.id, p + 1, p + p)) = p BY <2>2, CutLies
  <2> QED BY <2>1, <2>2, <2>3
<1> QED BY <1>4, <1>5, <1>6

\* The prefix is bytes.
LEMMA PrefixType ==
    ASSUME NEW S, NEW x \in StructsOver(S), Regular(x)
    PROVE  Prefix(x) \in Seq(Byte)
<1>1. x.cls \in DOMAIN Classes \/ x.cls \in Unknown BY StructIs
<1>2. x.id \in Seq(Byte) BY StructIs
<1>3. <<>> \in Seq(Byte) BY EmptySeq
<1>4. CASE x.cls \in DOMAIN Classes BY <1>4, KnownPrefix
<1>5. CASE x.cls = "UnknownParameter" BY <1>3, <1>5, UnknownParameterIs, ZenonT(60)
<1>6. CASE x.cls = "UnknownCustomParameter" BY <1>2, <1>6, UnknownCustomParameterIs
<1>7. CASE x.cls = "UnknownMessage" BY <1>2, <1>3, <1>7, UnknownMessageIs, ZenonT(60)
<1>8. CASE x.cls = "UnknownCustomMessage" BY <1>2, <1>8, UnknownCustomMessageIs
<1> QED BY <1>1, <1>4, <1>5, <1>6, <1>7, <1>8 DEF Unknown

LEMMA ByteIs ==
    ASSUME NEW b \in Byte
    PROVE  b \in Nat /\ b <= 255
  BY DEF Byte

LEMMA IsByte ==
    ASSUME NEW b \in Nat, b <= 255
    PROVE  b \in Byte
  BY DEF Byte

\* The body: what identifies a vendor's class, and a payload or fields and sub-parameters.
LEMMA BodyIs ==
    ASSUME NEW S, NEW x \in StructsOver(S), Regular(x), NEW V, NEW e, HasWires(e, V), Subparams(x) \in Seq(V),
           Encodes(e, x), NEW ws, ws = FlattenSeq(Wires(e, Subparams(x)))
    PROVE  /\ Body(e, x) \in Seq(Byte)
           /\ x.cls \in Unknown => Body(e, x) = Prefix(x) \o x.fields[1] /\ x.fields[1] \in Seq(Byte)
           /\ x.cls \in DOMAIN Classes =>
                 /\ IsFields(x.cls, x.fields) /\ Aligned(WriteFields(x.cls, x.fields))
                 /\ ws \in Seq(Byte) /\ Complete(x.cls, x.slots)
                 /\ Body(e, x) = Prefix(x) \o (Pack(WriteFields(x.cls, x.fields).bits) \o ws)
<1>1. Prefix(x) \in Seq(Byte) BY PrefixType
<1>2. CASE x.cls \in Unknown
  <2>1. x.fields[1] \in Seq(Byte) BY <1>2, UnknownIs
  <2>2. Body(e, x) = Prefix(x) \o x.fields[1] BY <1>2 DEF Body
  <2>3. x.cls \notin DOMAIN Classes BY <1>2, ClassIs
  <2> QED BY <1>1, <1>2, <2>1, <2>2, <2>3, ConcatProperties
<1>3. CASE x.cls \in DOMAIN Classes
  <2>1. x.cls \notin Unknown BY <1>3, ClassIs
  <2>2. IsFields(x.cls, x.fields) BY <2>1 DEF Regular
  <2>3. Aligned(WriteFields(x.cls, x.fields)) /\ Complete(x.cls, x.slots) BY <2>1 DEF Encodes
  <2> DEFINE p == Pack(WriteFields(x.cls, x.fields).bits)
  <2>4. p \in Seq(Byte) BY <1>3, <2>2, <2>3, FieldsWritten
  <2>5. ws \in Seq(Byte)
    <3>1. Wires(e, Subparams(x)) \in Seq(Seq(Byte)) BY WiresType
    <3> QED BY <3>1, FlattenType
  <2>6. Body(e, x) = Prefix(x) \o (p \o ws) BY <2>1 DEF Body, Wires
  <2>7. p \o ws \in Seq(Byte) BY <2>4, <2>5, ConcatProperties
  <2>8. Body(e, x) \in Seq(Byte)
    <3> DEFINE q == p \o ws
    <3>1. q \in Seq(Byte) /\ Body(e, x) = Prefix(x) \o q BY <2>6, <2>7
    <3> HIDE DEF q
    <3> QED BY <1>1, <3>1, ConcatProperties
  <2> QED BY <1>3, <2>1, <2>2, <2>3, <2>5, <2>6, <2>8
<1>4. x.cls \in DOMAIN Classes \/ x.cls \in Unknown BY StructIs
<1> QED BY <1>2, <1>3, <1>4

\* The header of a message says its version and its ID.
LEMMA IdIs ==
    ASSUME NEW id \in Seq(Byte), Len(id) >= 5, NEW head, head = SubSeq(id, 1, 5), IsHeader(head)
    PROVE  /\ id[1] \in 0..7 /\ SubSeq(id, 2, 5) \in Seq(Byte) /\ Len(SubSeq(id, 2, 5)) = 4
           /\ head = <<id[1]>> \o SubSeq(id, 2, 5)
<1>1. Len(id) \in Nat BY LenProperties
<1>2. head \in Seq(Byte) /\ Len(head) = 5 /\ head[1] <= 7 BY DEF IsHeader
<1>3. PICK p \in Nat : p = 1 OBVIOUS
<1>4. PICK n \in Nat : n = 4 OBVIOUS
<1>5. p + 1 = 2 /\ p + n = 5 /\ p + n <= Len(id) BY <1>1, <1>3, <1>4
<1>6. SubSeq(id, p + 1, p + n) \in Seq(Byte) /\ Len(SubSeq(id, p + 1, p + n)) = n BY <1>5, CutLies
<1>7. SubSeq(id, 2, 5) \in Seq(Byte) /\ Len(SubSeq(id, 2, 5)) = 4 BY <1>4, <1>5, <1>6
<1>8. 1 \in 1..Len(id) /\ 5 \in 1..Len(id) BY <1>1
<1>9. PICK i \in 1..Len(id) : i = 1 BY <1>8
<1>10. PICK j \in i..Len(id) : j = 5 BY <1>8, <1>9
<1>11. SubSeq(id, i, j) = <<id[i]>> \o SubSeq(id, i + 1, j) BY SubSeqRecursiveFirst
<1>12. i + 1 = 2 BY <1>9
<1>13. head = <<id[1]>> \o SubSeq(id, 2, 5) BY <1>9, <1>10, <1>11, <1>12
<1>14. id[1] \in Byte BY <1>8, ElementOfSeq
<1>15. head[1] = id[1]
  <2>1. PICK z \in Nat : z = 0 OBVIOUS
  <2>2. PICK m \in Nat : m = 5 OBVIOUS
  <2>3. z + 1 = 1 /\ z + m = 5 /\ z + m <= Len(id) /\ 1 \in 1..m BY <1>1, <2>1, <2>2
  <2>4. \A k \in 1..m : SubSeq(id, z + 1, z + m)[k] = id[z + k] BY <2>3, CutLies
  <2> QED BY <2>3, <2>4
<1>16. id[1] \in 0..7
  <2>1. PICK b \in Nat : b = id[1] BY <1>14, ByteIs
  <2>2. b <= 7 BY <1>2, <1>15, <2>1
  <2>3. b \in 0..7 BY <2>2
  <2> QED BY <2>1, <2>3
<1> QED BY <1>7, <1>13, <1>16

LEMMA HeaderIs ==
    ASSUME NEW S, NEW x \in StructsOver(S), Regular(x), IsMessage(x.cls)
    PROVE  /\ Len(x.id) >= 5 /\ IsHeader(SubSeq(x.id, 1, 5)) /\ x.id[1] \in 0..7
           /\ SubSeq(x.id, 2, 5) \in Seq(Byte) /\ Len(SubSeq(x.id, 2, 5)) = 4
           /\ SubSeq(x.id, 1, 5) = <<x.id[1]>> \o SubSeq(x.id, 2, 5)
<1>1. PICK id \in Seq(Byte) : id = x.id BY StructIs
<1>2. Len(id) >= 5 /\ IsHeader(SubSeq(id, 1, 5))
  <2>1. CASE x.cls \in Unknown
    <3>1. x.cls \in {"UnknownMessage", "UnknownCustomMessage"} BY <2>1 DEF IsMessage
    <3>2. CASE x.cls = "UnknownMessage"
      <4>1. Len(id) = 7 /\ IsHeader(SubSeq(id, 1, 5)) BY <1>1, <3>2, UnknownMessageIs
      <4> QED BY <4>1
    <3>3. CASE x.cls = "UnknownCustomMessage"
      <4>1. Len(id) = 10 /\ IsHeader(SubSeq(id, 1, 5)) BY <1>1, <3>3, UnknownCustomMessageIs
      <4> QED BY <4>1
    <3> QED BY <3>1, <3>2, <3>3
  <2>2. CASE x.cls \notin Unknown
    <3>1. IsHeader(id) BY <1>1, <2>2 DEF Regular
    <3>2. Len(id) = 5 BY <3>1 DEF IsHeader
    <3>3. SubSeq(id, 1, Len(id)) = id BY SubSeqFull
    <3>4. SubSeq(id, 1, 5) = id BY <3>2, <3>3
    <3>5. IsHeader(SubSeq(id, 1, 5)) BY <3>1, <3>4
    <3> QED BY <3>2, <3>5
  <2> QED BY <2>1, <2>2
<1>3. PICK head : head = SubSeq(id, 1, 5) OBVIOUS
<1>4. /\ id[1] \in 0..7 /\ SubSeq(id, 2, 5) \in Seq(Byte) /\ Len(SubSeq(id, 2, 5)) = 4
      /\ head = <<id[1]>> \o SubSeq(id, 2, 5)
  BY <1>2, <1>3, IdIs
<1> QED BY <1>1, <1>2, <1>3, <1>4

\* The type of a message, of a TLV parameter and of a TV parameter.
LEMMA MessageTypeIs ==
    ASSUME NEW S, NEW x \in StructsOver(S), Regular(x), IsMessage(x.cls)
    PROVE  Type(x) \in Nat /\ Type(x) <= 1023
<1>1. x.cls \in DOMAIN Classes \/ x.cls \in Unknown BY StructIs
<1>2. x.id \in Seq(Byte) BY StructIs
<1>3. CASE x.cls \in DOMAIN Classes
  <2>1. Classes[x.cls].kind \in {"msg", "custommsg"} BY <1>3, ClassIs
  <2>2. CASE Classes[x.cls].kind = "msg"
    <3>1. Type(x) = Classes[x.cls].type BY <1>3, <2>2, KnownPrefix
    <3>2. Classes[x.cls].type \in Nat /\ Classes[x.cls].type < 1023 BY <1>3, <2>2, NumberIs
    <3> QED BY <3>1, <3>2
  <2>3. CASE Classes[x.cls].kind = "custommsg"
    <3>1. Type(x) = 1023 BY <1>3, <2>3, KnownPrefix
    <3> QED BY <3>1
  <2> QED BY <2>1, <2>2, <2>3
<1>4. CASE x.cls = "UnknownMessage"
  <2>1. Type(x) \in 0..1022 BY <1>2, <1>4, UnknownMessageIs, ZenonT(60)
  <2> QED BY <2>1
<1>5. CASE x.cls = "UnknownCustomMessage"
  <2>1. Type(x) = 1023 BY <1>2, <1>5, UnknownCustomMessageIs
  <2> QED BY <2>1
<1>6. x.cls \in Unknown => x.cls \in {"UnknownMessage", "UnknownCustomMessage"} BY DEF IsMessage
<1> QED BY <1>1, <1>3, <1>4, <1>5, <1>6

LEMMA TlvTypeIs ==
    ASSUME NEW x, Regular(x), IsTlv(x)
    PROVE  Type(x) \in Nat /\ Type(x) <= 1023
<1>1. CASE x.cls \in OfKinds({"tlv", "custom"})
  <2>1. x.cls \in DOMAIN Classes /\ Classes[x.cls].kind \in {"tlv", "custom"} BY <1>1 DEF OfKinds
  <2>2. CASE Classes[x.cls].kind = "tlv"
    <3>1. Type(x) = Classes[x.cls].type BY <2>1, <2>2, KnownPrefix
    <3>2. Classes[x.cls].type \in Nat /\ Classes[x.cls].type < 1023 BY <2>1, <2>2, NumberIs
    <3> QED BY <3>1, <3>2
  <2>3. CASE Classes[x.cls].kind = "custom"
    <3>1. Type(x) = 1023 BY <2>1, <2>3, KnownPrefix
    <3> QED BY <3>1
  <2> QED BY <2>1, <2>2, <2>3
<1>2. CASE x.cls = "UnknownParameter"
  <2>1. Type(x) \in 0..1022 BY <1>2, UnknownParameterIs, ZenonT(60)
  <2> QED BY <2>1
<1>3. CASE x.cls = "UnknownCustomParameter"
  <2>1. Type(x) = 1023 BY <1>3, UnknownCustomParameterIs
  <2> QED BY <2>1
<1> QED BY <1>1, <1>2, <1>3 DEF IsTlv

LEMMA TvTypeIs ==
    ASSUME NEW x, x.cls \in OfKinds({"tv"})
    PROVE  /\ Type(x) \in Nat /\ Type(x) < 128 /\ Type(x) = Classes[x.cls].type /\ Prefix(x) = <<>>
           /\ x.cls \in DOMAIN Classes /\ Classes[x.cls].kind = "tv" /\ SlotsOf(x.cls) = <<>>
<1>1. x.cls \in DOMAIN Classes /\ Classes[x.cls].kind = "tv" BY DEF OfKinds
<1>2. Type(x) = Classes[x.cls].type /\ Prefix(x) = <<>> BY <1>1, KnownPrefix
<1>3. Classes[x.cls].type \in Nat /\ Classes[x.cls].type < 128 /\ SlotsOf(x.cls) = <<>> BY <1>1, NumberIs
<1> QED BY <1>1, <1>2, <1>3

\* What is framed is bytes, and how many.
LEMMA FrameType ==
    ASSUME NEW S, NEW x \in StructsOver(S), Regular(x), NEW body \in Seq(Byte), Fits(x, body)
    PROVE  /\ Frame(x, body) \in Seq(Byte)
           /\ IsTlv(x) => Len(Frame(x, body)) = 4 + Len(body)
           /\ x.cls \in OfKinds({"tv"}) => Len(Frame(x, body)) = 1 + Len(body)
           /\ IsMessage(x.cls) => Len(Frame(x, body)) = 10 + Len(body)
           /\ Len(body) \in Nat /\ Len(Frame(x, body)) > 0
<1>1. PICK l \in Nat : l = Len(body) BY LenProperties
<1>2. CASE IsTlv(x)
  <2>1. PICK a \in Seq(Byte) : a = PutU16(Type(x)) /\ Len(a) = 2
    <3>1. Type(x) \in Nat /\ Type(x) <= 1023 BY <1>2, TlvTypeIs
    <3>2. PICK n \in Nat : n = Type(x) /\ n <= 65535 BY <3>1
    <3>3. PutU16(n) \in Seq(Byte) /\ Len(PutU16(n)) = 2 BY <3>2, PutU16Type
    <3> QED BY <3>2, <3>3
  <2>2. PICK b \in Seq(Byte) : b = PutU16(4 + Len(body)) /\ Len(b) = 2
    <3>1. 4 + Len(body) <= 65535 BY <1>2, TlvFrame
    <3>2. PICK n \in Nat : n = 4 + Len(body) BY <1>1
    <3>3. PutU16(n) \in Seq(Byte) /\ Len(PutU16(n)) = 2 BY <3>1, <3>2, PutU16Type
    <3> QED BY <3>2, <3>3
  <2>5. ~IsMessage(x.cls) /\ x.cls \notin OfKinds({"tv"}) BY <1>2, SortsAre
  <2>3. Frame(x, body) = PutU16(Type(x)) \o PutU16(4 + Len(body)) \o body BY <2>5 DEF Frame
  <2>4. a \o b \o body \in Seq(Byte) /\ Len(a \o b \o body) = Len(a) + Len(b) + Len(body) BY LenThree
  <2>6. Len(a) + Len(b) + l = 4 + l /\ 4 + l > 0
    <3>1. Len(a) + Len(b) + l = 2 + 2 + l BY <2>1, <2>2
    <3>2. 2 + 2 + l = 4 + l /\ 4 + l > 0 OBVIOUS
    <3> QED BY <3>1, <3>2
  <2>7. Frame(x, body) \in Seq(Byte) /\ Len(Frame(x, body)) = 4 + l BY <1>1, <2>1, <2>2, <2>3, <2>4, <2>6
  <2> QED BY <1>1, <2>5, <2>6, <2>7
<1>3. CASE x.cls \in OfKinds({"tv"})
  <2>1. PICK a \in Seq(Byte) : a = <<128 + Type(x)>> /\ Len(a) = 1
    <3>1. Type(x) \in Nat /\ Type(x) < 128 BY <1>3, TvTypeIs
    <3>2. PICK t \in Nat : t = Type(x) /\ t < 128 BY <3>1
    <3>6. 128 + t \in Nat /\ 128 + t <= 255 BY <3>2
    <3>5. 128 + t \in Byte BY <3>6, IsByte
    <3>3. PICK v \in Byte : v = 128 + Type(x) BY <3>2, <3>5
    <3>4. <<v>> \in Seq(Byte) /\ Len(<<v>>) = 1 OBVIOUS
    <3> QED BY <3>3, <3>4
  <2>2. Frame(x, body) = a \o body BY <1>3, <2>1, TvFrame
  <2>3. a \o body \in Seq(Byte) /\ Len(a \o body) = Len(a) + Len(body) BY ConcatProperties
  <2>4. ~IsMessage(x.cls) /\ ~IsTlv(x) BY <1>3, SortsAre
  <2>5. Len(a) + l = 1 + l /\ 1 + l > 0 BY <2>1
  <2>6. Frame(x, body) \in Seq(Byte) /\ Len(Frame(x, body)) = 1 + l BY <1>1, <2>2, <2>3, <2>5
  <2> QED BY <1>1, <1>3, <2>4, <2>5, <2>6
<1>4. CASE IsMessage(x.cls)
  <2>1. PICK a \in Seq(Byte) : a = PutU16(x.id[1] * 1024 + Type(x)) /\ Len(a) = 2
    <3>1. Type(x) \in Nat /\ Type(x) <= 1023 BY <1>4, MessageTypeIs
    <3>2. x.id[1] \in 0..7 BY <1>4, HeaderIs
    <3>3. PICK t \in Nat : t = Type(x) /\ t <= 1023 BY <3>1
    <3>4. PICK v \in 0..7 : v = x.id[1] BY <3>2
    <3>5. v * 1024 + t \in Nat /\ v * 1024 + t <= 65535
      <4>1. v \in Nat /\ v <= 7 /\ t <= 1023 BY <3>3
      <4> QED BY <4>1
    <3>6. PICK n \in Nat : n = v * 1024 + t /\ n <= 65535 BY <3>5
    <3>7. PutU16(n) \in Seq(Byte) /\ Len(PutU16(n)) = 2 BY <3>6, PutU16Type
    <3> QED BY <3>3, <3>4, <3>6, <3>7
  <2>2. PICK b \in Seq(Byte) : b = PutU32(10 + Len(body)) /\ Len(b) = 4
    <3>1. TopByte(10 + Len(body)) <= 255 BY <1>4, MessageFrame
    <3>2. PICK n \in Nat : n = 10 + Len(body) BY <1>1
    <3>3. PutU32(n) \in Seq(Byte) /\ Len(PutU32(n)) = 4 BY <3>1, <3>2, PutU32Type
    <3> QED BY <3>2, <3>3
  <2>3. PICK i \in Seq(Byte) : i = SubSeq(x.id, 2, 5) /\ Len(i) = 4 BY <1>4, HeaderIs
  <2>4. Frame(x, body) = a \o b \o i \o body
    <3>1. Frame(x, body) = PutU16(x.id[1] * 1024 + Type(x)) \o PutU32(10 + Len(body))
                               \o SubSeq(x.id, 2, 5) \o body
      BY <1>4, Zenon DEF Frame
    <3> QED BY <2>1, <2>2, <2>3, <3>1
  <2>5. a \o b \o i \o body \in Seq(Byte) /\ Len(a \o b \o i \o body) = Len(a) + Len(b) + Len(i) + Len(body)
    BY LenFour
  <2>6. Len(a) + Len(b) + Len(i) + l = 10 + l /\ 10 + l > 0
    <3>0. Len(a) = 2 /\ Len(b) = 4 /\ Len(i) = 4 BY <2>1, <2>2, <2>3
    <3>1. Len(a) + Len(b) + Len(i) + l = 2 + 4 + 4 + l BY <3>0
    <3>2. 2 + 4 + 4 + l = 10 + l /\ 10 + l > 0 OBVIOUS
    <3> QED BY <3>1, <3>2
  <2>7. ~IsTlv(x) /\ x.cls \notin OfKinds({"tv"}) BY <1>4, SortsAre
  <2>8. Frame(x, body) \in Seq(Byte) /\ Len(Frame(x, body)) = 10 + l BY <1>1, <2>4, <2>5, <2>6
  <2> QED BY <1>1, <1>4, <2>6, <2>7, <2>8
<1> QED BY <1>2, <1>3, <1>4, SortsAre

(* Decoding, from the end of a wire to its beginning. *)

\* Where the fields of a class end.
LEMMA FieldsEnd ==
    ASSUME NEW c \in DOMAIN Classes, NEW w \in Seq(Byte), NEW pos \in Nat, pos <= Len(w),
           NEW r, r = DecodeFields(c, w, pos), r.ok
    PROVE  /\ r.p \in Nat /\ 8 * pos <= r.p /\ r.p <= 8 * Len(w)
           /\ r.p % 8 = 0 => r.p \div 8 \in pos..Len(w) /\ r.p = 8 * (r.p \div 8)
<1> DEFINE kinds == Classes[c].fields
<1>1. kinds \in Seq(Int) BY ClassIs
<1>2. r = Reading(kinds, w, pos)[Len(kinds)] BY DEF DecodeFields
<1>3. Len(w) \in Nat BY LenProperties
<1> HIDE DEF kinds
<1>4. r.p \in Nat /\ 8 * pos <= r.p /\ r.p <= 8 * Len(w) BY <1>1, <1>2, FieldsRead
<1>5. ASSUME r.p % 8 = 0 PROVE r.p \div 8 \in pos..Len(w) /\ r.p = 8 * (r.p \div 8)
  <2>1. PICK p \in Nat : p = r.p BY <1>4
  <2>2. p \div 8 \in Nat /\ p = 8 * (p \div 8) BY <1>5, <2>1, Eighths
  <2>3. p \div 8 \in pos..Len(w) BY <1>3, <1>4, <2>1, <2>2
  <2> QED BY <2>1, <2>2, <2>3
<1> QED BY <1>4, <1>5

\* The class of a TV, and of a TLV.
LEMMA TvClassIs ==
    ASSUME NEW t \in DOMAIN PARAMETER_REGISTRY
    PROVE  /\ PARAMETER_REGISTRY[t] \in DOMAIN Classes /\ Classes[PARAMETER_REGISTRY[t]].type = t
           /\ Classes[PARAMETER_REGISTRY[t]].kind \in {"tlv", "tv"}
<1> DEFINE c == PARAMETER_REGISTRY[t]
<1>1. c \in OfKinds({"tlv", "tv"}) /\ Key(c) = t BY RegistryOf DEF PARAMETER_REGISTRY
<1>2. c \in DOMAIN Classes /\ Classes[c].kind \in {"tlv", "tv"} BY <1>1 DEF OfKinds
<1>3. Key(c) = Classes[c].type BY <1>2, KeyType
<1> QED BY <1>1, <1>2, <1>3

LEMMA VendorClassIs ==
    ASSUME NEW key
    PROVE  /\ VendorClass(key) # NoClass =>
                 /\ VendorClass(key) \in DOMAIN Classes /\ Classes[VendorClass(key)].kind = "custom"
                 /\ Key(VendorClass(key)) = key /\ key \in DOMAIN CUSTOM_PARAMETER_REGISTRY
           /\ VendorClass(key) = NoClass => key \notin DOMAIN CUSTOM_PARAMETER_REGISTRY
<1>1. CASE key \in DOMAIN CUSTOM_PARAMETER_REGISTRY
  <2>1. VendorClass(key) = CUSTOM_PARAMETER_REGISTRY[key] BY <1>1 DEF VendorClass
  <2>2. VendorClass(key) \in OfKinds({"custom"}) /\ Key(VendorClass(key)) = key
    BY <1>1, <2>1, RegistryOf DEF CUSTOM_PARAMETER_REGISTRY
  <2>3. VendorClass(key) \in DOMAIN Classes /\ Classes[VendorClass(key)].kind = "custom" BY <2>2 DEF OfKinds
  <2>4. VendorClass(key) # NoClass BY <2>3, ClassIs
  <2> QED BY <1>1, <2>2, <2>3, <2>4
<1>2. CASE key \notin DOMAIN CUSTOM_PARAMETER_REGISTRY
  <2>1. VendorClass(key) = NoClass BY <1>2 DEF VendorClass
  <2> QED BY <1>2, <2>1
<1> QED BY <1>1, <1>2

LEMMA StandardClassIs ==
    ASSUME NEW t
    PROVE  /\ StandardClass(t) # NoClass =>
                 /\ StandardClass(t) \in DOMAIN Classes /\ Classes[StandardClass(t)].kind = "tlv"
                 /\ Classes[StandardClass(t)].type = t
           /\ StandardClass(t) = NoClass => t \notin {Classes[d].type : d \in OfKinds({"tlv"})}
<1>1. CASE t \in DOMAIN PARAMETER_REGISTRY
  <2>1. PICK d : d = PARAMETER_REGISTRY[t] OBVIOUS
  <2>2. d \in DOMAIN Classes /\ Classes[d].type = t BY <1>1, <2>1, TvClassIs
  <2>3. d # NoClass BY <2>2, ClassIs
  <2>4. CASE Classes[d].kind = "tlv"
    <3>1. StandardClass(t) = d BY <1>1, <2>1, <2>4 DEF StandardClass
    <3> QED BY <2>2, <2>3, <2>4, <3>1
  <2>5. CASE Classes[d].kind # "tlv"
    <3>1. StandardClass(t) = NoClass BY <2>1, <2>5 DEF StandardClass
    <3>2. ASSUME NEW f \in OfKinds({"tlv"}), Classes[f].type = t PROVE FALSE
      <4>1. f \in DOMAIN Classes /\ Classes[f].kind = "tlv" BY DEF OfKinds
      <4>2. f \in OfKinds({"tlv", "tv"}) BY <4>1 DEF OfKinds
      <4>3. Key(f) = t BY <3>2, <4>1, KeyType
      <4>4. PARAMETER_REGISTRY[Key(f)] = f BY <4>2, RegistryOf DEF PARAMETER_REGISTRY
      <4> QED BY <2>1, <2>5, <4>1, <4>3, <4>4
    <3> QED BY <3>1, <3>2
  <2> QED BY <2>4, <2>5
<1>2. CASE t \notin DOMAIN PARAMETER_REGISTRY
  <2>1. StandardClass(t) = NoClass BY <1>2 DEF StandardClass
  <2>2. ASSUME NEW f \in OfKinds({"tlv"}), Classes[f].type = t PROVE FALSE
    <3>1. f \in DOMAIN Classes /\ Classes[f].kind = "tlv" BY DEF OfKinds
    <3>2. f \in OfKinds({"tlv", "tv"}) BY <3>1 DEF OfKinds
    <3>3. Key(f) = t BY <2>2, <3>1, KeyType
    <3>4. Key(f) \in DOMAIN PARAMETER_REGISTRY BY <3>2, RegistryOf DEF PARAMETER_REGISTRY
    <3> QED BY <1>2, <3>3, <3>4
  <2> QED BY <2>1, <2>2
<1> QED BY <1>1, <1>2

\* What a TLV's class says: it is of that sort, and known by what the wire has there.
LEMMA TlvClassIs ==
    ASSUME NEW w, NEW pos, NEW c, c = TlvClass(w, pos), c # NoClass
    PROVE  /\ c \in DOMAIN Classes /\ Classes[c].kind \in {"tlv", "custom"} /\ c \in OfKinds({"tlv", "custom"})
           /\ TlvType(w, pos) = TYPE_CUSTOM <=> Classes[c].kind = "custom"
           /\ TlvType(w, pos) = TYPE_CUSTOM => Key(c) = SubSeq(w, pos + 5, pos + 12)
           /\ ~(TlvType(w, pos) = TYPE_CUSTOM) => Classes[c].type = TlvType(w, pos)
<1>1. PICK t : t = TlvType(w, pos) OBVIOUS
<1>2. PICK key : key = SubSeq(w, pos + 5, pos + 12) OBVIOUS
<1>3. c = IF t = TYPE_CUSTOM THEN VendorClass(key) ELSE StandardClass(t) BY <1>1, <1>2 DEF TlvClass
<1>4. CASE t = TYPE_CUSTOM
  <2>1. c = VendorClass(key) BY <1>3, <1>4
  <2>2. c \in DOMAIN Classes /\ Classes[c].kind = "custom" /\ Key(c) = key BY <2>1, VendorClassIs
  <2>3. c \in OfKinds({"tlv", "custom"}) BY <2>2, KindIs
  <2>4. TlvType(w, pos) = TYPE_CUSTOM BY <1>1, <1>4
  <2>5. Classes[c].kind \in {"tlv", "custom"} BY <2>2
  <2>6. Key(c) = SubSeq(w, pos + 5, pos + 12) BY <1>2, <2>2
  <2>7. TlvType(w, pos) = TYPE_CUSTOM <=> Classes[c].kind = "custom" BY <2>2, <2>4
  <2>8. TlvType(w, pos) = TYPE_CUSTOM => Key(c) = SubSeq(w, pos + 5, pos + 12) BY <2>6
  <2>9. ~(TlvType(w, pos) = TYPE_CUSTOM) => Classes[c].type = TlvType(w, pos) BY <2>4
  <2> QED BY <2>2, <2>3, <2>5, <2>7, <2>8, <2>9
<1>5. CASE t # TYPE_CUSTOM
  <2>1. c = StandardClass(t) BY <1>3, <1>5
  <2>2. c \in DOMAIN Classes /\ Classes[c].kind = "tlv" /\ Classes[c].type = t BY <2>1, StandardClassIs
  <2>3. c \in OfKinds({"tlv", "custom"}) BY <2>2, KindIs
  <2>4. ~(TlvType(w, pos) = TYPE_CUSTOM) /\ Classes[c].type = TlvType(w, pos) BY <1>1, <1>5, <2>2
  <2>5. Classes[c].kind \in {"tlv", "custom"} BY <2>2
  <2>7. TlvType(w, pos) = TYPE_CUSTOM <=> Classes[c].kind = "custom" BY <2>2, <2>4
  <2>8. TlvType(w, pos) = TYPE_CUSTOM => Key(c) = SubSeq(w, pos + 5, pos + 12) BY <2>4
  <2> QED BY <2>2, <2>3, <2>4, <2>5, <2>7, <2>8
<1> QED BY <1>4, <1>5

\* What a result says.
LEMMA OkIs ==
    ASSUME NEW p, NEW x
    PROVE  Ok(p, x).ok /\ Ok(p, x).pos = p /\ Ok(p, x).val = <<x>> /\ Ok(p, x).val[1] = x
  BY DEF Ok, Parsed

LEMMA ExactlyIs ==
    ASSUME NEW s, NEW end, NEW r, r = Exactly(s, end), r.ok
    PROVE  r = s /\ s.ok /\ s.pos = end
<1>1. CASE s.ok /\ s.pos = end BY <1>1 DEF Exactly
<1>2. CASE ~(s.ok /\ s.pos = end)
  <2>1. r = Failed BY <1>2 DEF Exactly
  <2> QED BY <2>1 DEF Failed
<1> QED BY <1>1, <1>2

\* A parameter ends behind its beginning and within the wire.
LEMMA TvIs ==
    ASSUME NEW w \in Seq(Byte), NEW pos \in Nat, pos < Len(w), NEW r, r = DecodeTv(w, pos), r.ok,
           NEW t, t = w[pos + 1] % 128, NEW c, c = PARAMETER_REGISTRY[t],
           NEW f, f = DecodeFields(c, w, pos + 1)
    PROVE  /\ t \in DOMAIN PARAMETER_REGISTRY /\ c \in DOMAIN Classes /\ Classes[c].kind = "tv" /\ Classes[c].type = t
           /\ f.ok /\ f.p % 8 = 0 /\ f.p \div 8 \in (pos + 1)..Len(w) /\ f.p = 8 * (f.p \div 8)
           /\ r = Ok(f.p \div 8, Struct(c, <<>>, f.values, <<>>, <<>>))
<1>0. Len(w) \in Nat BY LenProperties
<1>1. t \in DOMAIN PARAMETER_REGISTRY /\ Classes[c].kind = "tv" /\ r = TvParam(c, f) BY DEF DecodeTv, Failed
<1>2. f.ok /\ f.p % 8 = 0 /\ r = Ok(f.p \div 8, Struct(c, <<>>, f.values, <<>>, <<>>)) BY <1>1 DEF TvParam, Failed
<1>3. c \in DOMAIN Classes /\ Classes[c].type = t BY <1>1, TvClassIs
<1>4. PICK q \in Nat : q = pos + 1 /\ q <= Len(w) BY <1>0
<1>5. f = DecodeFields(c, w, q) BY <1>4
<1>7. f.ok /\ f.p % 8 = 0 BY <1>2, Zenon
<1>6. f.p \div 8 \in q..Len(w) /\ f.p = 8 * (f.p \div 8) BY <1>3, <1>4, <1>5, <1>7, FieldsEnd
<1> QED BY <1>1, <1>2, <1>3, <1>4, <1>6

TlvFits(w, pos, end) ==
    /\ pos + 4 <= Len(w) /\ end \in (pos + 4)..Len(w) /\ end \in Nat /\ end > pos /\ end <= Len(w)
    /\ TlvBody(w, pos) \in Nat /\ pos + 4 <= TlvBody(w, pos) /\ TlvBody(w, pos) <= end

LEMMA TlvIs ==
    ASSUME NEW rest, NEW w \in Seq(Byte), NEW pos \in Nat, NEW r, r = DecodeTlv(rest, w, pos), r.ok,
           NEW end, end = TlvEnd(w, pos), NEW c, c = TlvClass(w, pos)
    PROVE  /\ r.pos = end
           /\ TlvFits(w, pos, end)
           /\ c = NoClass => r = Ok(end, UnknownTlv(w, pos, end))
           /\ c # NoClass => r = DecodeStruct(rest, c, <<>>, w, TlvBody(w, pos), end)
<1>0. Len(w) \in Nat BY LenProperties
<1>1. /\ pos + 4 <= Len(w) /\ end <= Len(w) /\ TlvBody(w, pos) <= end
      /\ r = TlvParam(rest, c, w, pos, end)
  BY DEF DecodeTlv, Failed
<1>2. c = NoClass => r = Ok(end, UnknownTlv(w, pos, end)) /\ r.pos = end
  <2> SUFFICES ASSUME c = NoClass PROVE r = Ok(end, UnknownTlv(w, pos, end)) /\ r.pos = end OBVIOUS
  <2>1. r = Ok(end, UnknownTlv(w, pos, end)) BY <1>1 DEF TlvParam
  <2>3. PICK u : u = UnknownTlv(w, pos, end) OBVIOUS
  <2>4. r = Ok(end, u) BY <2>1, <2>3
  <2>2. r.pos = end BY <2>4, OkIs
  <2> QED BY <2>1, <2>2
<1>3. c # NoClass => r = DecodeStruct(rest, c, <<>>, w, TlvBody(w, pos), end) /\ r.pos = end
  <2> SUFFICES ASSUME c # NoClass PROVE r = DecodeStruct(rest, c, <<>>, w, TlvBody(w, pos), end) /\ r.pos = end OBVIOUS
  <2>1. r = DecodeKnownTlv(rest, c, w, TlvBody(w, pos), end) BY <1>1 DEF TlvParam
  <2>2. PICK s : s = DecodeStruct(rest, c, <<>>, w, TlvBody(w, pos), end) OBVIOUS
  <2>3. r = Exactly(s, end) BY <2>1, <2>2 DEF DecodeKnownTlv
  <2>4. r = s /\ s.pos = end BY <2>3, ExactlyIs
  <2> QED BY <2>2, <2>4
<1>4. TlvBody(w, pos) = pos + 4 \/ TlvBody(w, pos) = pos + 12
  <2>1. CASE TlvType(w, pos) = TYPE_CUSTOM BY <2>1 DEF TlvBody
  <2>2. CASE TlvType(w, pos) # TYPE_CUSTOM BY <2>2 DEF TlvBody
  <2> QED BY <2>1, <2>2
<1>5. PICK b \in Nat : b = TlvBody(w, pos) BY <1>4
<1>6. PICK q \in Nat : q = pos + 2 OBVIOUS
<1>7. U16(w, q) \in Nat BY <1>0, <1>1, <1>6, U16Type
<1>8. PICK n \in Nat : n = U16(w, pos + 2) BY <1>6, <1>7
<1>9. end = pos + n BY <1>8 DEF TlvEnd
<1>10. end \in Nat BY <1>9
<1>11. b >= pos + 4 BY <1>4, <1>5
<1>12. end \in (pos + 4)..Len(w) BY <1>0, <1>1, <1>5, <1>10, <1>11
<1>13. TlvFits(w, pos, end) BY <1>0, <1>1, <1>5, <1>11, <1>12 DEF TlvFits
<1> QED BY <1>2, <1>3, <1>13

LEMMA HeadIs ==
    ASSUME NEW rest, NEW w \in Seq(Byte), NEW pos \in Nat, NEW r, r = DecodeParam(rest, w, pos), r.ok
    PROVE  /\ r.pos \in (pos + 1)..Len(w) /\ pos < Len(w)
           /\ w[pos + 1] >= 128 => r = DecodeTv(w, pos)
           /\ ~(w[pos + 1] >= 128) => r = DecodeTlv(rest, w, pos)
<1>0. Len(w) \in Nat BY LenProperties
<1>1. pos < Len(w)
  <2> SUFFICES ASSUME pos >= Len(w) PROVE FALSE BY <1>0
  <2>1. r = Failed BY DEF DecodeParam
  <2> QED BY <2>1 DEF Failed
<1>2. CASE w[pos + 1] >= 128
  <2>1. r = DecodeTv(w, pos) BY <1>0, <1>1, <1>2 DEF DecodeParam
  <2>2. PICK t : t = w[pos + 1] % 128 OBVIOUS
  <2>3. PICK c : c = PARAMETER_REGISTRY[t] OBVIOUS
  <2>4. PICK f : f = DecodeFields(c, w, pos + 1) OBVIOUS
  <2>5. r = Ok(f.p \div 8, Struct(c, <<>>, f.values, <<>>, <<>>)) /\ f.p \div 8 \in (pos + 1)..Len(w)
    BY <1>1, <2>1, <2>2, <2>3, <2>4, TvIs
  <2>6. r.pos \in (pos + 1)..Len(w) BY <2>5 DEF Ok, Parsed
  <2> QED BY <1>1, <1>2, <2>1, <2>6
<1>3. CASE ~(w[pos + 1] >= 128)
  <2>1. r = DecodeTlv(rest, w, pos) BY <1>0, <1>1, <1>3 DEF DecodeParam
  <2>2. PICK end : end = TlvEnd(w, pos) OBVIOUS
  <2>5. PICK d : d = TlvClass(w, pos) OBVIOUS
  <2>3. TlvFits(w, pos, end) /\ r.pos = end BY <2>1, <2>2, <2>5, TlvIs
  <2>4. r.pos \in (pos + 1)..Len(w) BY <1>0, <2>3 DEF TlvFits
  <2> QED BY <1>1, <1>3, <2>1, <2>4
<1> QED BY <1>2, <1>3

(* Decoding reads on: a result depends on what is decoded further on only. *)

\* Two tables that say the same behind pos.
Agree(g, h, w, pos) == \A q \in (pos + 1)..Len(w), end \in 0..Len(w) : g[q][end] = h[q][end]

LEMMA SameStruct ==
    ASSUME NEW w \in Seq(Byte), NEW g, NEW h, NEW pos \in Nat, Agree(g, h, w, pos),
           NEW c \in DOMAIN Classes, NEW id, NEW q \in Nat, pos < q, q <= Len(w), NEW end \in 0..Len(w)
    PROVE  DecodeStruct(g, c, id, w, q, end) = DecodeStruct(h, c, id, w, q, end)
<1>0. Len(w) \in Nat BY LenProperties
<1>1. PICK f : f = DecodeFields(c, w, q) OBVIOUS
<1>2. CASE f.ok /\ f.p % 8 = 0
  <2>1. f.p \div 8 \in q..Len(w) BY <1>1, <1>2, FieldsEnd
  <2>2. f.p \div 8 \in (pos + 1)..Len(w) BY <1>0, <2>1
  <2>3. g[f.p \div 8][end] = h[f.p \div 8][end] BY <2>2 DEF Agree
  <2>4. DecodeStruct(g, c, id, w, q, end) = Assemble(c, id, f, g[f.p \div 8][end]) BY <1>1, <1>2 DEF DecodeStruct
  <2>5. DecodeStruct(h, c, id, w, q, end) = Assemble(c, id, f, h[f.p \div 8][end]) BY <1>1, <1>2 DEF DecodeStruct
  <2> QED BY <2>3, <2>4, <2>5
<1>3. CASE ~(f.ok /\ f.p % 8 = 0)
  <2>1. DecodeStruct(g, c, id, w, q, end) = Failed BY <1>1, <1>3 DEF DecodeStruct
  <2>2. DecodeStruct(h, c, id, w, q, end) = Failed BY <1>1, <1>3 DEF DecodeStruct
  <2> QED BY <2>1, <2>2
<1> QED BY <1>2, <1>3

\* The header of a TLV that fits.
LEMMA HeaderFits ==
    ASSUME NEW w \in Seq(Byte), NEW pos \in Nat,
           pos + 4 <= Len(w), TlvEnd(w, pos) <= Len(w), TlvBody(w, pos) <= TlvEnd(w, pos)
    PROVE  TlvFits(w, pos, TlvEnd(w, pos))
<1>0. Len(w) \in Nat BY LenProperties
<1>4. TlvBody(w, pos) = pos + 4 \/ TlvBody(w, pos) = pos + 12
  <2>1. CASE TlvType(w, pos) = TYPE_CUSTOM BY <2>1 DEF TlvBody
  <2>2. CASE TlvType(w, pos) # TYPE_CUSTOM BY <2>2 DEF TlvBody
  <2> QED BY <2>1, <2>2
<1>5. PICK b \in Nat : b = TlvBody(w, pos) BY <1>4
<1>6. PICK q \in Nat : q = pos + 2 OBVIOUS
<1>7. U16(w, q) \in Nat BY <1>0, <1>6, U16Type
<1>8. PICK n \in Nat : n = U16(w, pos + 2) BY <1>6, <1>7
<1>9. PICK end \in Nat : end = TlvEnd(w, pos) BY <1>8 DEF TlvEnd
<1>11. b >= pos + 4 BY <1>4, <1>5
<1>12. end \in (pos + 4)..Len(w) BY <1>0, <1>5, <1>9, <1>11
<1>13. TlvFits(w, pos, end) BY <1>0, <1>5, <1>9, <1>11, <1>12 DEF TlvFits
<1> QED BY <1>9, <1>13

LEMMA SameParam ==
    ASSUME NEW w \in Seq(Byte), NEW g, NEW h, NEW pos \in Nat, Agree(g, h, w, pos)
    PROVE  DecodeParam(g, w, pos) = DecodeParam(h, w, pos)
<1>0. Len(w) \in Nat BY LenProperties
<1>1. DecodeTlv(g, w, pos) = DecodeTlv(h, w, pos)
  <2>1. PICK end : end = TlvEnd(w, pos) OBVIOUS
  <2>2. PICK c : c = TlvClass(w, pos) OBVIOUS
  <2>3. PICK b : b = TlvBody(w, pos) OBVIOUS
  <2>4. CASE pos + 4 <= Len(w) /\ end <= Len(w) /\ b <= end
    <3>1. TlvFits(w, pos, end) BY <2>1, <2>3, <2>4, HeaderFits
    <3>2. end \in 0..Len(w) /\ b \in Nat /\ pos < b /\ b <= Len(w) BY <1>0, <2>3, <3>1 DEF TlvFits
    <3>3. DecodeTlv(g, w, pos) = TlvParam(g, c, w, pos, end) BY <2>1, <2>2, <2>3, <2>4 DEF DecodeTlv
    <3>4. DecodeTlv(h, w, pos) = TlvParam(h, c, w, pos, end) BY <2>1, <2>2, <2>3, <2>4 DEF DecodeTlv
    <3>5. CASE c = NoClass BY <3>3, <3>4, <3>5 DEF TlvParam
    <3>6. CASE c # NoClass
      <4>1. c \in DOMAIN Classes BY <2>2, <3>6, TlvClassIs
      <4>2. DecodeStruct(g, c, <<>>, w, b, end) = DecodeStruct(h, c, <<>>, w, b, end) BY <3>2, <4>1, SameStruct
      <4>3. TlvParam(g, c, w, pos, end) = Exactly(DecodeStruct(g, c, <<>>, w, b, end), end)
        BY <2>3, <3>6 DEF TlvParam, DecodeKnownTlv
      <4>4. TlvParam(h, c, w, pos, end) = Exactly(DecodeStruct(h, c, <<>>, w, b, end), end)
        BY <2>3, <3>6 DEF TlvParam, DecodeKnownTlv
      <4> QED BY <3>3, <3>4, <4>2, <4>3, <4>4
    <3> QED BY <3>5, <3>6
  <2>5. CASE ~(pos + 4 <= Len(w) /\ end <= Len(w) /\ b <= end)
    <3>1. DecodeTlv(g, w, pos) = Failed BY <2>1, <2>3, <2>5 DEF DecodeTlv
    <3>2. DecodeTlv(h, w, pos) = Failed BY <2>1, <2>3, <2>5 DEF DecodeTlv
    <3> QED BY <3>1, <3>2
  <2> QED BY <2>4, <2>5
<1>2. CASE pos >= Len(w) BY <1>2 DEF DecodeParam
<1>3. CASE ~(pos >= Len(w)) /\ w[pos + 1] >= 128 BY <1>3 DEF DecodeParam
<1>4. CASE ~(pos >= Len(w)) /\ ~(w[pos + 1] >= 128)
  <2>1. DecodeParam(g, w, pos) = DecodeTlv(g, w, pos) BY <1>4 DEF DecodeParam
  <2>2. DecodeParam(h, w, pos) = DecodeTlv(h, w, pos) BY <1>4 DEF DecodeParam
  <2> QED BY <1>1, <2>1, <2>2
<1> QED BY <1>2, <1>3, <1>4

LEMMA SameNext ==
    ASSUME NEW w \in Seq(Byte), NEW g, NEW h, NEW pos \in Nat, Agree(g, h, w, pos), NEW end \in 0..Len(w)
    PROVE  DecodeNext(g, w, pos, end) = DecodeNext(h, w, pos, end)
<1>1. PICK r : r = DecodeParam(g, w, pos) OBVIOUS
<1>2. r = DecodeParam(h, w, pos) BY <1>1, SameParam
<1>3. CASE pos >= end BY <1>3 DEF DecodeNext
<1>4. CASE ~(pos >= end) /\ ~r.ok BY <1>1, <1>2, <1>4 DEF DecodeNext
<1>5. CASE ~(pos >= end) /\ r.ok
  <2>1. r.pos \in (pos + 1)..Len(w) BY <1>1, <1>5, HeadIs
  <2>2. g[r.pos][end] = h[r.pos][end] BY <2>1 DEF Agree
  <2>3. DecodeNext(g, w, pos, end) = Before(r, g[r.pos][end]) BY <1>1, <1>5 DEF DecodeNext
  <2>4. DecodeNext(h, w, pos, end) = Before(r, h[r.pos][end]) BY <1>2, <1>5 DEF DecodeNext
  <2> QED BY <2>2, <2>3, <2>4
<1> QED BY <1>3, <1>4, <1>5

\* What is decoded from lo on: there is such a table for every lo.
From(w, lo, g) == g = [pos \in lo..Len(w) |-> [end \in 0..Len(w) |-> DecodeNext(g, w, pos, end)]]

LEMMA SomeFrom ==
    ASSUME NEW w \in Seq(Byte)
    PROVE  \E g : From(w, 0, g)
<1>0. PICK L \in Nat : L = Len(w) BY LenProperties
<1> DEFINE N == {n \in Nat : n <= L + 1 => \E g : From(w, L + 1 - n, g)}
<1>1. 0 \in N
  <2> DEFINE g == [pos \in (L + 1)..L |-> 0]
  <2>1. (L + 1)..L = {} /\ L + 1 - 0 = L + 1 OBVIOUS
  <2>2. g = [pos \in (L + 1)..L |-> [end \in 0..L |-> DecodeNext(g, w, pos, end)]] BY <2>1
  <2>3. From(w, L + 1, g)
    <3> HIDE DEF g
    <3> QED BY <1>0, <2>2 DEF From
  <2> QED BY <2>1, <2>3
<1>2. ASSUME NEW n \in Nat, n \in N PROVE n + 1 \in N
  <2> SUFFICES ASSUME n + 1 <= L + 1 PROVE \E g : From(w, L + 1 - (n + 1), g) OBVIOUS
  <2>1. PICK g : From(w, L + 1 - n, g) BY <1>2
  <2>2. PICK lo \in Nat : lo = L + 1 - (n + 1) /\ lo + 1 = L + 1 - n /\ lo <= L OBVIOUS
  <2> DEFINE h == [pos \in lo..L |-> IF pos = lo THEN [end \in 0..L |-> DecodeNext(g, w, lo, end)] ELSE g[pos]]
  <2>3. \A pos \in (lo + 1)..L : g[pos] = [end \in 0..L |-> DecodeNext(g, w, pos, end)] BY <1>0, <2>1, <2>2 DEF From
  <2>4. \A pos \in (lo + 1)..L : h[pos] = g[pos]
    <3> SUFFICES ASSUME NEW pos \in (lo + 1)..L PROVE h[pos] = g[pos] OBVIOUS
    <3>1. pos \in lo..L /\ pos # lo OBVIOUS
    <3> QED BY <3>1
  <2>5. h[lo] = [end \in 0..L |-> DecodeNext(g, w, lo, end)]
    <3>1. lo \in lo..L BY <2>2
    <3> QED BY <3>1
  <2>6. h = [pos \in lo..L |-> h[pos]] OBVIOUS
  <2> HIDE DEF h
  <2>7. ASSUME NEW pos \in lo..L PROVE h[pos] = [end \in 0..L |-> DecodeNext(h, w, pos, end)]
    <3>1. pos \in Nat OBVIOUS
    <3>2. Agree(g, h, w, pos)
      <4> SUFFICES ASSUME NEW q \in (pos + 1)..Len(w), NEW end \in 0..Len(w) PROVE g[q][end] = h[q][end] BY DEF Agree
      <4>1. q \in (lo + 1)..L BY <1>0
      <4> QED BY <2>4, <4>1
    <3>3. \A end \in 0..L : DecodeNext(g, w, pos, end) = DecodeNext(h, w, pos, end) BY <1>0, <3>1, <3>2, SameNext
    <3>4. h[pos] = [end \in 0..L |-> DecodeNext(g, w, pos, end)]
      <4>1. CASE pos = lo BY <2>5, <4>1
      <4>2. CASE pos # lo
        <5>1. pos \in (lo + 1)..L BY <2>2, <4>2
        <5> QED BY <2>3, <2>4, <5>1
      <4> QED BY <4>1, <4>2
    <3> QED BY <3>3, <3>4
  <2>8. From(w, lo, h) BY <1>0, <2>6, <2>7 DEF From
  <2> QED BY <2>2, <2>8
<1>3. Nat \subseteq N
  <2> HIDE DEF N
  <2> QED BY <1>1, <1>2, InductNat
<1>4. PICK m \in Nat : m = L + 1 OBVIOUS
<1>5. m \in N
  <2> HIDE DEF N
  <2> QED BY <1>3
<1>6. \E g : From(w, L + 1 - m, g) BY <1>4, <1>5
<1>7. L + 1 - m = 0 BY <1>4
<1> QED BY <1>6, <1>7

LEMMA DecodedIs ==
    ASSUME NEW w \in Seq(Byte)
    PROVE  \A pos \in 0..Len(w), end \in 0..Len(w) :
              DecodeParams(w)[pos][end] = DecodeNext(DecodeParams(w), w, pos, end)
<1>1. From(w, 0, CHOOSE g : From(w, 0, g)) BY SomeFrom
<1>2. DecodeParams(w) = CHOOSE g : From(w, 0, g) BY DEF DecodeParams, From
<1>3. PICK g : g = DecodeParams(w) OBVIOUS
<1>4. From(w, 0, g) BY <1>1, <1>2, <1>3
<1>5. \A pos \in 0..Len(w) : g[pos] = [end \in 0..Len(w) |-> DecodeNext(g, w, pos, end)] BY <1>4 DEF From
<1>6. \A pos \in 0..Len(w), end \in 0..Len(w) : g[pos][end] = DecodeNext(g, w, pos, end) BY <1>5
<1> QED BY <1>3, <1>6

(* Encoding deeper changes nothing of what is encoded already. *)

Extends(e, f) == \A x \in DOMAIN e : x \in DOMAIN f /\ f[x] = e[x]

LEMMA SeqGrows ==
    ASSUME NEW S, NEW T, S \subseteq T, NEW s \in Seq(S)
    PROVE  s \in Seq(T)
<1>1. s \in [1..Len(s) -> S] /\ Len(s) \in Nat BY LenProperties
<1>2. s \in [1..Len(s) -> T] BY <1>1
<1> QED BY <1>1, <1>2, SeqDef

LEMMA StructGrows ==
    ASSUME NEW S, NEW T, S \subseteq T, NEW x \in StructsOver(S)
    PROVE  x \in StructsOver(T)
<1>1. /\ x = Struct(x.cls, x.id, x.fields, x.slots, x.extra)
      /\ x.cls \in DOMAIN Classes \/ x.cls \in Unknown
      /\ x.id \in Seq(Byte) /\ x.fields \in Seq(Seq(Byte)) /\ x.slots \in Seq(Seq(S)) /\ x.extra \in Seq(S)
  BY StructIs
<1>2. Seq(S) \subseteq Seq(T) BY SeqGrows
<1>3. PICK slots : slots = x.slots OBVIOUS
<1>4. slots \in Seq(Seq(T)) BY <1>1, <1>2, <1>3, SeqGrows
<1>5. x.extra \in Seq(T) BY <1>1, <1>2
<1> QED BY <1>1, <1>3, <1>4, <1>5 DEF StructsOver, Struct

LEMMA SameBody ==
    ASSUME NEW e, NEW f, Extends(e, f), NEW x, Subparams(x) \in Seq(DOMAIN e)
    PROVE  Body(e, x) = Body(f, x) /\ (Encodes(e, x) <=> Encodes(f, x))
<1>1. PICK ps \in Seq(DOMAIN e) : ps = Subparams(x) OBVIOUS
<1>2. \A k \in DOMAIN ps : f[ps[k]] = e[ps[k]]
  <2>1. \A k \in DOMAIN ps : ps[k] \in DOMAIN e BY ElementOfSeq, LenProperties
  <2> QED BY <2>1 DEF Extends
<1>3. [k \in DOMAIN ps |-> e[ps[k]].wire] = [k \in DOMAIN ps |-> f[ps[k]].wire] BY <1>2
<1>4. (\A k \in DOMAIN ps : e[ps[k]].ok) <=> \A k \in DOMAIN ps : f[ps[k]].ok BY <1>2
<1>5. Body(e, x) = Body(f, x) BY <1>1, <1>3 DEF Body
<1> QED BY <1>1, <1>4, <1>5 DEF Encodes

LEMMA DeeperGrows ==
    ASSUME NEW e, NEW f, Extends(e, f)
    PROVE  Extends(Deeper(e), Deeper(f))
<1> SUFFICES ASSUME NEW x \in DOMAIN Deeper(e) PROVE x \in DOMAIN Deeper(f) /\ Deeper(f)[x] = Deeper(e)[x]
  BY DEF Extends
<1>1. x \in StructsOver(DOMAIN e) BY DEF Deeper
<1>2. DOMAIN e \subseteq DOMAIN f BY DEF Extends
<1>3. x \in StructsOver(DOMAIN f) BY <1>1, <1>2, StructGrows
<1>4. Subparams(x) \in Seq(DOMAIN e) BY <1>1, StructIs
<1>5. Body(e, x) = Body(f, x) /\ (Encodes(e, x) <=> Encodes(f, x)) BY <1>4, SameBody
<1>6. Deeper(e)[x] = [ok |-> Encodes(e, x), wire |-> Frame(x, Body(e, x))] BY <1>1 DEF Deeper
<1>7. Deeper(f)[x] = [ok |-> Encodes(f, x), wire |-> Frame(x, Body(f, x))] BY <1>3 DEF Deeper
<1>8. x \in DOMAIN Deeper(f) BY <1>3 DEF Deeper
<1>9. Encodes(e, x) = Encodes(f, x)
  <2>1. Encodes(e, x) \in BOOLEAN /\ Encodes(f, x) \in BOOLEAN BY DEF Encodes
  <2> QED BY <1>5, <2>1
<1> QED BY <1>5, <1>6, <1>7, <1>8, <1>9

LEMMA BelowIs ==
    ASSUME NEW d \in Nat
    PROVE  Below(d + 1) = Deeper(Below(d)) /\ Encoding[d] = Deeper(Below(d)) /\ Below(d + 1) = Encoding[d]
<1>1. Encoding[d] = Deeper(Below(d)) BY EncodingIs
<1>2. Below(d + 1) = Encoding[d] BY DEF Below
<1> QED BY <1>1, <1>2

LEMMA BelowGrows ==
    ASSUME NEW d \in Nat
    PROVE  Extends(Below(d), Below(d + 1))
<1> DEFINE N == {n \in Nat : Extends(Below(n), Below(n + 1))}
<1>1. 0 \in N
  <2>1. Below(0) = <<>> BY DEF Below
  <2>2. DOMAIN Below(0) = {} BY <2>1
  <2>3. Extends(Below(0), Below(0 + 1)) BY <2>2 DEF Extends
  <2> QED BY <2>3
<1>2. ASSUME NEW n \in Nat, n \in N PROVE n + 1 \in N
  <2>1. Extends(Below(n), Below(n + 1)) BY <1>2
  <2>2. PICK m \in Nat : m = n + 1 OBVIOUS
  <2>3. Below(m) = Deeper(Below(n)) BY <2>2, BelowIs
  <2>4. Below(m + 1) = Deeper(Below(m)) BY BelowIs
  <2>5. Extends(Deeper(Below(n)), Deeper(Below(m))) BY <2>1, <2>2, DeeperGrows
  <2>6. Extends(Below(m), Below(m + 1)) BY <2>3, <2>4, <2>5
  <2> QED BY <2>2, <2>6
<1>3. Nat \subseteq N
  <2> HIDE DEF N
  <2> QED BY <1>1, <1>2, InductNat
<1> QED BY <1>3

LEMMA Grows ==
    ASSUME NEW d \in Nat, NEW m \in Nat, d <= m
    PROVE  Extends(Below(d), Below(m))
<1> DEFINE N == {n \in Nat : Extends(Below(d), Below(d + n))}
<1>1. 0 \in N BY DEF Extends
<1>2. ASSUME NEW n \in Nat, n \in N PROVE n + 1 \in N
  <2>1. PICK k \in Nat : k = d + n /\ k + 1 = d + (n + 1) OBVIOUS
  <2>2. Extends(Below(d), Below(k)) BY <1>2, <2>1
  <2>3. Extends(Below(k), Below(k + 1)) BY BelowGrows
  <2>4. Extends(Below(d), Below(k + 1)) BY <2>2, <2>3 DEF Extends
  <2> QED BY <2>1, <2>4
<1>3. Nat \subseteq N
  <2> HIDE DEF N
  <2> QED BY <1>1, <1>2, InductNat
<1>4. PICK k \in Nat : k = m - d /\ d + k = m OBVIOUS
<1>5. k \in N
  <2> HIDE DEF N
  <2> QED BY <1>3
<1>6. Extends(Below(d), Below(d + k)) BY <1>5
<1> QED BY <1>4, <1>6

(* What is encoded is decoded: parameters, one behind the other. *)

\* Wherever the bytes of y lie, y is decoded from them.
ReadsBack(e, y) ==
    /\ e[y].wire \in Seq(Byte) /\ Len(e[y].wire) > 0
    /\ \A w \in Seq(Byte), pos \in Nat :
          Lies(w, pos, e[y].wire) => DecodeParam(DecodeParams(w), w, pos) = Ok(pos + Len(e[y].wire), y)

Sendable(e) == {y \in DOMAIN e : e[y].ok /\ ~IsMessage(y.cls) /\ ReadsBack(e, y)}

LEMMA SendableIs ==
    ASSUME NEW e
    PROVE  HasWires(e, Sendable(e)) /\ \A y \in Sendable(e) : Len(e[y].wire) \in Nat /\ Len(e[y].wire) > 0
<1>1. \A y \in Sendable(e) : e[y].wire \in Seq(Byte) /\ Len(e[y].wire) > 0 BY DEF Sendable, ReadsBack
<1>2. \A y \in Sendable(e) : Len(e[y].wire) \in Nat BY <1>1, LenProperties
<1> QED BY <1>1, <1>2 DEF HasWires

LEMMA OneLong == ASSUME NEW V, NEW x \in V PROVE <<x>> \in Seq(V) /\ Len(<<x>>) = 1
  OBVIOUS

Onto(V, ps, x, qs) ==
    \A tail \in Seq(V) : \E more \in Seq(V) : more = <<x>> \o tail /\ qs \o tail = ps \o more

LEMMA AppendOnto ==
    ASSUME NEW V, NEW ps \in Seq(V), NEW x \in V
    PROVE  Onto(V, ps, x, Append(ps, x))
<1> SUFFICES ASSUME NEW tail \in Seq(V)
             PROVE  \E more \in Seq(V) : more = <<x>> \o tail /\ Append(ps, x) \o tail = ps \o more
  BY DEF Onto
<1>1. PICK one \in Seq(V) : one = <<x>> BY OneLong
<1>2. (ps \o one) \o tail = ps \o (one \o tail) BY <1>1, ConcatAssociative
<1>3. ps \o one = Append(ps, x) BY <1>1, AppendIsConcat
<1>4. one \o tail \in Seq(V) BY ConcatProperties
<1> QED BY <1>1, <1>2, <1>3, <1>4

\* From pos to end, tail is decoded, up to to.
Decodes(w, pos, end, to, tail) == DecodeParams(w)[pos][end] = Parsed(to, tail)

LEMMA OneBack ==
    ASSUME NEW e, NEW w \in Seq(Byte), NEW y \in Sendable(e), NEW pos \in Nat, Lies(w, pos, e[y].wire),
           NEW next \in Nat, next = pos + Len(e[y].wire), NEW end \in Nat, next <= end, end <= Len(w),
           NEW to, NEW tail, Decodes(w, next, end, to, tail)
    PROVE  Decodes(w, pos, end, to, <<y>> \o tail)
<1>0. Len(w) \in Nat /\ Len(e[y].wire) \in Nat /\ Len(e[y].wire) > 0 BY LenProperties, SendableIs
<1>1. pos \in 0..Len(w) /\ end \in 0..Len(w) /\ ~(pos >= end) BY <1>0
<1>2. PICK g : g = DecodeParams(w) OBVIOUS
<1>3. g[pos][end] = DecodeNext(g, w, pos, end) BY <1>1, <1>2, DecodedIs
<1>4. ReadsBack(e, y) BY DEF Sendable
<1>5. DecodeParam(g, w, pos) = Ok(next, y) BY <1>2, <1>4 DEF ReadsBack
<1>6. Ok(next, y).ok /\ Ok(next, y).pos = next /\ Ok(next, y).val = <<y>> BY OkIs
<1>7. DecodeNext(g, w, pos, end) = Before(Ok(next, y), g[next][end]) BY <1>1, <1>5, <1>6 DEF DecodeNext
<1>8. g[next][end] = Parsed(to, tail) BY <1>2 DEF Decodes
<1>9. Before(Ok(next, y), Parsed(to, tail)) = Parsed(to, <<y>> \o tail) BY <1>6 DEF Before, Parsed
<1> QED BY <1>2, <1>3, <1>7, <1>8, <1>9 DEF Decodes

\* A row of them, and what is behind it.
IsRow(e, w, ps, p, q, h, t, vs, all) ==
    /\ p \in Nat /\ q \in Nat /\ h \in Nat /\ vs \in Seq(Sendable(e)) /\ all = ps \o vs
    /\ Lies(w, p, FlattenSeq(Wires(e, ps))) /\ q = p + Size(e, ps) /\ q <= h /\ h <= Len(w)
    /\ Decodes(w, q, h, t, vs)

RowBack(e, w, ps) == \A p, q, h, t, vs, all : IsRow(e, w, ps, p, q, h, t, vs, all) => Decodes(w, p, h, t, all)

LEMMA RowOf ==
    ASSUME NEW e, NEW w, NEW ps, RowBack(e, w, ps), NEW V, V = Sendable(e),
           NEW p \in Nat, NEW q \in Nat, NEW h \in Nat, NEW t, NEW vs \in Seq(V), NEW all,
           Lies(w, p, FlattenSeq(Wires(e, ps))), q = p + Size(e, ps), q <= h, h <= Len(w),
           Decodes(w, q, h, t, vs), all = ps \o vs
    PROVE  Decodes(w, p, h, t, all)
<1>1. IsRow(e, w, ps, p, q, h, t, vs, all) BY DEF IsRow
<1> QED BY <1>1 DEF RowBack

LEMMA RowsBack ==
    ASSUME NEW e, NEW w \in Seq(Byte)
    PROVE  \A ps \in Seq(Sendable(e)) : RowBack(e, w, ps)
<1>10. PICK V : V = Sendable(e) OBVIOUS
<1> DEFINE S == {ps \in Seq(V) : RowBack(e, w, ps)}
<1>0. HasWires(e, V) BY <1>10, SendableIs
<1>1. <<>> \in S
  <2>1. <<>> \in Seq(V) BY EmptySeq
  <2>2. Size(e, <<>>) = 0 BY SizeEmpty
  <2>3. RowBack(e, w, <<>>)
    <3> SUFFICES ASSUME NEW pos \in Nat, NEW next \in Nat, NEW end \in Nat, NEW to, NEW tail \in Seq(V), NEW all,
                        next = pos + Size(e, <<>>), Decodes(w, next, end, to, tail), all = <<>> \o tail
                 PROVE  Decodes(w, pos, end, to, all)
      BY <1>10 DEF RowBack, IsRow
    <3>1. next = pos BY <2>2
    <3>2. <<>> \o tail = tail BY ConcatEmptySeq
    <3> QED BY <3>1, <3>2
  <2> QED BY <2>1, <2>3
<1>2. ASSUME NEW ps \in Seq(V), ps \in S, NEW x \in V PROVE Append(ps, x) \in S
  <2>1. PICK qs \in Seq(V) : qs = Append(ps, x) BY AppendProperties
  <2>2. RowBack(e, w, ps) BY <1>2
  <2> HIDE DEF S
  <2>3. PICK f \in Seq(Byte) : f = FlattenSeq(Wires(e, ps)) BY <1>0, WiresAppend
  <2>4. PICK wx \in Seq(Byte) : wx = e[x].wire BY <1>0, WiresAppend
  <2>5. FlattenSeq(Wires(e, qs)) = f \o wx BY <1>0, <2>1, <2>3, <2>4, WiresAppend
  <2>6. Size(e, qs) = Size(e, ps) + Len(wx) /\ Len(wx) \in Nat /\ Size(e, ps) \in Nat BY <1>0, <2>1, <2>4, SizeAppend
  <2>8. Onto(V, ps, x, qs) BY <2>1, AppendOnto
  <2>7. RowBack(e, w, qs)
    <3> SUFFICES ASSUME NEW pos \in Nat, NEW next \in Nat, NEW end \in Nat, NEW to, NEW tail \in Seq(V), NEW all,
                        Lies(w, pos, FlattenSeq(Wires(e, qs))), next = pos + Size(e, qs), next <= end,
                        end <= Len(w), Decodes(w, next, end, to, tail), all = qs \o tail
                 PROVE  Decodes(w, pos, end, to, all)
      BY <1>10, ZenonT(60) DEF RowBack, IsRow
    <3>1. Lies(w, pos, f) /\ Lies(w, pos + Len(f), wx) BY <2>5, LiesConcat
    <3>2. PICK here \in Nat : here = pos + Size(e, ps) BY <2>6
    <3>3. Len(f) = Size(e, ps) BY <2>3 DEF Size
    <3>4. Lies(w, here, wx) /\ next = here + Len(wx) /\ here <= end BY <2>6, <3>1, <3>2, <3>3
    <3>5. Decodes(w, here, end, to, <<x>> \o tail)
      <4>1. Lies(w, here, e[x].wire) /\ next = here + Len(e[x].wire) BY <2>4, <3>4
      <4>2. x \in Sendable(e) BY <1>10
      <4> QED BY <3>4, <4>1, <4>2, OneBack
    <3>6. PICK more \in Seq(V) : more = <<x>> \o tail /\ qs \o tail = ps \o more BY <2>8 DEF Onto
    <3>7. Decodes(w, here, end, to, more) BY <3>5, <3>6
    <3>8. Lies(w, pos, FlattenSeq(Wires(e, ps))) BY <2>3, <3>1
    <3>9. all = ps \o more BY <3>6
    <3> QED BY <1>10, <2>2, <3>2, <3>4, <3>7, <3>8, <3>9, RowOf
  <2> QED BY <2>1, <2>7 DEF S
<1>3. Seq(V) \subseteq S
  <2> HIDE DEF S
  <2> QED BY <1>1, <1>2, InductSeq
<1> QED BY <1>3, <1>10

\* A row that fills its window.
LEMMA WindowBack ==
    ASSUME NEW e, NEW w \in Seq(Byte), NEW ps \in Seq(Sendable(e)), NEW pos \in Nat,
           Lies(w, pos, FlattenSeq(Wires(e, ps))), NEW end, end = pos + Size(e, ps)
    PROVE  DecodeParams(w)[pos][end] = Parsed(end, ps) /\ end \in Nat /\ end <= Len(w)
<1>1. Size(e, ps) \in Nat /\ FlattenSeq(Wires(e, ps)) \in Seq(Byte)
  <2>1. Wires(e, ps) \in Seq(Seq(Byte)) /\ Size(e, ps) \in Nat BY SendableIs, WiresType
  <2> QED BY <2>1, FlattenType
<1>2. end \in Nat /\ end <= Len(w) BY <1>1 DEF Lies, Size
<1>3. Len(w) \in Nat BY LenProperties
<1>4. PICK g : g = DecodeParams(w) OBVIOUS
<1>5. g[end][end] = DecodeNext(g, w, end, end)
  <2>1. end \in 0..Len(w) BY <1>2, <1>3
  <2> QED BY <1>4, <2>1, DecodedIs
<1>6. DecodeNext(g, w, end, end) = Parsed(end, <<>>) BY <1>2 DEF DecodeNext
<1>7. PICK tail \in Seq(Sendable(e)) : tail = <<>> BY EmptySeq
<1>8. Decodes(w, end, end, end, tail) BY <1>4, <1>5, <1>6, <1>7 DEF Decodes
<1>9. RowBack(e, w, ps) BY RowsBack
<1>10. end <= end BY <1>2
<1>12. ps = ps \o tail BY <1>7, ConcatEmptySeq
<1>11. Decodes(w, pos, end, end, ps) BY <1>2, <1>8, <1>9, <1>10, <1>12, RowOf
<1> QED BY <1>2, <1>11 DEF Decodes

\* Fields that lie on the wire are read as they were written.
FieldsAt(c, values, p, w, pos) ==
    /\ IsFields(c, values) /\ Aligned(WriteFields(c, values)) /\ p = Pack(WriteFields(c, values).bits)
    /\ Lies(w, pos, p)

LEMMA FieldsDecoded ==
    ASSUME NEW c \in DOMAIN Classes, NEW values, NEW p, NEW w \in Seq(Byte), NEW pos \in Nat,
           FieldsAt(c, values, p, w, pos), NEW f, f = DecodeFields(c, w, pos)
    PROVE  f.ok /\ f.p % 8 = 0 /\ f.p \div 8 = pos + Len(p) /\ f.values = values /\ p \in Seq(Byte)
<1>0. /\ IsFields(c, values) /\ Aligned(WriteFields(c, values)) /\ p = Pack(WriteFields(c, values).bits)
      /\ Lies(w, pos, p)
  BY DEF FieldsAt
<1>1. PICK kinds \in Seq(Int) : kinds = Classes[c].fields BY ClassIs
<1>2. PICK o : o = Writing(kinds, values)[Len(kinds)] OBVIOUS
<1>3. WriteFields(c, values) = o BY <1>1, <1>2 DEF WriteFields
<1>4. PICK bits \in BitStrings : bits = o.bits /\ p = Pack(bits)
  <2>1. WriteFields(c, values).bits \in BitStrings BY <1>0, FieldsWritten
  <2> QED BY <1>0, <1>3, <2>1
<1>5. /\ AreValues(kinds, values) /\ o.ok /\ Len(bits) \in Nat /\ Len(bits) % 8 = 0
      /\ 8 * (Len(bits) \div 8) = Len(bits) /\ p \in Seq(Byte) /\ Len(p) = Len(bits) \div 8 /\ Len(bits) \div 8 \in Nat
  BY <1>0, <1>1, <1>3, <1>4, FieldsWritten
<1>6. BitsLie(w, 8 * pos, bits)
  <2>1. bits \in Seq({0, 1}) BY DEF BitStrings
  <2> QED BY <1>0, <1>4, <1>5, <2>1, PackedLie
<1>7. Reading(kinds, w, pos)[Len(kinds)] = Read(TRUE, 8 * pos + Len(bits), values)
  <2>1. BitsLie(w, 8 * pos, o.bits) BY <1>4, <1>6
  <2>2. AreValues(kinds, values) /\ o.ok BY <1>5
  <2>3. Reading(kinds, w, pos)[Len(kinds)] = Read(TRUE, 8 * pos + Len(o.bits), values)
    BY <1>2, <2>1, <2>2, FieldsBack
  <2> QED BY <1>4, <2>3
<1>8. f = Read(TRUE, 8 * pos + Len(bits), values) BY <1>1, <1>7 DEF DecodeFields
<1>9. f.ok /\ f.p = 8 * pos + Len(bits) /\ f.values = values BY <1>8 DEF Read
<1>10. PICK n \in Nat : n = pos + Len(p) BY <1>5
<1>11. f.p = 8 * n
  <2>1. PICK l \in Nat : l = Len(p) /\ Len(bits) = 8 * l BY <1>5
  <2>2. 8 * pos + 8 * l = 8 * (pos + l) OBVIOUS
  <2> QED BY <1>9, <1>10, <2>1, <2>2
<1>12. f.p % 8 = 0 /\ f.p \div 8 = n BY <1>11
<1> QED BY <1>5, <1>9, <1>10, <1>12

\* A structure that e tells how to send, and what its fields and its sub-parameters are sent as.
Legal(e, x) == Regular(x) /\ Encodes(e, x) /\ Subparams(x) \in Seq(Sendable(e))

Contents(e, x, p, ws) ==
    p = Pack(WriteFields(x.cls, x.fields).bits) /\ ws = FlattenSeq(Wires(e, Subparams(x)))

\* They lie on the wire.
StructAt(w, pos, p, ws, end) == Lies(w, pos, p \o ws) /\ end = pos + Len(p) + Len(ws)

\* Sub-parameters that lie on the wire are bound to the slots they were in.
LEMMA StructBack ==
    ASSUME NEW e, NEW S, NEW x \in StructsOver(S), x.cls \in DOMAIN Classes, Legal(e, x),
           NEW p, NEW ws, Contents(e, x, p, ws), NEW w \in Seq(Byte), NEW pos \in Nat,
           NEW end, StructAt(w, pos, p, ws, end), NEW id
    PROVE  DecodeStruct(DecodeParams(w), x.cls, id, w, pos, end) = Ok(end, Struct(x.cls, id, x.fields, x.slots, x.extra))
<1>0. Lies(w, pos, p \o ws) /\ end = pos + Len(p) + Len(ws) BY DEF StructAt
<1>20. Regular(x) /\ Encodes(e, x) /\ Subparams(x) \in Seq(Sendable(e)) BY DEF Legal
<1>21. p = Pack(WriteFields(x.cls, x.fields).bits) /\ ws = FlattenSeq(Wires(e, Subparams(x))) BY DEF Contents
<1>1. x.cls \notin Unknown BY ClassIs
<1>2. IsFields(x.cls, x.fields) /\ IsPlaced(x.cls, x.slots, x.extra) BY <1>1, <1>20 DEF Regular
<1>3. Aligned(WriteFields(x.cls, x.fields)) /\ Complete(x.cls, x.slots) BY <1>1, <1>20 DEF Encodes
<1>4. p \in Seq(Byte) BY <1>21, <1>2, <1>3, FieldsWritten
<1>5. ws \in Seq(Byte)
  <2>1. HasWires(e, Sendable(e)) BY SendableIs
  <2>2. Wires(e, Subparams(x)) \in Seq(Seq(Byte)) BY <1>20, <2>1, WiresType
  <2> QED BY <1>21, <2>2, FlattenType
<1>6. Lies(w, pos, p) /\ Lies(w, pos + Len(p), ws) BY <1>0, <1>4, <1>5, LiesConcat
<1>7. PICK f : f = DecodeFields(x.cls, w, pos) OBVIOUS
<1>8. f.ok /\ f.p % 8 = 0 /\ f.p \div 8 = pos + Len(p) /\ f.values = x.fields
  <2>1. PICK c \in DOMAIN Classes : c = x.cls OBVIOUS
  <2>2. PICK values : values = x.fields OBVIOUS
  <2>3. p = Pack(WriteFields(c, values).bits) BY <1>21, <2>1, <2>2
  <2>4. IsFields(c, values) /\ Aligned(WriteFields(c, values)) /\ Lies(w, pos, p) BY <1>2, <1>3, <1>6, <2>1, <2>2
  <2>5. f = DecodeFields(c, w, pos) BY <1>7, <2>1
  <2>6. FieldsAt(c, values, p, w, pos) BY <2>3, <2>4 DEF FieldsAt
  <2> QED BY <2>2, <2>5, <2>6, FieldsDecoded
<1>9. PICK next \in Nat : next = pos + Len(p)
  <2>1. Len(p) \in Nat BY <1>4, LenProperties
  <2> QED BY <2>1
<1>10. PICK ps \in Seq(Sendable(e)) : ps = Subparams(x) BY <1>20
<1>11. DecodeParams(w)[next][end] = Parsed(end, ps)
  <2>1. Lies(w, next, FlattenSeq(Wires(e, ps))) BY <1>6, <1>9, <1>10, <1>21
  <2>2. end = next + Size(e, ps) BY <1>0, <1>9, <1>10, <1>21 DEF Size
  <2> QED BY <2>1, <2>2, WindowBack
<1>12. DecodeStruct(DecodeParams(w), x.cls, id, w, pos, end) = Assemble(x.cls, id, f, Parsed(end, ps))
  BY <1>7, <1>8, <1>9, <1>11 DEF DecodeStruct
<1>13. PICK b : b = Bound(x.slots, x.extra) OBVIOUS
<1>14. b.slots = x.slots /\ b.extra = x.extra BY <1>13 DEF Bound
<1>15. BindParams(x.cls, ps) = b
  <2>1. x.slots \in Seq(Seq(S)) /\ x.extra \in Seq(S) BY StructIs
  <2>2. Len(x.slots) = Len(SlotsOf(x.cls)) BY <1>2 DEF IsPlaced
  <2>3. b \in Bounds(x.cls, S) BY <1>13, <2>1, <2>2 DEF Bounds, Bound
  <2>4. IsPlaced(x.cls, b.slots, b.extra) BY <1>2, <1>14
  <2>5. BindParams(x.cls, FlattenSeq(b.slots) \o b.extra) = b BY <2>3, <2>4, BindStable
  <2> QED BY <1>10, <1>14, <2>5 DEF Subparams
<1>16. Assemble(x.cls, id, f, Parsed(end, ps)) = Ok(end, Struct(x.cls, id, f.values, b.slots, b.extra))
  BY <1>3, <1>14, <1>15 DEF Assemble, Parsed
<1> QED BY <1>8, <1>12, <1>14, <1>16

\* The header of a TLV that lies on the wire.
TlvAt(w, pos, x, body) ==
    /\ TlvType(w, pos) = Type(x) /\ TlvEnd(w, pos) = pos + 4 + Len(body)
    /\ Lies(w, pos + 4, body) /\ pos + 4 + Len(body) <= Len(w)
    /\ pos < Len(w) /\ ~(w[pos + 1] >= 128)

LEMMA TlvHeaderBack ==
    ASSUME NEW S, NEW x \in StructsOver(S), Regular(x), IsTlv(x), NEW body \in Seq(Byte), Fits(x, body),
           NEW w \in Seq(Byte), NEW pos \in Nat, Lies(w, pos, Frame(x, body))
    PROVE  TlvAt(w, pos, x, body)
<1>0. Len(w) \in Nat /\ Len(body) \in Nat BY LenProperties
<1>1. PICK t \in Nat : t = Type(x) /\ t <= 1023 BY TlvTypeIs
<1>2. ~IsMessage(x.cls) /\ x.cls \notin OfKinds({"tv"}) BY SortsAre
<1>3. Frame(x, body) = PutU16(Type(x)) \o PutU16(4 + Len(body)) \o body BY <1>2 DEF Frame
<1>4. 4 + Len(body) <= 65535 BY <1>2 DEF Fits, MAX_TLV
<1>5. PICK n \in Nat : n = 4 + Len(body) /\ n <= 65535 BY <1>0, <1>4
<1>6. t <= 65535 BY <1>1
<1>7. Lies(w, pos, PutU16(t) \o PutU16(n) \o body) BY <1>1, <1>3, <1>5
<1>8. /\ U16(w, pos) = t /\ U16(w, pos + 2) = n /\ w[pos + 1] = t \div 256
      /\ Lies(w, pos + 4, body) /\ pos + 4 + Len(body) <= Len(w)
  BY <1>5, <1>6, <1>7, HeaderLies
<1>9. t % 1024 = t /\ ~(t \div 256 >= 128) BY <1>1
<1>10. TlvType(w, pos) = Type(x) BY <1>1, <1>8, <1>9 DEF TlvType
<1>11. TlvEnd(w, pos) = pos + 4 + Len(body) BY <1>0, <1>5, <1>8 DEF TlvEnd
<1>12. pos < Len(w) BY <1>0, <1>8
<1>13. ~(w[pos + 1] >= 128) BY <1>8, <1>9
<1> QED BY <1>8, <1>10, <1>11, <1>12, <1>13 DEF TlvAt

\* The class of a known TLV is found again.
Announced(w, pos, c) ==
    /\ Classes[c].kind = "tlv" => TlvType(w, pos) = Classes[c].type
    /\ Classes[c].kind = "custom" => TlvType(w, pos) = 1023 /\ Lies(w, pos + 4, Key(c))

Opening(c) == IF Classes[c].kind = "custom" THEN 12 ELSE 4

LEMMA ClassBack ==
    ASSUME NEW c \in OfKinds({"tlv", "custom"}), NEW w \in Seq(Byte), NEW pos \in Nat,
           Announced(w, pos, c)
    PROVE  TlvClass(w, pos) = c /\ TlvBody(w, pos) = pos + Opening(c)
<1>0. c \in DOMAIN Classes /\ Classes[c].kind \in {"tlv", "custom"} BY DEF OfKinds
<1>3. /\ Classes[c].kind = "tlv" => TlvType(w, pos) = Classes[c].type
      /\ Classes[c].kind = "custom" => TlvType(w, pos) = 1023 /\ Lies(w, pos + 4, Key(c))
  BY DEF Announced
<1>1. CASE Classes[c].kind = "tlv"
  <2>1. PICK t : t = Classes[c].type OBVIOUS
  <2>2. t \in Nat /\ t < 1023 BY <1>0, <1>1, <2>1, NumberIs
  <2>3. c \in OfKinds({"tlv", "tv"}) BY <1>0, <1>1 DEF OfKinds
  <2>4. Key(c) = t BY <1>0, <1>1, <2>1, KeyType
  <2>5. t \in DOMAIN PARAMETER_REGISTRY /\ PARAMETER_REGISTRY[t] = c BY <2>3, <2>4, RegistryOf DEF PARAMETER_REGISTRY
  <2>6. StandardClass(t) = c BY <1>1, <2>5 DEF StandardClass
  <2>7. TlvType(w, pos) = t /\ t # TYPE_CUSTOM BY <1>1, <1>3, <2>1, <2>2 DEF TYPE_CUSTOM
  <2>8. TlvClass(w, pos) = c BY <2>6, <2>7 DEF TlvClass
  <2>9. TlvBody(w, pos) = pos + 4 BY <2>7 DEF TlvBody
  <2> QED BY <1>1, <2>8, <2>9 DEF Opening
<1>2. CASE Classes[c].kind = "custom"
  <2>1. PICK key \in Seq(Byte) : key = Key(c) /\ Len(key) = 8 BY <1>0, <1>2, KeyType
  <2>2. PICK q \in Nat : q = pos + 4 OBVIOUS
  <2>3. Lies(w, q, key) BY <1>2, <1>3, <2>1, <2>2
  <2>4. SubSeq(w, q + 1, q + Len(key)) = key BY <2>3, CutOut
  <2>5. q + 1 = pos + 5 /\ q + Len(key) = pos + 12 BY <2>1, <2>2
  <2>6. SubSeq(w, pos + 5, pos + 12) = key BY <2>4, <2>5
  <2>7. c \in OfKinds({"custom"}) BY <1>0, <1>2 DEF OfKinds
  <2>8. key \in DOMAIN CUSTOM_PARAMETER_REGISTRY /\ CUSTOM_PARAMETER_REGISTRY[key] = c
    BY <2>1, <2>7, RegistryOf DEF CUSTOM_PARAMETER_REGISTRY
  <2>9. VendorClass(key) = c BY <2>8 DEF VendorClass
  <2>10. TlvType(w, pos) = TYPE_CUSTOM BY <1>2, <1>3 DEF TYPE_CUSTOM
  <2>11. TlvClass(w, pos) = c BY <2>6, <2>9, <2>10 DEF TlvClass
  <2>12. TlvBody(w, pos) = pos + 12 BY <2>10 DEF TlvBody
  <2> QED BY <1>2, <2>11, <2>12 DEF Opening
<1> QED BY <1>0, <1>1, <1>2

\* A TLV whose header lies there is read as its class says.
TlvEnds(w, pos, end) ==
    /\ pos < Len(w) /\ ~(w[pos + 1] >= 128) /\ pos + 4 <= Len(w)
    /\ TlvEnd(w, pos) = end /\ end <= Len(w) /\ TlvBody(w, pos) <= end

LEMMA TlvParamIs ==
    ASSUME NEW rest, NEW w \in Seq(Byte), NEW pos \in Nat, NEW end, TlvEnds(w, pos, end)
    PROVE  DecodeParam(rest, w, pos) = TlvParam(rest, TlvClass(w, pos), w, pos, end)
<1>0. Len(w) \in Nat BY LenProperties
<1>1. DecodeParam(rest, w, pos) = DecodeTlv(rest, w, pos) BY <1>0 DEF TlvEnds, DecodeParam
<1>2. DecodeTlv(rest, w, pos) = TlvParam(rest, TlvClass(w, pos), w, pos, end) BY DEF TlvEnds, DecodeTlv
<1> QED BY <1>1, <1>2

\* A known TLV is decoded where it lies.
LEMMA KnownTlvBack ==
    ASSUME NEW e, NEW S, NEW x \in StructsOver(S), x.cls \in OfKinds({"tlv", "custom"}), Regular(x), Encodes(e, x),
           Subparams(x) \in Seq(Sendable(e)), NEW w \in Seq(Byte), NEW pos \in Nat,
           NEW body, body = Body(e, x), Lies(w, pos, Frame(x, body))
    PROVE  DecodeParam(DecodeParams(w), w, pos) = Ok(pos + 4 + Len(body), x)
<1>1. x.cls \in DOMAIN Classes /\ Classes[x.cls].kind \in {"tlv", "custom"} BY DEF OfKinds
<1>2. PICK ws : ws = FlattenSeq(Wires(e, Subparams(x))) OBVIOUS
<1>3. PICK p : p = Pack(WriteFields(x.cls, x.fields).bits) OBVIOUS
<1>4. HasWires(e, Sendable(e)) BY SendableIs
<1>5. /\ body \in Seq(Byte) /\ ws \in Seq(Byte) /\ body = Prefix(x) \o (p \o ws)
      /\ IsFields(x.cls, x.fields) /\ Aligned(WriteFields(x.cls, x.fields))
  BY <1>1, <1>2, <1>3, <1>4, BodyIs
<1>6. p \in Seq(Byte) BY <1>1, <1>3, <1>5, FieldsWritten
<1>7. PICK a \in Seq(Byte) : a = Prefix(x) BY <1>1, KnownPrefix
<1>8. PICK b \in Seq(Byte) : b = p \o ws /\ Len(b) = Len(p) + Len(ws) BY <1>5, <1>6, ConcatProperties
<1>9. body = a \o b /\ Len(a \o b) = Len(a) + Len(b) BY <1>5, <1>7, <1>8, ConcatProperties
<1>10. Len(a) \in Nat /\ Len(b) \in Nat /\ Len(p) \in Nat /\ Len(ws) \in Nat BY <1>5, <1>6, LenProperties
<1>11. IsTlv(x) /\ Fits(x, body) BY DEF IsTlv, Encodes
<1>12. TlvAt(w, pos, x, body) BY <1>5, <1>11, TlvHeaderBack
<1>13. PICK q \in Nat : q = pos + 4 OBVIOUS
<1>14. Lies(w, q, a) /\ Lies(w, q + Len(a), b)
  <2>1. Lies(w, q, a \o b) BY <1>9, <1>12, <1>13 DEF TlvAt
  <2> QED BY <2>1, LiesConcat
<1>15. /\ Classes[x.cls].kind = "custom" => a = Key(x.cls) /\ Len(a) = 8 /\ Type(x) = 1023
       /\ Classes[x.cls].kind = "tlv" => Len(a) = 0 /\ Type(x) = Classes[x.cls].type
  BY <1>1, <1>7, KnownPrefix
<1>16. TlvClass(w, pos) = x.cls /\ TlvBody(w, pos) = pos + Opening(x.cls)
  <2>1. TlvType(w, pos) = Type(x) BY <1>12 DEF TlvAt
  <2>2. Lies(w, pos + 4, a) BY <1>13, <1>14
  <2>3. Announced(w, pos, x.cls) BY <1>15, <2>1, <2>2 DEF Announced
  <2> QED BY <2>3, ClassBack
<1>17. PICK start \in Nat : start = TlvBody(w, pos) /\ start = q + Len(a)
  <2>1. CASE Classes[x.cls].kind = "custom"
    <3>1. TlvBody(w, pos) = pos + 12 BY <1>16, <2>1 DEF Opening
    <3>2. q + 8 = pos + 12 /\ pos + 12 \in Nat BY <1>13
    <3> QED BY <1>15, <2>1, <3>1, <3>2, Zenon
  <2>2. CASE Classes[x.cls].kind = "tlv"
    <3>1. TlvBody(w, pos) = pos + 4 BY <1>16, <2>2 DEF Opening
    <3>2. q + 0 = pos + 4 /\ pos + 4 \in Nat BY <1>13
    <3> QED BY <1>15, <2>2, <3>1, <3>2
  <2> QED BY <1>1, <2>1, <2>2
<1>18. PICK end \in Nat : end = pos + 4 + Len(body) /\ end = start + Len(p) + Len(ws) /\ start <= end
  <2>1. Len(body) = Len(a) + (Len(p) + Len(ws)) BY <1>8, <1>9
  <2>2. PICK la \in Nat, lp \in Nat, lw \in Nat : la = Len(a) /\ lp = Len(p) /\ lw = Len(ws) BY <1>10
  <2>3. PICK end \in Nat : end = start + lp + lw OBVIOUS
  <2>4. end = pos + 4 + (la + (lp + lw)) /\ start <= end BY <1>13, <1>17, <2>2, <2>3
  <2> QED BY <2>1, <2>2, <2>3, <2>4
<1>19. DecodeParam(DecodeParams(w), w, pos) = TlvParam(DecodeParams(w), x.cls, w, pos, end)
  <2>1. PICK rest : rest = DecodeParams(w) OBVIOUS
  <2>2. TlvBody(w, pos) <= end BY <1>17, <1>18
  <2>4. Len(w) \in Nat BY LenProperties
  <2>5. pos + 4 <= Len(w)
    <3>1. pos + 4 + Len(body) <= Len(w) /\ Len(body) \in Nat BY <1>5, <1>12, LenProperties DEF TlvAt
    <3> QED BY <2>4, <3>1
  <2>6. TlvEnds(w, pos, end) BY <1>12, <1>18, <2>2, <2>5 DEF TlvAt, TlvEnds
  <2>3. DecodeParam(rest, w, pos) = TlvParam(rest, TlvClass(w, pos), w, pos, end) BY <2>6, TlvParamIs
  <2> QED BY <1>16, <2>1, <2>3
<1>20. x.cls # NoClass BY <1>1, ClassIs
<1>21. PICK s : s = DecodeStruct(DecodeParams(w), x.cls, <<>>, w, start, end) OBVIOUS
<1>22. TlvParam(DecodeParams(w), x.cls, w, pos, end) = Exactly(s, end)
  BY <1>17, <1>20, <1>21 DEF TlvParam, DecodeKnownTlv
<1>23. s = Ok(end, Struct(x.cls, <<>>, x.fields, x.slots, x.extra))
  <2>1. Lies(w, start, b) BY <1>14, <1>17
  <2>2. PICK id : id = <<>> OBVIOUS
  <2>3. DecodeStruct(DecodeParams(w), x.cls, id, w, start, end) = Ok(end, Struct(x.cls, id, x.fields, x.slots, x.extra))
    <3>1. StructAt(w, start, p, ws, end) BY <1>8, <1>18, <2>1 DEF StructAt
    <3>2. Legal(e, x) /\ Contents(e, x, p, ws) BY <1>2, <1>3 DEF Legal, Contents
    <3> QED BY <1>1, <3>1, <3>2, StructBack
  <2> QED BY <1>21, <2>2, <2>3
<1>24. Struct(x.cls, <<>>, x.fields, x.slots, x.extra) = x
  <2>1. x.cls \notin Unknown /\ ~IsMessage(x.cls) BY <1>1, ClassIs
  <2>2. x.id = <<>> BY <2>1 DEF Regular
  <2>3. x = Struct(x.cls, x.id, x.fields, x.slots, x.extra) BY StructIs
  <2> QED BY <2>2, <2>3
<1>25. s = Ok(end, x) BY <1>23, <1>24
<1>26. Exactly(s, end) = s
  <2>1. s.ok /\ s.pos = end BY <1>25, OkIs
  <2> QED BY <2>1 DEF Exactly
<1> QED BY <1>18, <1>19, <1>22, <1>25, <1>26

\* A TLV that is kept as an unknown one is read as such.
LEMMA UnknownKept ==
    ASSUME NEW w \in Seq(Byte), NEW pos \in Nat, NEW end, TlvEnds(w, pos, end), TlvClass(w, pos) = NoClass
    PROVE  DecodeParam(DecodeParams(w), w, pos) = Ok(end, UnknownTlv(w, pos, end))
<1>1. PICK rest : rest = DecodeParams(w) OBVIOUS
<1>2. DecodeParam(rest, w, pos) = TlvParam(rest, TlvClass(w, pos), w, pos, end) BY TlvParamIs
<1>3. TlvParam(rest, NoClass, w, pos, end) = Ok(end, UnknownTlv(w, pos, end)) BY DEF TlvParam
<1> QED BY <1>1, <1>2, <1>3

\* What the header of x says is that of no class.
IsKept(w, pos, x) ==
    TlvClass(w, pos) = NoClass /\ TlvBody(w, pos) <= TlvEnd(w, pos) /\ UnknownTlv(w, pos, TlvEnd(w, pos)) = x

BodyOf(x, payload, body) ==
    payload = x.fields[1] /\ body = IF x.cls = "UnknownParameter" THEN payload ELSE x.id \o payload

\* An unknown parameter's own type is that of no class.
LEMMA UnknownParameterBack ==
    ASSUME NEW S, NEW x \in StructsOver(S), x.cls = "UnknownParameter", Regular(x),
           NEW body \in Seq(Byte), BodyOf(x, body, body), NEW w \in Seq(Byte), NEW pos \in Nat, TlvAt(w, pos, x, body)
    PROVE  IsKept(w, pos, x)
<1>20. PICK end : end = TlvEnd(w, pos) OBVIOUS
<1>21. body = x.fields[1] BY DEF BodyOf
<1>0. x.cls \in Unknown BY DEF Unknown
<1>1. PICK t : t = Type(x) OBVIOUS
<1>2. t \in Nat /\ t <= 1022 /\ x.id = PutU16(t) /\ t \notin {Classes[c].type : c \in OfKinds({"tlv"})}
  <2>1. t \in 0..1022 /\ x.id = PutU16(t) BY <1>1, UnknownParameterIs, ZenonT(60)
  <2>2. t \notin {Classes[c].type : c \in OfKinds({"tlv"})} BY <1>1, UnknownParameterIs
  <2>3. t \in Nat /\ t <= 1022 BY <2>1
  <2> QED BY <2>1, <2>2, <2>3
<1>3. TlvType(w, pos) = t BY <1>1 DEF TlvAt
<1>4. t # TYPE_CUSTOM BY <1>2 DEF TYPE_CUSTOM
<1>5. TlvClass(w, pos) = StandardClass(t) BY <1>3, <1>4 DEF TlvClass
<1>6. StandardClass(t) = NoClass
  <2> SUFFICES ASSUME StandardClass(t) # NoClass PROVE FALSE OBVIOUS
  <2>1. PICK c : c = StandardClass(t) OBVIOUS
  <2>2. c \in DOMAIN Classes /\ Classes[c].kind = "tlv" /\ Classes[c].type = t BY <2>1, StandardClassIs
  <2>3. c \in OfKinds({"tlv"}) BY <2>2 DEF OfKinds
  <2> QED BY <1>2, <2>2, <2>3
<1>7. TlvBody(w, pos) = pos + 4 BY <1>3, <1>4 DEF TlvBody
<1>8. PICK q \in Nat : q = pos + 4 OBVIOUS
<1>9. Lies(w, q, body) BY <1>8 DEF TlvAt
<1>10. SubSeq(w, q + 1, q + Len(body)) = body BY <1>9, CutOut
<1>11. q + 1 = pos + 5 BY <1>8
<1>12. q + Len(body) = end BY <1>8, <1>20 DEF TlvAt
<1>13. SubSeq(w, pos + 5, end) = body BY <1>10, <1>11, <1>12
<1>14. UnknownTlv(w, pos, end) = Struct("UnknownParameter", PutU16(t), <<SubSeq(w, pos + 5, end)>>, <<>>, <<>>)
  BY <1>3, <1>4 DEF UnknownTlv
<1>15. x = Struct(x.cls, x.id, <<x.fields[1]>>, <<>>, <<>>) BY <1>0, UnknownIs
<1>16. pos + 4 <= end
  <2>1. Len(body) \in Nat BY LenProperties
  <2> QED BY <1>8, <1>12, <2>1
<1> QED BY <1>2, <1>5, <1>6, <1>7, <1>13, <1>14, <1>15, <1>16, <1>20, <1>21, ZenonT(60) DEF IsKept

\* So are the vendor and the subtype of an unknown vendor parameter.
LEMMA UnknownCustomParameterBack ==
    ASSUME NEW S, NEW x \in StructsOver(S), x.cls = "UnknownCustomParameter", Regular(x),
           NEW payload \in Seq(Byte), NEW body \in Seq(Byte), BodyOf(x, payload, body),
           NEW w \in Seq(Byte), NEW pos \in Nat, TlvAt(w, pos, x, body)
    PROVE  IsKept(w, pos, x)
<1>20. PICK end : end = TlvEnd(w, pos) OBVIOUS
<1>21. payload = x.fields[1] /\ body = x.id \o payload BY DEF BodyOf
<1>0. x.cls \in Unknown BY DEF Unknown
<1>1. Len(x.id) = 8 /\ Type(x) = 1023 /\ x.id \notin DOMAIN CUSTOM_PARAMETER_REGISTRY BY UnknownCustomParameterIs
<1>2. PICK key \in Seq(Byte) : key = x.id BY StructIs
<1>3. TlvType(w, pos) = TYPE_CUSTOM BY <1>1 DEF TlvAt, TYPE_CUSTOM
<1>4. PICK q \in Nat : q = pos + 4 OBVIOUS
<1>5. Lies(w, q, key) /\ Lies(w, q + Len(key), payload)
  <2>1. Lies(w, q, key \o payload) BY <1>2, <1>4, <1>21 DEF TlvAt
  <2> QED BY <2>1, LiesConcat
<1>6. PICK r \in Nat : r = q + Len(key) /\ r = pos + 12
  <2>1. Len(key) = 8 BY <1>1, <1>2
  <2>2. q + 8 = pos + 12 /\ pos + 12 \in Nat BY <1>4
  <2> QED BY <2>1, <2>2
<1>7. SubSeq(w, pos + 5, pos + 12) = key
  <2>1. SubSeq(w, q + 1, q + Len(key)) = key BY <1>5, CutOut
  <2>2. q + 1 = pos + 5 BY <1>4
  <2> QED BY <1>6, <2>1, <2>2
<1>8. Len(payload) \in Nat /\ Len(body) = 8 + Len(payload)
  <2>1. body = key \o payload /\ Len(key) = 8 BY <1>1, <1>2, <1>21
  <2>2. Len(key \o payload) = Len(key) + Len(payload) BY ConcatProperties
  <2>3. Len(payload) \in Nat BY LenProperties
  <2> QED BY <2>1, <2>2, <2>3
<1>9. end = r + Len(payload)
  <2>1. PICK n \in Nat : n = Len(payload) BY <1>8
  <2>2. pos + 4 + (8 + n) = pos + 12 + n OBVIOUS
  <2>3. end = pos + 4 + Len(body) BY <1>20 DEF TlvAt
  <2> QED BY <1>6, <1>8, <2>1, <2>2, <2>3
<1>10. SubSeq(w, pos + 13, end) = payload
  <2>1. Lies(w, r, payload) BY <1>5, <1>6
  <2>2. SubSeq(w, r + 1, r + Len(payload)) = payload BY <2>1, CutOut
  <2>3. r + 1 = pos + 13 BY <1>6
  <2> QED BY <1>9, <2>2, <2>3
<1>11. TlvBody(w, pos) = pos + 12 BY <1>3 DEF TlvBody
<1>12. VendorClass(key) = NoClass BY <1>1, <1>2 DEF VendorClass
<1>13. TlvClass(w, pos) = NoClass BY <1>3, <1>7, <1>12 DEF TlvClass
<1>14. UnknownTlv(w, pos, end)
          = Struct("UnknownCustomParameter", SubSeq(w, pos + 5, pos + 12), <<SubSeq(w, pos + 13, end)>>, <<>>, <<>>)
  BY <1>3 DEF UnknownTlv
<1>15. x = Struct(x.cls, x.id, <<x.fields[1]>>, <<>>, <<>>) BY <1>0, UnknownIs
<1>16. UnknownTlv(w, pos, end) = x BY <1>2, <1>7, <1>10, <1>14, <1>15, <1>21
<1>17. r <= end
  <2>1. PICK n \in Nat : n = Len(payload) BY <1>8
  <2>2. r <= r + n OBVIOUS
  <2> QED BY <1>9, <2>1, <2>2
<1> QED BY <1>6, <1>11, <1>13, <1>16, <1>17, <1>20 DEF IsKept

\* An unknown TLV is decoded where it lies.
LEMMA UnknownTlvBack ==
    ASSUME NEW e, NEW S, NEW x \in StructsOver(S), x.cls \in {"UnknownParameter", "UnknownCustomParameter"},
           Legal(e, x), NEW w \in Seq(Byte), NEW pos \in Nat,
           NEW body, body = Body(e, x), Lies(w, pos, Frame(x, body))
    PROVE  DecodeParam(DecodeParams(w), w, pos) = Ok(pos + 4 + Len(body), x)
<1>1. x.cls \in Unknown BY DEF Unknown
<1>2. Regular(x) /\ Encodes(e, x) /\ Subparams(x) \in Seq(Sendable(e)) BY DEF Legal
<1>3. HasWires(e, Sendable(e)) BY SendableIs
<1>4. PICK ws : ws = FlattenSeq(Wires(e, Subparams(x))) OBVIOUS
<1>5. body \in Seq(Byte) /\ body = Prefix(x) \o x.fields[1] /\ x.fields[1] \in Seq(Byte)
  BY <1>1, <1>2, <1>3, <1>4, BodyIs
<1>6. TlvAt(w, pos, x, body)
  <2>1. IsTlv(x) BY DEF IsTlv
  <2>2. Fits(x, body) BY <1>2 DEF Encodes
  <2> QED BY <1>2, <1>5, <2>1, <2>2, TlvHeaderBack
<1>7. Len(w) \in Nat /\ Len(body) \in Nat BY <1>5, LenProperties
<1>8. PICK end \in Nat : end = pos + 4 + Len(body) /\ end = TlvEnd(w, pos)
  <2>1. pos + 4 + Len(body) \in Nat BY <1>7
  <2> QED BY <1>6, <2>1 DEF TlvAt
<1>12. IsKept(w, pos, x)
  <2>1. CASE x.cls = "UnknownParameter"
    <3>1. Prefix(x) = <<>> BY <1>2, <2>1, UnknownParameterIs
    <3>2. body = x.fields[1] BY <1>5, <3>1, ConcatEmptySeq
    <3>3. BodyOf(x, body, body) BY <2>1, <3>2 DEF BodyOf
    <3> QED BY <1>2, <1>5, <1>6, <2>1, <3>3, UnknownParameterBack
  <2>2. CASE x.cls = "UnknownCustomParameter"
    <3>1. Prefix(x) = x.id BY <1>2, <2>2, UnknownCustomParameterIs
    <3>2. PICK payload \in Seq(Byte) : payload = x.fields[1] BY <1>5
    <3>3. BodyOf(x, payload, body) BY <1>5, <2>2, <3>1, <3>2 DEF BodyOf
    <3> QED BY <1>2, <1>5, <1>6, <2>2, <3>3, UnknownCustomParameterBack
  <2> QED BY <2>1, <2>2
<1>9. TlvClass(w, pos) = NoClass /\ TlvBody(w, pos) <= end /\ UnknownTlv(w, pos, end) = x BY <1>8, <1>12 DEF IsKept
<1>10. TlvEnds(w, pos, end)
  <2>1. pos + 4 <= Len(w) BY <1>6, <1>7 DEF TlvAt
  <2> QED BY <1>6, <1>8, <1>9, <2>1 DEF TlvAt, TlvEnds
<1>11. DecodeParam(DecodeParams(w), w, pos) = Ok(end, UnknownTlv(w, pos, end)) BY <1>9, <1>10, UnknownKept
<1> QED BY <1>8, <1>9, <1>11

\* The type of a TV is what its first byte says.
LEMMA TvByte ==
    ASSUME NEW t \in Nat, t < 128
    PROVE  128 + t \in Byte /\ (128 + t) % 128 = t /\ 128 + t >= 128
  BY DEF Byte

\* A TV is decoded where it lies.
LEMMA TvBack ==
    ASSUME NEW e, NEW S, NEW x \in StructsOver(S), x.cls \in OfKinds({"tv"}), Legal(e, x),
           NEW w \in Seq(Byte), NEW pos \in Nat,
           NEW body, body = Body(e, x), Lies(w, pos, Frame(x, body))
    PROVE  DecodeParam(DecodeParams(w), w, pos) = Ok(pos + 1 + Len(body), x)
<1>1. Regular(x) /\ Encodes(e, x) /\ Subparams(x) \in Seq(Sendable(e)) BY DEF Legal
<1>2. PICK t \in Nat : t = Type(x) /\ t < 128 BY TvTypeIs
<1>3. /\ t = Classes[x.cls].type /\ Prefix(x) = <<>> /\ x.cls \in DOMAIN Classes /\ Classes[x.cls].kind = "tv"
      /\ SlotsOf(x.cls) = <<>>
  BY <1>2, TvTypeIs
<1>4. PICK c \in DOMAIN Classes : c = x.cls BY <1>3
<1>5. c \notin Unknown /\ ~IsMessage(c) BY <1>3, <1>4, ClassIs
<1>6. x.id = <<>> /\ IsPlaced(c, x.slots, x.extra) /\ x.extra = <<>> BY <1>1, <1>3, <1>4, <1>5 DEF Regular
<1>7. x.slots = <<>>
  <2>1. Len(x.slots) = 0 BY <1>3, <1>4, <1>6 DEF IsPlaced
  <2>2. x.slots \in Seq(Seq(S)) BY StructIs
  <2> QED BY <2>1, <2>2
<1>8. Subparams(x) = <<>> BY <1>6, <1>7, FlattenEmpty DEF Subparams
<1>9. PICK ws : ws = FlattenSeq(Wires(e, Subparams(x))) OBVIOUS
<1>10. ws = <<>>
  <2>1. Size(e, <<>>) = 0 BY SizeEmpty
  <2>2. Wires(e, <<>>) = <<>> BY DEF Wires
  <2> QED BY <1>8, <1>9, <2>2, FlattenEmpty
<1>11. PICK p : p = Pack(WriteFields(c, x.fields).bits) OBVIOUS
<1>12. HasWires(e, Sendable(e)) BY SendableIs
<1>13. body \in Seq(Byte) /\ body = Prefix(x) \o (p \o ws) /\ IsFields(c, x.fields) /\ Aligned(WriteFields(c, x.fields))
  BY <1>1, <1>4, <1>9, <1>11, <1>12, BodyIs
<1>14. p \in Seq(Byte) BY <1>11, <1>13, FieldsWritten
<1>15. body = p
  <2>1. p \o <<>> = p BY <1>14, ConcatEmptySeq
  <2>2. <<>> \o p = p BY <1>14, ConcatEmptySeq
  <2> QED BY <1>3, <1>10, <1>13, <2>1, <2>2
<1>16. PICK one \in Seq(Byte) : one = <<128 + t>> /\ Len(one) = 1 /\ one[1] = 128 + t
  <2>1. 128 + t \in Byte BY <1>2, TvByte
  <2>2. PICK b \in Byte : b = 128 + t BY <2>1
  <2>3. <<b>> \in Seq(Byte) /\ Len(<<b>>) = 1 /\ <<b>>[1] = b OBVIOUS
  <2> QED BY <2>2, <2>3
<1>17. Frame(x, body) = one \o p
  <2>1. Frame(x, body) = <<128 + Type(x)>> \o body BY <1>2, TvFrame, Zenon
  <2> QED BY <1>2, <1>15, <1>16, <2>1, Zenon
<1>18. Lies(w, pos, one) /\ Lies(w, pos + Len(one), p) BY <1>14, <1>17, LiesConcat
<1>19. PICK q \in Nat : q = pos + 1 OBVIOUS
<1>20. Lies(w, q, p) BY <1>16, <1>18, <1>19
<1>21. w[pos + 1] = 128 + t /\ ~(pos >= Len(w))
  <2>1. Len(w) \in Nat BY LenProperties
  <2> QED BY <1>16, <1>18, <2>1 DEF Lies
<1>22. w[pos + 1] % 128 = t /\ w[pos + 1] >= 128 BY <1>2, <1>21, TvByte
<1>23. t \in DOMAIN PARAMETER_REGISTRY /\ PARAMETER_REGISTRY[t] = c
  <2>1. c \in OfKinds({"tlv", "tv"}) BY <1>3, <1>4 DEF OfKinds
  <2>2. Key(c) = t BY <1>3, <1>4, KeyType
  <2> QED BY <2>1, <2>2, RegistryOf DEF PARAMETER_REGISTRY
<1>24. PICK f : f = DecodeFields(c, w, q) OBVIOUS
<1>25. f.ok /\ f.p % 8 = 0 /\ f.p \div 8 = q + Len(p) /\ f.values = x.fields
  <2>1. PICK values : values = x.fields OBVIOUS
  <2>2. p = Pack(WriteFields(c, values).bits) BY <1>11, <2>1
  <2>3. IsFields(c, values) /\ Aligned(WriteFields(c, values)) BY <1>13, <2>1
  <2>4. FieldsAt(c, values, p, w, q) BY <1>20, <2>2, <2>3 DEF FieldsAt
  <2> QED BY <1>24, <2>1, <2>4, FieldsDecoded
<1>26. DecodeTv(w, pos) = TvParam(c, f)
  <2>1. f = DecodeFields(c, w, pos + 1) BY <1>19, <1>24
  <2>2. Classes[c].kind = "tv" BY <1>3, <1>4
  <2> QED BY <1>22, <1>23, <2>1, <2>2 DEF DecodeTv
<1>27. TvParam(c, f) = Ok(q + Len(p), Struct(c, <<>>, x.fields, <<>>, <<>>)) BY <1>25 DEF TvParam
<1>28. x = Struct(c, <<>>, x.fields, <<>>, <<>>)
  <2>1. x = Struct(x.cls, x.id, x.fields, x.slots, x.extra) BY StructIs
  <2> QED BY <1>4, <1>6, <1>7, <2>1
<1>29. DecodeParam(DecodeParams(w), w, pos) = DecodeTv(w, pos) BY <1>21, <1>22 DEF DecodeParam
<1> QED BY <1>15, <1>19, <1>26, <1>27, <1>28, <1>29

\* What is legal is sent as bytes.
LEMMA LegalFrame ==
    ASSUME NEW e, NEW S, NEW x \in StructsOver(S), Legal(e, x), NEW body, body = Body(e, x)
    PROVE  /\ body \in Seq(Byte) /\ Frame(x, body) \in Seq(Byte) /\ Len(body) \in Nat /\ Len(Frame(x, body)) > 0
           /\ IsTlv(x) => Len(Frame(x, body)) = 4 + Len(body)
           /\ x.cls \in OfKinds({"tv"}) => Len(Frame(x, body)) = 1 + Len(body)
           /\ IsMessage(x.cls) => Len(Frame(x, body)) = 10 + Len(body)
           /\ Fits(x, body)
<1>1. Regular(x) /\ Encodes(e, x) /\ Subparams(x) \in Seq(Sendable(e)) BY DEF Legal
<1>2. HasWires(e, Sendable(e)) BY SendableIs
<1>3. PICK ws : ws = FlattenSeq(Wires(e, Subparams(x))) OBVIOUS
<1>4. body \in Seq(Byte) BY <1>1, <1>2, <1>3, BodyIs
<1>5. Fits(x, body) BY <1>1 DEF Encodes
<1> QED BY <1>1, <1>4, <1>5, FrameType

\* A parameter whose sub-parameters are read back is read back.
LEMMA StepBack ==
    ASSUME NEW e, NEW S, NEW x \in StructsOver(S), Legal(e, x), ~IsMessage(x.cls),
           NEW d, d[x].wire = Frame(x, Body(e, x))
    PROVE  ReadsBack(d, x)
<1>1. PICK body : body = Body(e, x) OBVIOUS
<1>2. PICK f \in Seq(Byte) : f = Frame(x, body) BY <1>1, LegalFrame
<1>3. /\ Len(f) > 0 /\ Len(body) \in Nat
      /\ IsTlv(x) => Len(f) = 4 + Len(body)
      /\ x.cls \in OfKinds({"tv"}) => Len(f) = 1 + Len(body)
  BY <1>1, <1>2, LegalFrame
<1>4. d[x].wire = f BY <1>1, <1>2
<1>5. ASSUME NEW w \in Seq(Byte), NEW pos \in Nat, Lies(w, pos, f)
      PROVE  DecodeParam(DecodeParams(w), w, pos) = Ok(pos + Len(f), x)
  <2>1. CASE x.cls \in OfKinds({"tv"})
    <3>1. DecodeParam(DecodeParams(w), w, pos) = Ok(pos + 1 + Len(body), x) BY <1>1, <1>2, <1>5, <2>1, TvBack
    <3>2. pos + 1 + Len(body) = pos + Len(f) BY <1>3, <2>1
    <3> QED BY <3>1, <3>2
  <2>2. CASE x.cls \in {"UnknownParameter", "UnknownCustomParameter"}
    <3>1. DecodeParam(DecodeParams(w), w, pos) = Ok(pos + 4 + Len(body), x) BY <1>1, <1>2, <1>5, <2>2, UnknownTlvBack
    <3>2. IsTlv(x) BY <2>2 DEF IsTlv
    <3>3. pos + 4 + Len(body) = pos + Len(f) BY <1>3, <3>2
    <3> QED BY <3>1, <3>3
  <2>3. CASE x.cls \in OfKinds({"tlv", "custom"})
    <3>1. Regular(x) /\ Encodes(e, x) /\ Subparams(x) \in Seq(Sendable(e)) BY DEF Legal
    <3>2. DecodeParam(DecodeParams(w), w, pos) = Ok(pos + 4 + Len(body), x) BY <1>1, <1>2, <1>5, <2>3, <3>1, KnownTlvBack
    <3>3. IsTlv(x) BY <2>3 DEF IsTlv
    <3>4. pos + 4 + Len(body) = pos + Len(f) BY <1>3, <3>3
    <3> QED BY <3>2, <3>4
  <2> QED BY <2>1, <2>2, <2>3, SortsAre DEF IsTlv
<1> QED BY <1>3, <1>4, <1>5 DEF ReadsBack

\* Then it can be sent inside another.
LEMMA StepSendable ==
    ASSUME NEW e, NEW x \in StructsOver(DOMAIN e), Legal(e, x), ~IsMessage(x.cls), NEW d, d = Deeper(e)
    PROVE  x \in Sendable(d)
<1>1. x \in DOMAIN d /\ d[x] = [ok |-> Encodes(e, x), wire |-> Frame(x, Body(e, x))] BY DEF Deeper
<1>2. d[x].ok BY <1>1 DEF Legal
<1>3. d[x].wire = Frame(x, Body(e, x)) BY <1>1
<1>4. ReadsBack(d, x) BY <1>3, StepBack
<1> QED BY <1>1, <1>2, <1>4 DEF Sendable

(* Messages. *)

\* The first two bytes: three reserved bits, the version and the type.
Word(v, t) == v * 1024 + t

VersionType(n, v, t) == n <= 65535 /\ n % 1024 = t /\ ((n \div 256) \div 4) % 8 = v

LEMMA VersionAndType ==
    ASSUME NEW v \in 0..7, NEW t \in Nat, t <= 1023, NEW n, n = Word(v, t)
    PROVE  n \in Nat /\ VersionType(n, v, t)
<1>1. v \in Nat /\ v <= 7 OBVIOUS
<1>6. n = v * 1024 + t BY DEF Word
<1>2. n \in Nat BY <1>1, <1>6
<1>3. n % 1024 = t /\ n \div 1024 = v /\ n <= 8191 BY <1>1, <1>2, <1>6
<1>4. (n \div 256) \div 4 = n \div 1024 BY <1>2
<1>5. v % 8 = v BY <1>1
<1> QED BY <1>2, <1>3, <1>4, <1>5 DEF VersionType

LEMMA FirstBytes ==
    ASSUME NEW w \in Seq(Byte), NEW n \in Nat, NEW v, NEW t, VersionType(n, v, t), Lies(w, 0, PutU16(n))
    PROVE  U16(w, 0) % 1024 = t /\ (w[1] \div 4) % 8 = v
<1>1. PICK q \in Nat : q = 0 OBVIOUS
<1>2. Lies(w, q, PutU16(n)) /\ n <= 65535 BY <1>1 DEF VersionType
<1>3. U16(w, q) = n /\ w[q + 1] = n \div 256 BY <1>2, U16Lies
<1>4. U16(w, 0) = n BY <1>1, <1>3
<1>5. q + 1 = 1 BY <1>1
<1>6. w[1] = n \div 256 BY <1>3, <1>5
<1>7. n % 1024 = t /\ ((n \div 256) \div 4) % 8 = v BY DEF VersionType
<1> QED BY <1>4, <1>6, <1>7

\* Four pieces, one behind the other.
LEMMA LiesFour ==
    ASSUME NEW V, NEW w \in Seq(V), NEW s \in Seq(V), NEW t \in Seq(V), NEW u \in Seq(V), NEW v \in Seq(V),
           Lies(w, 0, s \o t \o u \o v)
    PROVE  Lies(w, 0, s) /\ Lies(w, Len(s), t) /\ Lies(w, Len(s) + Len(t), u) /\ Lies(w, Len(s) + Len(t) + Len(u), v)
<1>1. PICK a \in Seq(V) : a = s \o t \o u /\ Len(a) = Len(s) + Len(t) + Len(u)
  <2>1. s \o t \o u \in Seq(V) /\ Len(s \o t \o u) = Len(s) + Len(t) + Len(u) BY LenThree
  <2> QED BY <2>1
<1>2. Len(s) \in Nat /\ Len(t) \in Nat /\ Len(u) \in Nat /\ Len(a) \in Nat BY LenProperties
<1>3. Lies(w, 0, a \o v) BY <1>1
<1>4. Lies(w, 0, a) /\ Lies(w, 0 + Len(a), v) BY <1>3, LiesConcat
<1>5. Lies(w, 0, s) /\ Lies(w, 0 + Len(s), t) /\ Lies(w, 0 + Len(s) + Len(t), u)
  <2>1. Lies(w, 0, s \o t \o u) BY <1>1, <1>4
  <2> QED BY <2>1, LiesThree
<1>6. 0 + Len(a) = Len(s) + Len(t) + Len(u) /\ 0 + Len(s) = Len(s) BY <1>1, <1>2
<1> QED BY <1>4, <1>5, <1>6

\* The header of a message that is the whole wire.
MessageAt(w, x, body) ==
    /\ Len(w) >= 10 /\ SubSeq(w, 3, 6) = PutU32(Len(w)) /\ U16(w, 0) % 1024 = Type(x)
    /\ <<(w[1] \div 4) % 8>> \o SubSeq(w, 7, 10) = SubSeq(x.id, 1, 5)
    /\ Lies(w, 10, body) /\ Len(w) = 10 + Len(body)

LEMMA MessageHeaderBack ==
    ASSUME NEW S, NEW x \in StructsOver(S), Regular(x), IsMessage(x.cls), NEW body \in Seq(Byte), Fits(x, body),
           NEW w \in Seq(Byte), w = Frame(x, body)
    PROVE  MessageAt(w, x, body)
<1>0. Len(w) \in Nat /\ Len(body) \in Nat BY LenProperties
<1>1. PICK t \in Nat : t = Type(x) /\ t <= 1023 BY MessageTypeIs
<1>2. PICK v \in 0..7 : v = x.id[1] BY HeaderIs
<1>3. PICK mark \in Seq(Byte) : mark = SubSeq(x.id, 2, 5) /\ Len(mark) = 4 BY HeaderIs
<1>4. SubSeq(x.id, 1, 5) = <<v>> \o mark BY <1>2, <1>3, HeaderIs
<1>5. PICK n : n = Word(v, t) OBVIOUS
<1>21. n \in Nat /\ VersionType(n, v, t) BY <1>1, <1>5, VersionAndType, ZenonT(60)
<1>6. PICK a \in Seq(Byte) : a = PutU16(n) /\ Len(a) = 2
  <2>1. n <= 65535 BY <1>21 DEF VersionType
  <2>2. PutU16(n) \in Seq(Byte) /\ Len(PutU16(n)) = 2 BY <1>21, <2>1, PutU16Type
  <2> QED BY <2>2
<1>7. Len(w) = 10 + Len(body) BY FrameType
<1>8. PICK l \in Nat : l = 10 + Len(body) BY <1>0
<1>9. PICK b \in Seq(Byte) : b = PutU32(l) /\ Len(b) = 4
  <2>1. TopByte(l) <= 255 BY <1>8, MessageFrame
  <2> QED BY <2>1, PutU32Type
<1>10. w = a \o b \o mark \o body
  <2>1. w = PutU16(x.id[1] * 1024 + Type(x)) \o PutU32(10 + Len(body)) \o SubSeq(x.id, 2, 5) \o body
    BY Zenon DEF Frame
  <2>2. PutU16(x.id[1] * 1024 + Type(x)) = a BY <1>1, <1>2, <1>5, <1>6 DEF Word
  <2>3. PutU32(10 + Len(body)) = b BY <1>8, <1>9
  <2>4. w = a \o PutU32(10 + Len(body)) \o SubSeq(x.id, 2, 5) \o body BY <2>1, <2>2, ZenonT(60)
  <2>5. w = a \o b \o SubSeq(x.id, 2, 5) \o body BY <2>3, <2>4, Zenon
  <2> QED BY <1>3, <2>5, Zenon
<1>11. Lies(w, 0, a) /\ Lies(w, Len(a), b) /\ Lies(w, Len(a) + Len(b), mark) /\ Lies(w, Len(a) + Len(b) + Len(mark), body)
  <2>1. Lies(w, 0, w) BY WholeLies
  <2>2. Lies(w, 0, a \o b \o mark \o body) BY <1>10, <2>1
  <2> QED BY <2>2, LiesFour
<1>12. Len(a) + Len(b) = 6 /\ Len(a) + Len(b) + Len(mark) = 10 BY <1>3, <1>6, <1>9
<1>13. Lies(w, 2, b) /\ Lies(w, 6, mark) /\ Lies(w, 10, body) BY <1>6, <1>11, <1>12
<1>14. U16(w, 0) % 1024 = t /\ (w[1] \div 4) % 8 = v
  <2>1. Lies(w, 0, PutU16(n)) BY <1>6, <1>11
  <2> QED BY <1>21, <2>1, FirstBytes
<1>15. SubSeq(w, 3, 6) = b
  <2>1. PICK q \in Nat : q = 2 OBVIOUS
  <2>2. SubSeq(w, q + 1, q + Len(b)) = b BY <1>13, <2>1, CutOut
  <2>3. q + 1 = 3 /\ q + Len(b) = 6 BY <1>9, <2>1
  <2> QED BY <2>2, <2>3
<1>16. SubSeq(w, 7, 10) = mark
  <2>1. PICK q \in Nat : q = 6 OBVIOUS
  <2>2. SubSeq(w, q + 1, q + Len(mark)) = mark BY <1>13, <2>1, CutOut
  <2>3. q + 1 = 7 /\ q + Len(mark) = 10 BY <1>3, <2>1
  <2> QED BY <2>2, <2>3
<1>17. SubSeq(w, 3, 6) = PutU32(Len(w)) BY <1>7, <1>8, <1>9, <1>15
<1>18. U16(w, 0) % 1024 = Type(x) BY <1>1, <1>14
<1>19. <<(w[1] \div 4) % 8>> \o SubSeq(w, 7, 10) = SubSeq(x.id, 1, 5) BY <1>4, <1>14, <1>16, Zenon
<1>20. Len(w) >= 10 BY <1>0, <1>7
<1> QED BY <1>7, <1>13, <1>17, <1>18, <1>19, <1>20 DEF MessageAt

LEMMA AddThree == ASSUME NEW l \in Nat, NEW m \in Nat, NEW n \in Nat, NEW q \in Nat
                  PROVE  q + (l + (m + n)) = q + l + m + n
  OBVIOUS

\* The parts of the body of a known class lie where the body lies.
LEMMA PartsLie ==
    ASSUME NEW e, NEW S, NEW x \in StructsOver(S), x.cls \in DOMAIN Classes, Legal(e, x), NEW p, NEW ws, Contents(e, x, p, ws),
           NEW body, body = Body(e, x), NEW w \in Seq(Byte), NEW q \in Nat, Lies(w, q, body),
           NEW a, a = Prefix(x), NEW end, end = q + Len(body)
    PROVE  Lies(w, q, a) /\ StructAt(w, q + Len(a), p, ws, end) /\ a \in Seq(Byte)
<1>1. Regular(x) /\ Encodes(e, x) /\ Subparams(x) \in Seq(Sendable(e)) BY DEF Legal
<1>2. p = Pack(WriteFields(x.cls, x.fields).bits) /\ ws = FlattenSeq(Wires(e, Subparams(x))) BY DEF Contents
<1>3. HasWires(e, Sendable(e)) BY SendableIs
<1>4. /\ body \in Seq(Byte) /\ ws \in Seq(Byte) /\ body = a \o (p \o ws)
      /\ IsFields(x.cls, x.fields) /\ Aligned(WriteFields(x.cls, x.fields))
  BY <1>1, <1>2, <1>3, BodyIs
<1>5. p \in Seq(Byte) BY <1>2, <1>4, FieldsWritten
<1>6. a \in Seq(Byte) BY KnownPrefix
<1>7. PICK b \in Seq(Byte) : b = p \o ws /\ Len(b) = Len(p) + Len(ws) BY <1>4, <1>5, ConcatProperties
<1>8. body = a \o b /\ Len(a \o b) = Len(a) + Len(b) BY <1>4, <1>6, <1>7, ConcatProperties
<1>9. Lies(w, q, a) /\ Lies(w, q + Len(a), b)
  <2>1. Lies(w, q, a \o b) BY <1>8
  <2> QED BY <1>6, <2>1, LiesConcat
<1>10. end = q + Len(a) + Len(p) + Len(ws)
  <2>1. PICK l \in Nat, m \in Nat, n \in Nat : l = Len(a) /\ m = Len(p) /\ n = Len(ws) BY <1>4, <1>5, <1>6, LenProperties
  <2>2. end = q + (l + (m + n)) BY <1>7, <1>8, <2>1
  <2> QED BY <2>1, <2>2, AddThree
<1> QED BY <1>6, <1>7, <1>9, <1>10 DEF StructAt

\* The body of a message is decoded to it.
BodyReads(w, x) == DecodeBody(w, Type(x), SubSeq(x.id, 1, 5)) = Ok(Len(w), x)

LEMMA KnownMessageBack ==
    ASSUME NEW e, NEW S, NEW x \in StructsOver(S), x.cls \in DOMAIN Classes, Classes[x.cls].kind = "msg", Legal(e, x),
           NEW body, body = Body(e, x), NEW w \in Seq(Byte), MessageAt(w, x, body)
    PROVE  BodyReads(w, x)
<1>1. PICK c \in DOMAIN Classes : c = x.cls OBVIOUS
<1>2. c \notin Unknown /\ IsMessage(c) BY <1>1, ClassIs
<1>3. PICK id : id = SubSeq(x.id, 1, 5) OBVIOUS
<1>4. x.id = id
  <2>1. Len(x.id) = 5 /\ x.id \in Seq(Byte) BY <1>1, <1>2 DEF Legal, Regular, IsHeader
  <2>2. SubSeq(x.id, 1, Len(x.id)) = x.id BY <2>1, SubSeqFull
  <2> QED BY <1>3, <2>1, <2>2
<1>5. PICK t : t = Type(x) OBVIOUS
<1>6. t = Classes[c].type /\ t # TYPE_CUSTOM /\ Prefix(x) = <<>>
  <2>1. t = Classes[c].type /\ Prefix(x) = <<>> BY <1>1, <1>5, KnownPrefix
  <2>2. Classes[c].type \in Nat /\ Classes[c].type < 1023 BY <1>1, NumberIs
  <2> QED BY <2>1, <2>2 DEF TYPE_CUSTOM
<1>7. t \in DOMAIN MESSAGE_REGISTRY /\ MESSAGE_REGISTRY[t] = c
  <2>1. c \in OfKinds({"msg"}) BY <1>1 DEF OfKinds
  <2>2. Key(c) = t BY <1>1, <1>6, KeyType
  <2> QED BY <2>1, <2>2, RegistryOf DEF MESSAGE_REGISTRY
<1>8. PICK p, ws : Contents(e, x, p, ws) BY DEF Contents
<1>9. PICK q \in Nat : q = 10 OBVIOUS
<1>10. Lies(w, q, body) /\ Len(w) = q + Len(body) BY <1>9 DEF MessageAt
<1>11. StructAt(w, q, p, ws, Len(w))
  <2>1. PICK a : a = Prefix(x) OBVIOUS
  <2>2. StructAt(w, q + Len(a), p, ws, Len(w)) BY <1>8, <1>10, <2>1, PartsLie
  <2>3. q + Len(a) = q BY <1>6, <2>1
  <2> QED BY <2>2, <2>3
<1>12. DecodeStruct(DecodeParams(w), x.cls, id, w, q, Len(w)) = Ok(Len(w), Struct(x.cls, id, x.fields, x.slots, x.extra))
  BY <1>8, <1>11, StructBack
<1>13. x = Struct(x.cls, x.id, x.fields, x.slots, x.extra) BY StructIs
<1>14. DecodeBody(w, t, id) = DecodeStruct(DecodeParams(w), c, id, w, 10, Len(w)) BY <1>6, <1>7 DEF DecodeBody
<1> QED BY <1>1, <1>3, <1>4, <1>5, <1>9, <1>12, <1>13, <1>14 DEF BodyReads

\* A cut between two places.
CutAt(w, q, s, from, to) == Lies(w, q, s) /\ from = q + 1 /\ to = q + Len(s)

LEMMA CutBetween ==
    ASSUME NEW w \in Seq(Byte), NEW q \in Nat, NEW s \in Seq(Byte), NEW from, NEW to, CutAt(w, q, s, from, to)
    PROVE  SubSeq(w, from, to) = s
  BY CutOut DEF CutAt

LEMMA CustomMessageBack ==
    ASSUME NEW e, NEW S, NEW x \in StructsOver(S), x.cls \in DOMAIN Classes, Classes[x.cls].kind = "custommsg", Legal(e, x),
           NEW body, body = Body(e, x), NEW w \in Seq(Byte), MessageAt(w, x, body)
    PROVE  BodyReads(w, x)
<1>1. PICK c \in DOMAIN Classes : c = x.cls OBVIOUS
<1>2. c \notin Unknown /\ IsMessage(c) BY <1>1, ClassIs
<1>3. PICK id : id = SubSeq(x.id, 1, 5) OBVIOUS
<1>4. x.id = id
  <2>1. Len(x.id) = 5 /\ x.id \in Seq(Byte) BY <1>1, <1>2 DEF Legal, Regular, IsHeader
  <2>2. SubSeq(x.id, 1, Len(x.id)) = x.id BY <2>1, SubSeqFull
  <2> QED BY <1>3, <2>1, <2>2
<1>5. Type(x) = TYPE_CUSTOM BY KnownPrefix DEF TYPE_CUSTOM
<1>6. PICK key : key = Prefix(x) OBVIOUS
<1>7. key = Key(c) /\ Len(key) = 5 BY <1>1, <1>6, KnownPrefix
<1>8. PICK p, ws : Contents(e, x, p, ws) BY DEF Contents
<1>9. PICK q \in Nat : q = 10 OBVIOUS
<1>10. Lies(w, q, body) /\ Len(w) = q + Len(body) BY <1>9 DEF MessageAt
<1>11. Lies(w, q, key) /\ StructAt(w, q + Len(key), p, ws, Len(w)) /\ key \in Seq(Byte)
  BY <1>6, <1>8, <1>10, PartsLie
<1>12. PICK r \in Nat : r = q + Len(key) /\ r = 15 BY <1>7, <1>9
<1>13. SubSeq(w, 11, 15) = key
  <2>1. 11 = q + 1 /\ 15 = q + Len(key) BY <1>9, <1>12
  <2>2. CutAt(w, q, key, 11, 15) BY <1>11, <2>1 DEF CutAt
  <2> QED BY <1>11, <2>2, CutBetween
<1>14. key \in DOMAIN CUSTOM_MESSAGE_REGISTRY /\ CUSTOM_MESSAGE_REGISTRY[key] = c
  <2>1. c \in OfKinds({"custommsg"}) BY <1>1 DEF OfKinds
  <2> QED BY <1>7, <2>1, RegistryOf DEF CUSTOM_MESSAGE_REGISTRY
<1>15. StructAt(w, r, p, ws, Len(w)) BY <1>11, <1>12
<1>16. DecodeStruct(DecodeParams(w), x.cls, id, w, r, Len(w)) = Ok(Len(w), Struct(x.cls, id, x.fields, x.slots, x.extra))
  BY <1>8, <1>15, StructBack
<1>17. x = Struct(x.cls, x.id, x.fields, x.slots, x.extra) BY StructIs
<1>18. ~(Len(w) < 15)
  <2>1. q + Len(key) <= Len(w) BY <1>11 DEF Lies
  <2>2. Len(w) \in Nat BY LenProperties
  <2> QED BY <1>12, <2>1, <2>2
<1>19. DecodeBody(w, TYPE_CUSTOM, id) = DecodeCustom(w, id) BY <1>18 DEF DecodeBody
<1>20. DecodeCustom(w, id) = DecodeStruct(DecodeParams(w), c, id, w, 15, Len(w)) BY <1>13, <1>14 DEF DecodeCustom
<1> QED BY <1>1, <1>3, <1>4, <1>5, <1>12, <1>16, <1>17, <1>19, <1>20 DEF BodyReads

\* Two cuts that meet make the whole.
LEMMA TwoCuts ==
    ASSUME NEW s \in Seq(Byte), NEW n \in Nat, Len(s) = 5 + n, NEW to, to = 5 + n
    PROVE  SubSeq(s, 1, 5) \o SubSeq(s, 6, to) = s /\ SubSeq(s, 6, to) \in Seq(Byte)
<1>1. Len(SubSeq(s, 1, 5)) = 5 /\ \A i \in 1..5 : SubSeq(s, 1, 5)[i] = s[i] OBVIOUS
<1>2. Len(SubSeq(s, 6, to)) = n /\ \A i \in 1..n : SubSeq(s, 6, to)[i] = s[5 + i] OBVIOUS
<1>3. SubSeq(s, 1, 5) \in Seq(Byte) /\ SubSeq(s, 6, to) \in Seq(Byte) OBVIOUS
<1>4. PICK a \in Seq(Byte), b \in Seq(Byte) : a = SubSeq(s, 1, 5) /\ b = SubSeq(s, 6, to) BY <1>3
<1>5. a \o b \in Seq(Byte) /\ Len(a \o b) = 5 + n BY <1>1, <1>2, <1>4
<1>6. ASSUME NEW i \in 1..(5 + n) PROVE (a \o b)[i] = s[i]
  <2>3. i \in Nat /\ i <= 5 + n OBVIOUS
  <2>1. CASE i <= 5
    <3>1. i \in 1..5 BY <2>1
    <3>2. (a \o b)[i] = a[i] BY <1>1, <1>2, <1>4, <2>1
    <3> QED BY <1>1, <1>4, <3>1, <3>2
  <2>2. CASE ~(i <= 5)
    <3>1. i - 5 \in 1..n /\ 5 + (i - 5) = i BY <2>2, <2>3
    <3>2. (a \o b)[i] = b[i - 5] BY <1>1, <1>2, <1>4, <2>2
    <3> QED BY <1>2, <1>4, <3>1, <3>2
  <2> QED BY <2>1, <2>2
<1>7. a \o b = s BY <1>5, <1>6, SeqEqual
<1> QED BY <1>3, <1>4, <1>7

LEMMA UnknownMessageBack ==
    ASSUME NEW e, NEW S, NEW x \in StructsOver(S), x.cls = "UnknownMessage", Legal(e, x),
           NEW body, body = Body(e, x), NEW w \in Seq(Byte), MessageAt(w, x, body)
    PROVE  BodyReads(w, x)
<1>0. x.cls \in Unknown /\ Regular(x) BY DEF Unknown, Legal
<1>1. PICK id \in Seq(Byte) : id = x.id BY StructIs
<1>2. Len(id) = 7 /\ Prefix(x) = <<>> BY <1>0, <1>1, UnknownMessageIs
<1>3. PICK t : t = Type(x) OBVIOUS
<1>4. t # TYPE_CUSTOM /\ t \notin DOMAIN MESSAGE_REGISTRY /\ SubSeq(id, 6, 7) = PutU16(t)
  <2>3. x.id \in Seq(Byte) BY <1>1
  <2>4. Type(x) \in 0..1022 /\ SubSeq(x.id, 6, 7) = PutU16(Type(x)) BY <1>0, <2>3, UnknownMessageIs, ZenonT(60)
  <2>5. Type(x) \notin DOMAIN MESSAGE_REGISTRY BY <1>0, <2>3, UnknownMessageIs
  <2>1. t \in 0..1022 /\ t \notin DOMAIN MESSAGE_REGISTRY /\ SubSeq(id, 6, 7) = PutU16(t)
    BY <1>1, <1>3, <2>4, <2>5, Zenon
  <2>2. ~(1023 \in 0..1022) OBVIOUS
  <2> QED BY <2>1, <2>2 DEF TYPE_CUSTOM
<1>5. SubSeq(id, 1, 5) \o PutU16(t) = id
  <2>1. SubSeq(id, 1, 5) \o SubSeq(id, 6, 7) = id BY <1>2, TwoCuts
  <2> QED BY <1>4, <2>1
<1>6. body \in Seq(Byte) /\ body = x.fields[1]
  <2>1. HasWires(e, Sendable(e)) /\ Subparams(x) \in Seq(Sendable(e)) /\ Encodes(e, x) BY SendableIs DEF Legal
  <2>2. PICK ws : ws = FlattenSeq(Wires(e, Subparams(x))) OBVIOUS
  <2>3. body = Prefix(x) \o x.fields[1] /\ x.fields[1] \in Seq(Byte) BY <1>0, <2>1, <2>2, BodyIs
  <2>4. <<>> \o x.fields[1] = x.fields[1] BY <2>3, ConcatEmptySeq
  <2> QED BY <1>2, <2>3, <2>4
<1>7. SubSeq(w, 11, Len(w)) = body
  <2>1. PICK q \in Nat : q = 10 OBVIOUS
  <2>2. Lies(w, q, body) /\ Len(w) = q + Len(body) BY <2>1 DEF MessageAt
  <2>3. 11 = q + 1 BY <2>1
  <2>4. CutAt(w, q, body, 11, Len(w)) BY <2>2, <2>3 DEF CutAt
  <2> QED BY <1>6, <2>4, CutBetween
<1>8. DecodeBody(w, t, SubSeq(id, 1, 5))
         = Ok(Len(w), Struct("UnknownMessage", SubSeq(id, 1, 5) \o PutU16(t), <<SubSeq(w, 11, Len(w))>>, <<>>, <<>>))
  BY <1>4 DEF DecodeBody
<1>9. x = Struct(x.cls, x.id, <<x.fields[1]>>, <<>>, <<>>) BY <1>0, UnknownIs
<1> QED BY <1>1, <1>3, <1>5, <1>6, <1>7, <1>8, <1>9 DEF BodyReads

LEMMA UnknownCustomMessageBack ==
    ASSUME NEW e, NEW S, NEW x \in StructsOver(S), x.cls = "UnknownCustomMessage", Legal(e, x),
           NEW body, body = Body(e, x), NEW w \in Seq(Byte), MessageAt(w, x, body)
    PROVE  BodyReads(w, x)
<1>0. x.cls \in Unknown /\ Regular(x) BY DEF Unknown, Legal
<1>1. PICK id \in Seq(Byte) : id = x.id BY StructIs
<1>2. PICK key \in Seq(Byte) : key = Prefix(x) /\ Len(key) = 5 BY <1>0, <1>1, UnknownCustomMessageIs
<1>3. /\ Len(id) = 10 /\ Type(x) = TYPE_CUSTOM /\ key = SubSeq(id, 6, 10)
      /\ key \notin DOMAIN CUSTOM_MESSAGE_REGISTRY
  <2>1. x.id \in Seq(Byte) BY StructIs
  <2>2. Len(x.id) = 10 /\ Type(x) = 1023 /\ Prefix(x) = SubSeq(x.id, 6, 10) BY <1>0, <2>1, UnknownCustomMessageIs
  <2>3. SubSeq(x.id, 6, 10) \notin DOMAIN CUSTOM_MESSAGE_REGISTRY BY <1>0, <2>1, UnknownCustomMessageIs
  <2> QED BY <1>1, <1>2, <2>2, <2>3 DEF TYPE_CUSTOM
<1>4. SubSeq(id, 1, 5) \o key = id
  <2>1. SubSeq(id, 1, 5) \o SubSeq(id, 6, 10) = id BY <1>3, TwoCuts
  <2> QED BY <1>3, <2>1
<1>5. PICK payload \in Seq(Byte) : payload = x.fields[1] BY <1>0, UnknownIs
<1>6. body = key \o payload /\ Len(key \o payload) = Len(key) + Len(payload)
  <2>1. HasWires(e, Sendable(e)) /\ Subparams(x) \in Seq(Sendable(e)) /\ Encodes(e, x) BY SendableIs DEF Legal
  <2>2. PICK ws : ws = FlattenSeq(Wires(e, Subparams(x))) OBVIOUS
  <2>3. body = Prefix(x) \o x.fields[1] BY <1>0, <2>1, <2>2, BodyIs
  <2> QED BY <1>2, <1>5, <2>3, ConcatProperties
<1>7. PICK q \in Nat : q = 10 OBVIOUS
<1>8. Lies(w, q, key) /\ Lies(w, q + Len(key), payload)
  <2>1. Lies(w, q, key \o payload) BY <1>6, <1>7 DEF MessageAt
  <2> QED BY <2>1, LiesConcat
<1>9. PICK r \in Nat : r = q + Len(key) /\ r = 15 BY <1>2, <1>7
<1>10. Len(w) = r + Len(payload) /\ Len(payload) \in Nat
  <2>1. PICK n \in Nat : n = Len(payload) BY LenProperties
  <2>2. Len(w) = 10 + (5 + n) BY <1>2, <1>6, <2>1 DEF MessageAt
  <2> QED BY <1>9, <2>1, <2>2
<1>11. SubSeq(w, 11, 15) = key
  <2>1. 11 = q + 1 /\ 15 = q + Len(key) BY <1>7, <1>9
  <2>2. CutAt(w, q, key, 11, 15) BY <1>8, <2>1 DEF CutAt
  <2> QED BY <2>2, CutBetween
<1>12. SubSeq(w, 16, Len(w)) = payload
  <2>1. 16 = r + 1 BY <1>9
  <2>2. Lies(w, r, payload) BY <1>8, <1>9
  <2>3. CutAt(w, r, payload, 16, Len(w)) BY <1>10, <2>1, <2>2 DEF CutAt
  <2> QED BY <2>3, CutBetween
<1>13. ~(Len(w) < 15) BY <1>9, <1>10
<1>14. DecodeBody(w, TYPE_CUSTOM, SubSeq(id, 1, 5)) = DecodeCustom(w, SubSeq(id, 1, 5)) BY <1>13 DEF DecodeBody
<1>15. DecodeCustom(w, SubSeq(id, 1, 5))
          = Ok(Len(w), Struct("UnknownCustomMessage", SubSeq(id, 1, 5) \o key, <<SubSeq(w, 16, Len(w))>>, <<>>, <<>>))
  BY <1>3, <1>11 DEF DecodeCustom
<1>16. x = Struct(x.cls, x.id, <<x.fields[1]>>, <<>>, <<>>) BY <1>0, UnknownIs
<1> QED BY <1>1, <1>3, <1>4, <1>5, <1>12, <1>14, <1>15, <1>16 DEF BodyReads

\* A message whose parameters are read back is read back.
LEMMA MessageBack ==
    ASSUME NEW e, NEW S, NEW x \in StructsOver(S), Legal(e, x), IsMessage(x.cls), NEW w, w = Frame(x, Body(e, x))
    PROVE  DecodeMessage(w) = Ok(Len(w), x)
<1>1. PICK body \in Seq(Byte) : body = Body(e, x) BY LegalFrame
<1>2. w \in Seq(Byte) /\ Fits(x, body) BY <1>1, LegalFrame
<1>3. MessageAt(w, x, body)
  <2>1. Regular(x) BY DEF Legal
  <2> QED BY <1>1, <1>2, <2>1, MessageHeaderBack
<1>4. BodyReads(w, x)
  <2>1. CASE x.cls = "UnknownMessage" BY <1>1, <1>2, <1>3, <2>1, UnknownMessageBack
  <2>2. CASE x.cls = "UnknownCustomMessage" BY <1>1, <1>2, <1>3, <2>2, UnknownCustomMessageBack
  <2>3. CASE x.cls \in DOMAIN Classes
    <3>1. Classes[x.cls].kind \in {"msg", "custommsg"} BY <2>3, ClassIs
    <3>2. CASE Classes[x.cls].kind = "msg" BY <1>1, <1>2, <1>3, <2>3, <3>2, KnownMessageBack
    <3>3. CASE Classes[x.cls].kind = "custommsg" BY <1>1, <1>2, <1>3, <2>3, <3>3, CustomMessageBack
    <3> QED BY <3>1, <3>2, <3>3
  <2>4. x.cls \in DOMAIN Classes \/ x.cls \in Unknown BY StructIs
  <2>5. x.cls \in Unknown => x.cls \in {"UnknownMessage", "UnknownCustomMessage"} BY DEF IsMessage
  <2> QED BY <2>1, <2>2, <2>3, <2>4, <2>5
<1>5. PICK b : b = DecodeBody(w, Type(x), SubSeq(x.id, 1, 5)) OBVIOUS
<1>6. b = Ok(Len(w), x) BY <1>4, <1>5 DEF BodyReads
<1>7. DecodeMessage(w) = Exactly(b, Len(w))
  <2>1. Len(w) >= 10 /\ SubSeq(w, 3, 6) = PutU32(Len(w)) BY <1>3 DEF MessageAt
  <2>2. PICK t : t = U16(w, 0) % 1024 OBVIOUS
  <2>3. PICK id : id = <<(w[1] \div 4) % 8>> \o SubSeq(w, 7, 10) OBVIOUS
  <2>4. t = Type(x) /\ id = SubSeq(x.id, 1, 5) BY <1>3, <2>2, <2>3 DEF MessageAt
  <2>5. DecodeMessage(w) = Exactly(DecodeBody(w, t, id), Len(w)) BY <2>1, <2>2, <2>3 DEF DecodeMessage
  <2> QED BY <1>5, <2>4, <2>5
<1>8. b.ok /\ b.pos = Len(w) BY <1>6, OkIs
<1>9. Exactly(b, Len(w)) = b BY <1>8 DEF Exactly
<1> QED BY <1>6, <1>7, <1>9

(* What is sent comes back. *)

\* To a depth, every parameter that is sent can be sent inside another.
AllSendable(d) == \A x \in Structures : x \in DOMAIN Below(d) /\ ~IsMessage(x.cls) => x \in Sendable(Below(d))

LEMMA SoundIs ==
    ASSUME NEW x \in Structures
    PROVE  /\ x \in StructsOver(DOMAIN Below(MaxDepth)) /\ Regular(x) /\ Encodes(Below(MaxDepth), x)
           /\ Encoding[MaxDepth][x].wire = Frame(x, Body(Below(MaxDepth), x))
           /\ ToSet(Subparams(x)) \subseteq Structures
<1>1. x \in DOMAIN Encoding[MaxDepth] /\ Regular(x) /\ Encoding[MaxDepth][x].ok /\ ToSet(Subparams(x)) \subseteq Structures
  BY StructuresAssumption DEF Sound
<1>2. PICK d \in Nat : d = MaxDepth BY StructuresAssumption
<1>3. x \in StructsOver(DOMAIN Below(d)) BY <1>1, <1>2, EncodedIs
<1>4. Encoding[d][x] = [ok |-> Encodes(Below(d), x), wire |-> Frame(x, Body(Below(d), x))] BY <1>3, EncodedIs
<1> QED BY <1>1, <1>2, <1>3, <1>4

AllIn(s, T) == \A k \in 1..Len(s) : s[k] \in T

LEMMA SeqWithin ==
    ASSUME NEW V, NEW T, NEW s \in Seq(V), AllIn(s, T)
    PROVE  s \in Seq(T)
<1>1. s \in [1..Len(s) -> V] /\ Len(s) \in Nat OBVIOUS
<1>2. s \in [1..Len(s) -> T] BY <1>1 DEF AllIn
<1> QED BY <1>1, <1>2, SeqDef

LEMMA LegalAt ==
    ASSUME NEW d \in Nat, d <= MaxDepth, AllSendable(d), NEW x \in Structures, x \in StructsOver(DOMAIN Below(d))
    PROVE  Legal(Below(d), x)
<1>1. PICK e : e = Below(d) OBVIOUS
<1>2. PICK f : f = Below(MaxDepth) OBVIOUS
<1>3. Extends(e, f) BY <1>1, <1>2, StructuresAssumption, Grows
<1>4. Regular(x) /\ Encodes(f, x) /\ ToSet(Subparams(x)) \subseteq Structures BY <1>2, SoundIs
<1>5. PICK ps \in Seq(DOMAIN e) : ps = Subparams(x) BY <1>1, StructIs
<1>6. Encodes(e, x) BY <1>3, <1>4, <1>5, SameBody
<1>7. ASSUME NEW k \in 1..Len(ps) PROVE ps[k] \in Sendable(e)
  <2>1. ps[k] \in DOMAIN e BY <1>5, ElementOfSeq
  <2>2. ps[k] \in Structures
    <3>1. ps[k] \in ToSet(ps) BY DEF ToSet
    <3> QED BY <1>4, <1>5, <3>1
  <2>3. ~IsMessage(ps[k].cls)
    <3>1. CASE x.cls \in Unknown
      <4>1. ps = <<>> BY <1>1, <1>4, <1>5, <3>1, UnknownIs
      <4> QED BY <4>1
    <3>2. CASE x.cls \notin Unknown
      <4>1. \A j \in DOMAIN Subparams(x) : ~IsMessage(Subparams(x)[j].cls) BY <1>4, <3>2 DEF Regular
      <4>2. k \in DOMAIN ps OBVIOUS
      <4> QED BY <1>5, <4>1, <4>2
    <3> QED BY <3>1, <3>2
  <2> QED BY <1>1, <2>1, <2>2, <2>3 DEF AllSendable
<1>8. ps \in Seq(Sendable(e))
  <2>1. PICK V : V = Sendable(e) OBVIOUS
  <2>2. AllIn(ps, V) BY <1>7, <2>1 DEF AllIn
  <2>4. PICK D : D = DOMAIN e OBVIOUS
  <2>5. ps \in Seq(D) BY <2>4
  <2>3. ps \in Seq(V) BY <2>2, <2>5, SeqWithin
  <2> QED BY <2>1, <2>3
<1> QED BY <1>1, <1>4, <1>5, <1>6, <1>8 DEF Legal

LEMMA EverySendable == \A d \in Nat : d <= MaxDepth + 1 => AllSendable(d)
<1>0. MaxDepth \in Nat BY StructuresAssumption
<1> DEFINE N == {d \in Nat : d <= MaxDepth + 1 => AllSendable(d)}
<1>1. 0 \in N
  <2>1. DOMAIN Below(0) = {} BY DEF Below
  <2> QED BY <2>1 DEF AllSendable
<1>2. ASSUME NEW d \in Nat, d \in N PROVE d + 1 \in N
  <2> SUFFICES ASSUME d + 1 <= MaxDepth + 1 PROVE AllSendable(d + 1) OBVIOUS
  <2>1. d <= MaxDepth BY <1>0
  <2>2. AllSendable(d) BY <1>0, <1>2, <2>1
  <2> SUFFICES ASSUME NEW x \in Structures, x \in DOMAIN Below(d + 1), ~IsMessage(x.cls)
               PROVE  x \in Sendable(Below(d + 1))
    BY DEF AllSendable
  <2>3. PICK e : e = Below(d) OBVIOUS
  <2>4. Below(d + 1) = Deeper(e) BY <2>3, BelowIs
  <2>5. x \in StructsOver(DOMAIN e) BY <2>4 DEF Deeper
  <2>6. Legal(e, x) BY <2>1, <2>2, <2>3, <2>5, LegalAt
  <2> QED BY <2>4, <2>5, <2>6, StepSendable
<1>3. Nat \subseteq N
  <2> HIDE DEF N
  <2> QED BY <1>1, <1>2, InductNat
<1> QED BY <1>3

LEMMA SentBack ==
    ASSUME NEW x \in Structures, NEW w, w = Encoding[MaxDepth][x].wire
    PROVE  /\ w \in Seq(Byte)
           /\ IsMessage(x.cls) => DecodeMessage(w) = Ok(Len(w), x)
           /\ ~IsMessage(x.cls) => DecodeParam(DecodeParams(w), w, 0) = Ok(Len(w), x)
<1>1. PICK d \in Nat : d = MaxDepth BY StructuresAssumption
<1>2. PICK e : e = Below(d) OBVIOUS
<1>3. x \in StructsOver(DOMAIN e) /\ w = Frame(x, Body(e, x)) BY <1>1, <1>2, SoundIs
<1>4. Legal(e, x)
  <2>1. d <= MaxDepth /\ d <= MaxDepth + 1 BY <1>1
  <2>2. AllSendable(d) BY <2>1, EverySendable
  <2> QED BY <1>2, <1>3, <2>1, <2>2, LegalAt
<1>5. w \in Seq(Byte)
  <2>1. PICK body : body = Body(e, x) OBVIOUS
  <2> QED BY <1>3, <1>4, <2>1, LegalFrame
<1>6. CASE IsMessage(x.cls)
  <2>1. DecodeMessage(w) = Ok(Len(w), x) BY <1>3, <1>4, <1>6, MessageBack
  <2> QED BY <1>5, <1>6, <2>1
<1>7. CASE ~IsMessage(x.cls)
  <2>1. PICK f : f = Deeper(e) OBVIOUS
  <2>2. f[x].wire = w BY <1>3, <2>1 DEF Deeper
  <2>3. ReadsBack(f, x)
    <3>1. f[x].wire = Frame(x, Body(e, x)) BY <1>3, <2>2
    <3> QED BY <1>3, <1>4, <1>7, <3>1, StepBack
  <2>4. Lies(w, 0, w) BY <1>5, WholeLies
  <2>5. PICK q \in Nat : q = 0 OBVIOUS
  <2>6. DecodeParam(DecodeParams(w), w, q) = Ok(q + Len(w), x) BY <1>5, <2>2, <2>3, <2>4, <2>5 DEF ReadsBack
  <2>7. q + Len(w) = Len(w)
    <3>1. Len(w) \in Nat BY <1>5, LenProperties
    <3> QED BY <2>5, <3>1
  <2> QED BY <1>5, <1>7, <2>5, <2>6, <2>7
<1> QED BY <1>6, <1>7

(* The invariant. *)

\* What arrives is bytes, those that were sent unless they were altered.
Arriving ==
    /\ original \in Structures /\ bytes \in Seq(Byte) /\ edits \in Nat
    /\ edits = 0 => bytes = Encoding[MaxDepth][original].wire

LEMMA GarbledType ==
    ASSUME NEW w \in Seq(Byte), NEW i \in DOMAIN w, NEW by \in Nat
    PROVE  [w EXCEPT ![i] = (@ + by) % 256] \in Seq(Byte)
<1>1. i \in 1..Len(w) OBVIOUS
<1>2. w[i] \in Byte BY <1>1, ElementOfSeq
<1>3. w[i] \in Nat BY <1>2, ByteIs
<1>4. (w[i] + by) % 256 \in Byte
  <2>1. PICK n \in Nat : n = w[i] + by BY <1>3
  <2>2. n % 256 \in Nat /\ n % 256 <= 255 OBVIOUS
  <2>3. n % 256 \in Byte BY <2>2, IsByte
  <2> QED BY <2>1, <2>3
<1> QED BY <1>1, <1>4

LEMMA LostType ==
    ASSUME NEW w \in Seq(Byte), NEW i \in DOMAIN w
    PROVE  RemoveAt(w, i) \in Seq(Byte)
<1>1. i \in 1..Len(w) OBVIOUS
<1>2. SubSeq(w, 1, i - 1) \in Seq(Byte) BY <1>1
<1>3. SubSeq(w, i + 1, Len(w)) \in Seq(Byte) BY <1>1
<1> QED BY <1>2, <1>3, ConcatProperties DEF RemoveAt

LEMMA DoubledType ==
    ASSUME NEW w \in Seq(Byte), NEW i \in DOMAIN w
    PROVE  InsertAt(w, i, w[i]) \in Seq(Byte)
<1>1. i \in 1..Len(w) OBVIOUS
<1>2. w[i] \in Byte BY <1>1, ElementOfSeq
<1>3. SubSeq(w, 1, i - 1) \in Seq(Byte) /\ SubSeq(w, i, Len(w)) \in Seq(Byte) BY <1>1
<1>4. SubSeq(w, 1, i - 1) \o <<w[i]>> \in Seq(Byte) BY <1>2, <1>3
<1> QED BY <1>3, <1>4, ConcatProperties DEF InsertAt

LEMMA ArrivingInvariant == WireSpec => []Arriving
<1>1. WireInit => Arriving
  <2> SUFFICES ASSUME WireInit PROVE Arriving OBVIOUS
  <2>1. original \in Structures /\ bytes = Encoding[MaxDepth][original].wire /\ edits = 0 BY DEF WireInit
  <2>2. bytes \in Seq(Byte) BY <2>1, SentBack
  <2> QED BY <2>1, <2>2 DEF Arriving
<1>2. Arriving /\ [WireNext]_bvars => Arriving'
  <2> SUFFICES ASSUME Arriving, [WireNext]_bvars PROVE Arriving' OBVIOUS
  <2>1. ASSUME NEW w \in Seq(Byte), Altered(w) PROVE Arriving'
    <3>1. bytes' = w /\ edits' = edits + 1 /\ original' = original /\ edits \in Nat BY <2>1 DEF Altered, Arriving
    <3>2. edits' \in Nat /\ edits' # 0 BY <3>1
    <3> QED BY <2>1, <3>1, <3>2 DEF Arriving
  <2>2. CASE Garble
    <3>1. PICK i \in DOMAIN bytes, by \in {1, 2, 4, 128, 255} : Altered([bytes EXCEPT ![i] = (@ + by) % 256])
      BY <2>2 DEF Garble
    <3>2. by \in Nat /\ bytes \in Seq(Byte) BY DEF Arriving
    <3>3. PICK w : w = [bytes EXCEPT ![i] = (@ + by) % 256] OBVIOUS
    <3>4. w \in Seq(Byte) BY <3>2, <3>3, GarbledType
    <3>5. Altered(w) BY <3>1, <3>3
    <3> QED BY <2>1, <3>4, <3>5
  <2>3. CASE Lose
    <3>1. PICK i \in DOMAIN bytes : Altered(RemoveAt(bytes, i)) BY <2>3 DEF Lose
    <3>2. RemoveAt(bytes, i) \in Seq(Byte) BY LostType DEF Arriving
    <3> QED BY <2>1, <3>1, <3>2
  <2>4. CASE Double
    <3>1. PICK i \in DOMAIN bytes : Altered(InsertAt(bytes, i, bytes[i])) BY <2>4 DEF Double
    <3>2. InsertAt(bytes, i, bytes[i]) \in Seq(Byte) BY DoubledType DEF Arriving
    <3> QED BY <2>1, <3>1, <3>2
  <2>5. CASE UNCHANGED bvars BY <2>5 DEF bvars, Arriving
  <2> QED BY <2>2, <2>3, <2>4, <2>5 DEF WireNext
<1> QED BY <1>1, <1>2, PTL DEF WireSpec

\* What the package can build and encode, every parameter in its slot, is decoded to the same
\* value: of any classes and slots, nested to any depth.
THEOREM EncodedComesBack == WireSpec => []RoundTrip
<1>1. Arriving => RoundTrip
  <2> SUFFICES ASSUME Arriving, edits = 0 PROVE Decode(bytes) = Ok(Len(bytes), original) BY DEF RoundTrip
  <2>1. original \in Structures /\ bytes = Encoding[MaxDepth][original].wire BY DEF Arriving
  <2> QED BY <2>1, SentBack DEF Decode
<1> QED BY <1>1, ArrivingInvariant, PTL

(* What is decoded can be encoded, to as many bytes. *)

BitsOfFields(c, values) == Pack(WriteFields(c, values).bits)

\* Fields that were read can be written.
FieldsKept(c, f, pos) ==
    /\ IsFields(c, f.values) /\ Aligned(WriteFields(c, f.values)) /\ f.values \in Seq(Seq(Byte))
    /\ f.p \div 8 = pos + Len(BitsOfFields(c, f.values))

BitsRead(kinds, values, pos, p) == 8 * pos + Len(Writing(kinds, values)[Len(kinds)].bits) = p

LEMMA FieldsSize ==
    ASSUME NEW kinds \in Seq(Int), NEW w \in Seq(Byte), NEW pos \in Nat, pos <= Len(w),
           NEW r, r = Reading(kinds, w, pos)[Len(kinds)], r.ok
    PROVE  BitsRead(kinds, r.values, pos, r.p)
  BY FieldsRead DEF BitsRead

LEMMA FieldsLegal ==
    ASSUME NEW c \in DOMAIN Classes, NEW w \in Seq(Byte), NEW pos \in Nat, pos <= Len(w),
           NEW f, f = DecodeFields(c, w, pos), f.ok, f.p % 8 = 0
    PROVE  FieldsKept(c, f, pos)
<1>1. PICK kinds \in Seq(Int) : kinds = Classes[c].fields BY ClassIs
<1>2. PICK values : values = f.values OBVIOUS
<1>3. PICK o : o = Writing(kinds, values)[Len(kinds)] OBVIOUS
<1>4. f = Reading(kinds, w, pos)[Len(kinds)] BY <1>1 DEF DecodeFields
<1>5. /\ AreValues(kinds, values) /\ f.p \in Nat /\ 8 * pos <= f.p
      /\ o.ok /\ o.bits \in BitStrings /\ 8 * pos + Len(o.bits) = f.p
  <2>1. PICK n : n = Len(kinds) OBVIOUS
  <2>2. AreValues(kinds, f.values) /\ f.p \in Nat /\ 8 * pos <= f.p BY <1>4, FieldsRead
  <2>3. Writing(kinds, f.values)[n].ok /\ Writing(kinds, f.values)[n].bits \in BitStrings BY <1>4, <2>1, FieldsRead
  <2>4. 8 * pos + Len(Writing(kinds, f.values)[n].bits) = f.p
    <3>1. BitsRead(kinds, f.values, pos, f.p) BY <1>4, FieldsSize
    <3> QED BY <2>1, <3>1 DEF BitsRead
  <2> QED BY <1>2, <1>3, <2>1, <2>2, <2>3, <2>4
<1>6. o = WriteFields(c, values) BY <1>1, <1>3 DEF WriteFields
<1>7. PICK n \in Nat : n = Len(o.bits)
  <2>1. Len(o.bits) \in Nat BY <1>5, LenProperties DEF BitStrings
  <2> QED BY <2>1
<1>8. n % 8 = 0 /\ f.p \div 8 = pos + (n \div 8)
  <2>1. f.p = 8 * pos + n BY <1>5, <1>7
  <2>2. PICK m \in Nat : m = f.p BY <1>5
  <2>3. m = 8 * pos + n /\ m % 8 = 0 BY <2>1, <2>2
  <2> QED BY <2>2, <2>3
<1>9. Aligned(o) BY <1>5, <1>7, <1>8 DEF Aligned
<1>10. IsFields(c, values)
  <2>1. values \in Seq(Seq({0, 1})) /\ Len(values) = Len(kinds) /\ \A i \in 1..Len(kinds) : IsValue(values[i], kinds[i])
    BY <1>5 DEF AreValues, BitStrings
  <2>2. DOMAIN values = 1..Len(kinds) BY <2>1, LenProperties
  <2> QED BY <1>1, <2>1, <2>2 DEF IsFields
<1>11. Len(Pack(o.bits)) = n \div 8
  <2>1. o.bits \in Seq({0, 1}) BY <1>5 DEF BitStrings
  <2> QED BY <1>7, <2>1, Packed
<1>12. values \in Seq(Seq(Byte))
  <2>1. {0, 1} \subseteq Byte BY DEF Byte
  <2>2. Seq({0, 1}) \subseteq Seq(Byte) BY <2>1, SeqGrows
  <2>3. values \in Seq(Seq({0, 1})) BY <1>10 DEF IsFields
  <2> QED BY <2>2, <2>3, SeqGrows
<1> QED BY <1>2, <1>6, <1>8, <1>9, <1>10, <1>11, <1>12 DEF FieldsKept, BitsOfFields

\* Behind lo, whatever parameters are decoded can be sent, in as many bytes as they were read from.
RowFits(e, pos, r) == r.ok => r.val \in Seq(Sendable(e)) /\ r.pos = pos + Size(e, r.val)

RowsFit(e, w, lo) == \A pos \in lo..Len(w), end \in 0..Len(w) : RowFits(e, pos, DecodeParams(w)[pos][end])

\* A structure made of such parameters.
Made(e, c, id, start, s, x) ==
    /\ s = Ok(s.pos, x) /\ x = Struct(c, id, x.fields, x.slots, x.extra) /\ x.cls = c /\ x.id = id
    /\ IsFields(c, x.fields) /\ Aligned(WriteFields(c, x.fields)) /\ x.fields \in Seq(Seq(Byte))
    /\ IsPlaced(c, x.slots, x.extra) /\ Complete(c, x.slots)
    /\ x.slots \in Seq(Seq(Sendable(e))) /\ x.extra \in Seq(Sendable(e)) /\ Subparams(x) \in Seq(Sendable(e))
    /\ s.pos = start + Len(BitsOfFields(c, x.fields)) + Size(e, Subparams(x))

LEMMA StructFields ==
    ASSUME NEW c, NEW id, NEW fields, NEW slots, NEW extra, NEW x, x = Struct(c, id, fields, slots, extra)
    PROVE  x.cls = c /\ x.id = id /\ x.fields = fields /\ x.slots = slots /\ x.extra = extra
  BY DEF Struct

LEMMA StructMade ==
    ASSUME NEW e, NEW w \in Seq(Byte), NEW c \in DOMAIN Classes, NEW id, NEW start \in Nat, start <= Len(w),
           RowsFit(e, w, start), NEW end \in 0..Len(w),
           NEW s, s = DecodeStruct(DecodeParams(w), c, id, w, start, end), s.ok
    PROVE  \E x : Made(e, c, id, start, s, x)
<1>1. PICK f : f = DecodeFields(c, w, start) OBVIOUS
<1>2. PICK g : g = DecodeParams(w) OBVIOUS
<1>3. f.ok /\ f.p % 8 = 0
  <2> SUFFICES ASSUME ~(f.ok /\ f.p % 8 = 0) PROVE FALSE OBVIOUS
  <2>1. s = Failed BY <1>1 DEF DecodeStruct
  <2> QED BY <2>1 DEF Failed
<1>4. PICK q : q = f.p \div 8 OBVIOUS
<1>5. PICK r : r = g[q][end] OBVIOUS
<1>6. s = Assemble(c, id, f, r) BY <1>1, <1>2, <1>3, <1>4, <1>5 DEF DecodeStruct
<1>7. PICK b : b = BindParams(c, r.val) OBVIOUS
<1>8. r.ok /\ Complete(c, b.slots)
  <2> SUFFICES ASSUME ~(r.ok /\ Complete(c, b.slots)) PROVE FALSE OBVIOUS
  <2>1. s = Failed BY <1>6, <1>7 DEF Assemble
  <2> QED BY <2>1 DEF Failed
<1>9. PICK x : x = Struct(c, id, f.values, b.slots, b.extra) OBVIOUS
<1>10. s = Ok(r.pos, x) BY <1>6, <1>7, <1>8, <1>9 DEF Assemble
<1>11. s.pos = r.pos BY <1>10, OkIs
<1>12. x.cls = c /\ x.id = id /\ x.fields = f.values /\ x.slots = b.slots /\ x.extra = b.extra
  BY <1>9, StructFields
<1>13. q \in start..Len(w) BY <1>1, <1>3, <1>4, FieldsEnd
<1>14. RowFits(e, q, r) BY <1>2, <1>5, <1>13 DEF RowsFit
<1>15. PICK V : V = Sendable(e) OBVIOUS
<1>16. PICK ps \in Seq(V) : ps = r.val BY <1>8, <1>14, <1>15 DEF RowFits
<1>17. r.pos = q + Size(e, ps) BY <1>8, <1>14, <1>16 DEF RowFits
<1>18. b \in Bounds(c, V) BY <1>7, <1>16, BindParamsType
<1>19. b.slots \in Seq(Seq(V)) /\ b.extra \in Seq(V) BY <1>18, BoundsType
<1>20. IsPlaced(c, b.slots, b.extra) BY <1>7, <1>16, BindParamsPlaced
<1>21. HasWires(e, V) BY <1>15, SendableIs
<1>22. PICK hs : hs = FlattenSeq(b.slots) \o b.extra OBVIOUS
<1>23. hs \in Seq(V) /\ Size(e, hs) = Size(e, ps) BY <1>7, <1>16, <1>21, <1>22, WiredBound
<1>24. Subparams(x) = hs BY <1>12, <1>22 DEF Subparams
<1>25. FieldsKept(c, f, start) BY <1>1, <1>3, FieldsLegal
<1>26. /\ IsFields(c, x.fields) /\ Aligned(WriteFields(c, x.fields)) /\ x.fields \in Seq(Seq(Byte))
       /\ q = start + Len(BitsOfFields(c, x.fields))
  BY <1>4, <1>12, <1>25 DEF FieldsKept
<1>27. s.pos = start + Len(BitsOfFields(c, x.fields)) + Size(e, Subparams(x))
  BY <1>11, <1>17, <1>23, <1>24, <1>26
<1>28. s = Ok(s.pos, x) BY <1>10, <1>11
<1>29. x = Struct(c, id, x.fields, x.slots, x.extra) BY <1>9, <1>12
<1>30. x.slots \in Seq(Seq(Sendable(e))) /\ x.extra \in Seq(Sendable(e)) /\ Subparams(x) \in Seq(Sendable(e))
  BY <1>12, <1>15, <1>19, <1>23, <1>24
<1>31. IsPlaced(c, x.slots, x.extra) /\ Complete(c, x.slots) BY <1>8, <1>12, <1>20
<1>32. Made(e, c, id, start, s, x) BY <1>12, <1>26, <1>27, <1>28, <1>29, <1>30, <1>31 DEF Made
<1> QED BY <1>32

\* Such a structure can be encoded, if its length fits.
IdFits(c, id) == id \in Seq(Byte) /\ IF IsMessage(c) THEN IsHeader(id) ELSE id = <<>>

TvBare(c, x) == Classes[c].kind = "tv" => x.extra = <<>>

BodyLen(e, x, n) == Len(Body(e, x)) = Len(Prefix(x)) + n

LEMMA MadeLegal ==
    ASSUME NEW e, NEW c \in DOMAIN Classes, NEW id, IdFits(c, id), NEW start \in Nat,
           NEW s, NEW x, Made(e, c, id, start, s, x), TvBare(c, x), Fits(x, Body(e, x))
    PROVE  x \in StructsOver(DOMAIN e) /\ Legal(e, x)
<1>1. /\ x = Struct(c, id, x.fields, x.slots, x.extra) /\ x.cls = c /\ x.id = id
      /\ IsFields(c, x.fields) /\ Aligned(WriteFields(c, x.fields)) /\ x.fields \in Seq(Seq(Byte))
      /\ IsPlaced(c, x.slots, x.extra) /\ Complete(c, x.slots)
      /\ x.slots \in Seq(Seq(Sendable(e))) /\ x.extra \in Seq(Sendable(e)) /\ Subparams(x) \in Seq(Sendable(e))
  BY DEF Made
<1>2. Sendable(e) \subseteq DOMAIN e BY DEF Sendable
<1>3. x \in StructsOver(DOMAIN e)
  <2>1. x \in StructsOver(Sendable(e))
    <3>1. PICK V : V = Sendable(e) OBVIOUS
    <3>2. id \in Seq(Byte) BY DEF IdFits
    <3> QED BY <1>1, <3>1, <3>2 DEF StructsOver, Struct
  <2> QED BY <1>2, <2>1, StructGrows
<1>4. PICK ps \in Seq(Sendable(e)) : ps = Subparams(x) BY <1>1
<1>5. \A k \in DOMAIN ps : ps[k] \in Sendable(e) BY ElementOfSeq, LenProperties
<1>6. \A k \in DOMAIN Subparams(x) : ~IsMessage(Subparams(x)[k].cls) /\ e[Subparams(x)[k]].ok
  BY <1>4, <1>5 DEF Sendable
<1>7. c \notin Unknown BY ClassIs
<1>8. Regular(x) BY <1>1, <1>6, <1>7 DEF Regular, IdFits, TvBare
<1>9. Encodes(e, x) BY <1>1, <1>6, <1>7 DEF Encodes
<1> QED BY <1>1, <1>3, <1>8, <1>9 DEF Legal

LEMMA MadeBody ==
    ASSUME NEW e, NEW c \in DOMAIN Classes, NEW id, NEW start \in Nat,
           NEW s, NEW x, Made(e, c, id, start, s, x), NEW n \in Nat, s.pos = start + n
    PROVE  BodyLen(e, x, n) /\ Body(e, x) \in Seq(Byte)
<1>1. /\ x.cls = c /\ IsFields(c, x.fields) /\ Aligned(WriteFields(c, x.fields)) /\ Subparams(x) \in Seq(Sendable(e))
      /\ s.pos = start + Len(BitsOfFields(c, x.fields)) + Size(e, Subparams(x))
  BY DEF Made
<1>2. PICK p : p = BitsOfFields(c, x.fields) OBVIOUS
<1>3. p \in Seq(Byte)
  <2>1. PICK values : values = x.fields OBVIOUS
  <2>2. IsFields(c, values) /\ Aligned(WriteFields(c, values)) BY <1>1, <2>1
  <2>3. PICK bits : bits = WriteFields(c, values).bits OBVIOUS
  <2>4. Pack(bits) \in Seq(Byte) BY <2>2, <2>3, FieldsWritten
  <2> QED BY <1>2, <2>1, <2>3, <2>4 DEF BitsOfFields
<1>4. PICK ps \in Seq(Sendable(e)) : ps = Subparams(x) BY <1>1
<1>5. PICK ws \in Seq(Byte) : ws = FlattenSeq(Wires(e, ps))
  <2>1. Wires(e, ps) \in Seq(Seq(Byte)) BY SendableIs, WiresType
  <2> QED BY <2>1, FlattenType
<1>6. PICK a \in Seq(Byte) : a = Prefix(x) BY <1>1, KnownPrefix
<1>7. Body(e, x) = a \o (p \o ws)
  <2>1. c \notin Unknown BY ClassIs
  <2>2. Body(e, x) = Prefix(x) \o (Pack(WriteFields(x.cls, x.fields).bits) \o FlattenSeq(Wires(e, Subparams(x))))
    BY <1>1, <2>1 DEF Body, Wires
  <2> QED BY <1>1, <1>2, <1>4, <1>5, <1>6, <2>2 DEF BitsOfFields
<1>8. PICK b \in Seq(Byte) : b = p \o ws /\ Len(b) = Len(p) + Len(ws) BY <1>3, ConcatProperties
<1>9. a \o b \in Seq(Byte) /\ Len(a \o b) = Len(a) + Len(b) BY ConcatProperties
<1>10. Len(p) + Len(ws) = n
  <2>1. PICK l \in Nat, m \in Nat : l = Len(p) /\ m = Len(ws) BY <1>3, LenProperties
  <2>2. start + n = start + l + m BY <1>1, <1>2, <1>4, <1>5, <2>1 DEF Size
  <2>3. l + m = n BY <2>2
  <2> QED BY <2>1, <2>3
<1> QED BY <1>6, <1>7, <1>8, <1>9, <1>10 DEF BodyLen

\* A parameter that was decoded can be sent, in as many bytes as it was read from.
HeadOf(e, pos, r, x) ==
    /\ x \in StructsOver(DOMAIN e) /\ Legal(e, x) /\ ~IsMessage(x.cls)
    /\ r = Ok(r.pos, x) /\ r.pos = pos + Len(Frame(x, Body(e, x)))

LEMMA NothingInside == ASSUME NEW x, x.slots = <<>>, x.extra = <<>> PROVE Subparams(x) = <<>>
<1>1. FlattenSeq(x.slots) = <<>> BY FlattenEmpty
<1>2. <<>> \o <<>> = <<>> OBVIOUS
<1> QED BY <1>1, <1>2 DEF Subparams

LEMMA TvMade ==
    ASSUME NEW e, NEW w \in Seq(Byte), NEW pos \in Nat, pos < Len(w), NEW r, r = DecodeTv(w, pos), r.ok
    PROVE  \E c \in OfKinds({"tv"}) : \E x : c \in DOMAIN Classes /\ Made(e, c, <<>>, pos + 1, r, x) /\ x.extra = <<>>
                                         /\ r.pos \in (pos + 1)..Len(w)
<1>0. Len(w) \in Nat BY LenProperties
<1>1. PICK t : t = w[pos + 1] % 128 OBVIOUS
<1>2. PICK c : c = PARAMETER_REGISTRY[t] OBVIOUS
<1>3. PICK q \in Nat : q = pos + 1 OBVIOUS
<1>4. PICK f : f = DecodeFields(c, w, pos + 1) OBVIOUS
<1>5. /\ c \in DOMAIN Classes /\ Classes[c].kind = "tv" /\ f.ok /\ f.p % 8 = 0 /\ f.p \div 8 \in (pos + 1)..Len(w)
      /\ r = Ok(f.p \div 8, Struct(c, <<>>, f.values, <<>>, <<>>))
  BY <1>1, <1>2, <1>4, TvIs
<1>6. f = DecodeFields(c, w, q) /\ q <= Len(w) BY <1>0, <1>3, <1>4
<1>7. FieldsKept(c, f, q) BY <1>5, <1>6, FieldsLegal
<1>8. PICK x : x = Struct(c, <<>>, f.values, <<>>, <<>>) OBVIOUS
<1>9. x.cls = c /\ x.id = <<>> /\ x.fields = f.values /\ x.slots = <<>> /\ x.extra = <<>> BY <1>8, StructFields
<1>10. SlotsOf(c) = <<>> BY <1>5, NumberIs
<1>11. IsPlaced(c, x.slots, x.extra) /\ Complete(c, x.slots) BY <1>9, <1>10 DEF IsPlaced, Complete, ToSet
<1>12. Subparams(x) = <<>> BY <1>9, NothingInside
<1>13. <<>> \in Seq(Sendable(e)) /\ <<>> \in Seq(Seq(Sendable(e))) BY EmptySeq
<1>14. r = Ok(r.pos, x) /\ r.pos = f.p \div 8 BY <1>5, <1>8, OkIs
<1>15. /\ IsFields(c, x.fields) /\ Aligned(WriteFields(c, x.fields)) /\ x.fields \in Seq(Seq(Byte))
       /\ r.pos = q + Len(BitsOfFields(c, x.fields))
  BY <1>7, <1>9, <1>14 DEF FieldsKept
<1>16. r.pos = q + Len(BitsOfFields(c, x.fields)) + Size(e, Subparams(x))
  <2>1. Size(e, Subparams(x)) = 0 BY <1>12, SizeEmpty
  <2>2. r.pos \in Nat BY <1>0, <1>5, <1>14
  <2>3. r.pos + 0 = r.pos BY <2>2
  <2> QED BY <1>15, <2>1, <2>3
<1>17. x = Struct(c, <<>>, x.fields, x.slots, x.extra) BY <1>8, <1>9
<1>18. Made(e, c, <<>>, q, r, x) BY <1>9, <1>11, <1>12, <1>13, <1>14, <1>15, <1>16, <1>17 DEF Made
<1>19. c \in OfKinds({"tv"}) BY <1>5 DEF OfKinds
<1> QED BY <1>3, <1>5, <1>9, <1>14, <1>18, <1>19

LEMMA TvHead ==
    ASSUME NEW e, NEW w \in Seq(Byte), NEW pos \in Nat, pos < Len(w), NEW r, r = DecodeTv(w, pos), r.ok
    PROVE  \E x : HeadOf(e, pos, r, x)
<1>0. PICK c \in OfKinds({"tv"}) :
        \E x : c \in DOMAIN Classes /\ Made(e, c, <<>>, pos + 1, r, x) /\ x.extra = <<>> /\ r.pos \in (pos + 1)..Len(w)
  BY TvMade
<1>1. PICK x : c \in DOMAIN Classes /\ Made(e, c, <<>>, pos + 1, r, x) /\ x.extra = <<>> /\ r.pos \in (pos + 1)..Len(w)
  BY <1>0
<1>2. PICK start \in Nat : start = pos + 1 OBVIOUS
<1>3. PICK id : id = <<>> OBVIOUS
<1>4. Made(e, c, id, start, r, x) BY <1>1, <1>2, <1>3
<1>5. x.cls = c /\ r = Ok(r.pos, x) BY <1>4 DEF Made
<1>6. ~IsMessage(c) BY <1>1, ClassIs DEF OfKinds
<1>7. IdFits(c, id) /\ TvBare(c, x) BY <1>1, <1>3, <1>6 DEF IdFits, TvBare
<1>8. Fits(x, Body(e, x)) BY <1>5, <1>6 DEF Fits
<1>9. x \in StructsOver(DOMAIN e) /\ Legal(e, x) BY <1>1, <1>4, <1>7, <1>8, MadeLegal
<1>10. PICK n \in Nat : r.pos = start + n
  <2>1. r.pos \in Nat /\ r.pos >= start BY <1>1, <1>2
  <2>2. r.pos - start \in Nat /\ r.pos = start + (r.pos - start) BY <2>1
  <2> QED BY <2>2
<1>11. BodyLen(e, x, n) BY <1>1, <1>4, <1>10, MadeBody
<1>12. PICK body : body = Body(e, x) OBVIOUS
<1>13. Len(body) = n
  <2>1. Prefix(x) = <<>> BY <1>5, TvTypeIs
  <2>2. 0 + n = n OBVIOUS
  <2> QED BY <1>11, <1>12, <2>1, <2>2 DEF BodyLen
<1>14. Len(Frame(x, body)) = 1 + Len(body) BY <1>5, <1>9, <1>12, LegalFrame
<1>15. r.pos = pos + (1 + n) BY <1>2, <1>10
<1> QED BY <1>5, <1>6, <1>9, <1>12, <1>13, <1>14, <1>15 DEF HeadOf

\* How many bytes are between the header of a TLV and its end: a length field says no more
\* than 65535.
LengthOf(pos, end, l) == end = pos + 4 + l /\ 4 + l <= 65535

LEMMA LengthIs ==
    ASSUME NEW w \in Seq(Byte), NEW pos \in Nat, NEW end, TlvFits(w, pos, end), end = TlvEnd(w, pos)
    PROVE  \E l \in Nat : LengthOf(pos, end, l)
<1>0. Len(w) \in Nat BY LenProperties
<1>1. end \in Nat /\ pos + 4 <= end /\ pos + 4 <= Len(w) BY DEF TlvFits
<1>2. PICK q \in Nat : q = pos + 2 OBVIOUS
<1>3. U16(w, q) \in Nat /\ U16(w, q) <= 65535 BY <1>0, <1>1, <1>2, U16Type
<1>4. PICK n \in Nat : n = U16(w, pos + 2) /\ n <= 65535 BY <1>2, <1>3
<1>5. end = pos + n BY <1>4 DEF TlvEnd
<1>6. PICK l \in Nat : l = n - 4 BY <1>1, <1>5
<1>7. end = pos + 4 + l /\ 4 + l <= 65535 BY <1>4, <1>5, <1>6
<1>8. LengthOf(pos, end, l) BY <1>7 DEF LengthOf
<1> QED BY <1>8

\* The head of a TLV, from the length of its body.
LEMMA TlvHead ==
    ASSUME NEW e, NEW x \in StructsOver(DOMAIN e), Legal(e, x), IsTlv(x), NEW pos \in Nat, NEW r, r = Ok(r.pos, x),
           NEW body, body = Body(e, x), NEW l \in Nat, Len(body) = l, r.pos = pos + 4 + l
    PROVE  HeadOf(e, pos, r, x)
<1>1. Len(Frame(x, body)) = 4 + l BY LegalFrame
<1>2. ~IsMessage(x.cls) BY SortsAre
<1>3. r.pos = pos + (4 + l) OBVIOUS
<1> QED BY <1>1, <1>2, <1>3 DEF HeadOf

\* A payload behind what identifies it, kept as an unknown TLV.
Carries(x, c, id, payload) == x = Struct(c, id, <<payload>>, <<>>, <<>>) /\ id \in Seq(Byte) /\ payload \in Seq(Byte)

LEMMA CarriesIs ==
    ASSUME NEW x, NEW c, NEW id, NEW payload, Carries(x, c, id, payload)
    PROVE  /\ x.cls = c /\ x.id = id /\ x.fields = <<payload>> /\ x.slots = <<>> /\ x.extra = <<>>
           /\ Len(x.fields) = 1 /\ x.fields[1] = payload /\ Subparams(x) = <<>>
           /\ c \in Unknown => \A S : x \in StructsOver(S)
<1>1. PICK fields : fields = <<payload>> OBVIOUS
<1>2. PICK none : none = <<>> OBVIOUS
<1>3. x = Struct(c, id, fields, none, none) BY <1>1, <1>2 DEF Carries
<1>4. x.cls = c /\ x.id = id /\ x.fields = fields /\ x.slots = none /\ x.extra = none BY <1>3, StructFields
<1>5. Len(fields) = 1 /\ fields[1] = payload BY <1>1
<1>6. Subparams(x) = <<>> BY <1>2, <1>4, NothingInside
<1>7. id \in Seq(Byte) /\ fields \in Seq(Seq(Byte)) BY <1>1 DEF Carries
<1>8. ASSUME c \in Unknown PROVE \A S : x \in StructsOver(S)
  <2> TAKE S
  <2>1. none \in Seq(Seq(S)) /\ none \in Seq(S) BY <1>2, EmptySeq
  <2> QED BY <1>3, <1>7, <1>8, <2>1 DEF StructsOver, Struct
<1> QED BY <1>1, <1>2, <1>4, <1>5, <1>6, <1>8

BodyFits(a, payload, l) == Len(a) + Len(payload) = l /\ 4 + l <= 65535

LEMMA UnknownLegal ==
    ASSUME NEW e, NEW x, NEW c \in {"UnknownParameter", "UnknownCustomParameter"}, NEW id, NEW payload,
           Carries(x, c, id, payload), Regular(x), NEW a \in Seq(Byte), a = Prefix(x), NEW l \in Nat, BodyFits(a, payload, l)
    PROVE  x \in StructsOver(DOMAIN e) /\ Legal(e, x) /\ IsTlv(x) /\ Len(Body(e, x)) = l
<1>1. x.cls = c /\ x.fields[1] = payload /\ Subparams(x) = <<>> BY CarriesIs
<1>2. x.cls \in Unknown /\ c \in Unknown BY <1>1 DEF Unknown
<1>3. x \in StructsOver(DOMAIN e) BY <1>2, CarriesIs
<1>4. payload \in Seq(Byte) BY DEF Carries
<1>5. PICK body : body = a \o payload OBVIOUS
<1>6. Body(e, x) = body BY <1>1, <1>2, <1>5 DEF Body
<1>7. Len(body) = l
  <2>1. Len(body) = Len(a) + Len(payload) BY <1>4, <1>5, ConcatProperties
  <2> QED BY <2>1 DEF BodyFits
<1>8. IsTlv(x) BY <1>1 DEF IsTlv
<1>9. Fits(x, body)
  <2>1. 4 + Len(body) <= 65535 BY <1>7 DEF BodyFits
  <2> QED BY <1>3, <1>8, <2>1, TlvFrame
<1>10. Encodes(e, x) BY <1>2, <1>6, <1>9 DEF Encodes
<1>11. Subparams(x) \in Seq(Sendable(e)) BY <1>1, EmptySeq
<1> QED BY <1>3, <1>6, <1>7, <1>8, <1>10, <1>11 DEF Legal

NoPlainType(t) == t \notin {Classes[d].type : d \in OfKinds({"tlv"})}

LEMMA PlainUnknown ==
    ASSUME NEW t \in 0..1022, NoPlainType(t), NEW c, c = "UnknownParameter", NEW id, id = PutU16(t),
           NEW payload, NEW x, Carries(x, c, id, payload)
    PROVE  Regular(x) /\ Prefix(x) = <<>>
<1>1. U16(id, 0) = t
  <2>1. PICK n \in Nat : n = t /\ n <= 65535 OBVIOUS
  <2> QED BY <2>1, PutU16Type
<1>2. x.cls = c /\ x.id = id /\ x.slots = <<>> /\ x.extra = <<>> /\ Len(x.fields) = 1 BY CarriesIs
<1>3. x.id \in {PutU16(n) : n \in 0..(TYPE_CUSTOM - 1)}
  <2>1. TYPE_CUSTOM - 1 = 1022 BY DEF TYPE_CUSTOM
  <2> QED BY <1>2, <2>1
<1>4. x.cls = "UnknownParameter" BY <1>2
<1>5. U16(x.id, 0) \notin {Classes[d].type : d \in OfKinds({"tlv"})} BY <1>1, <1>2 DEF NoPlainType
<1>6. IsUnknown(x) BY <1>2, <1>3, <1>4, <1>5 DEF IsUnknown
<1>7. Regular(x) BY <1>4, <1>6 DEF Regular, Unknown
<1> QED BY <1>4, <1>7, UnknownParameterIs

NoVendorId(id) == Len(id) = 8 /\ id \notin DOMAIN CUSTOM_PARAMETER_REGISTRY

LEMMA VendorUnknown ==
    ASSUME NEW c, c = "UnknownCustomParameter", NEW id, NoVendorId(id), NEW payload, NEW x, Carries(x, c, id, payload)
    PROVE  Regular(x) /\ Prefix(x) = id
<1>2. x.cls = c /\ x.id = id /\ x.slots = <<>> /\ x.extra = <<>> /\ Len(x.fields) = 1 BY CarriesIs
<1>4. x.cls = "UnknownCustomParameter" BY <1>2
<1>5. Len(x.id) = 8 /\ x.id \notin DOMAIN CUSTOM_PARAMETER_REGISTRY BY <1>2 DEF NoVendorId
<1>6. IsUnknown(x) BY <1>2, <1>4, <1>5 DEF IsUnknown
<1>7. Regular(x) BY <1>4, <1>6 DEF Regular, Unknown
<1> QED BY <1>2, <1>4, <1>7, UnknownCustomParameterIs

\* The pieces of an unknown TLV.
IsPayload(payload, l) == payload \in Seq(Byte) /\ Len(payload) = l

LEMMA PlainPieces ==
    ASSUME NEW w \in Seq(Byte), NEW pos \in Nat, NEW end, TlvFits(w, pos, end), NEW l \in Nat, LengthOf(pos, end, l),
           NEW payload, payload = SubSeq(w, pos + 5, end)
    PROVE  IsPayload(payload, l)
<1>1. PICK q \in Nat : q = pos + 4 OBVIOUS
<1>2. end = pos + 4 + l BY DEF LengthOf
<1>3. q + 1 = pos + 5 /\ q + l = end BY <1>1, <1>2
<1>4. q + l <= Len(w) BY <1>3 DEF TlvFits
<1>5. SubSeq(w, q + 1, q + l) \in Seq(Byte) /\ Len(SubSeq(w, q + 1, q + l)) = l BY <1>4, CutLies
<1> QED BY <1>3, <1>5 DEF IsPayload

VendorParts(id, payload, l) == id \in Seq(Byte) /\ Len(id) = 8 /\ payload \in Seq(Byte) /\ 8 + Len(payload) = l

LEMMA VendorPieces ==
    ASSUME NEW w \in Seq(Byte), NEW pos \in Nat, NEW end, TlvFits(w, pos, end), TlvType(w, pos) = TYPE_CUSTOM,
           NEW l \in Nat, LengthOf(pos, end, l), NEW id, id = SubSeq(w, pos + 5, pos + 12),
           NEW payload, payload = SubSeq(w, pos + 13, end)
    PROVE  VendorParts(id, payload, l)
<1>0. TlvBody(w, pos) = pos + 12 BY DEF TlvBody
<1>1. PICK q \in Nat : q = pos + 4 OBVIOUS
<1>2. pos + 12 <= end /\ end <= Len(w) /\ end = pos + 4 + l BY <1>0 DEF TlvFits, LengthOf
<1>3. PICK k \in Nat : k = 8 OBVIOUS
<1>12. Len(w) \in Nat BY LenProperties
<1>4. q + k <= Len(w) BY <1>1, <1>2, <1>3, <1>12
<1>5. q + 1 = pos + 5 /\ q + k = pos + 12 BY <1>1, <1>3
<1>6. SubSeq(w, q + 1, q + k) \in Seq(Byte) /\ Len(SubSeq(w, q + 1, q + k)) = k BY <1>4, CutLies
<1>7. PICK r \in Nat : r = pos + 12 OBVIOUS
<1>8. PICK m \in Nat : 8 + m = l
  <2>1. l >= 8 BY <1>2
  <2>2. l - 8 \in Nat /\ 8 + (l - 8) = l BY <2>1
  <2> QED BY <2>2
<1>9. r + m = end BY <1>2, <1>7, <1>8
<1>10. r + m <= Len(w) /\ r + 1 = pos + 13 BY <1>2, <1>7, <1>9
<1>11. SubSeq(w, r + 1, r + m) \in Seq(Byte) /\ Len(SubSeq(w, r + 1, r + m)) = m BY <1>10, CutLies
<1>13. id \in Seq(Byte) /\ Len(id) = 8 BY <1>3, <1>5, <1>6
<1>14. payload \in Seq(Byte) /\ Len(payload) = m BY <1>9, <1>10, <1>11
<1> QED BY <1>8, <1>13, <1>14 DEF VendorParts

\* The type of a TLV.
LEMMA TlvNumber ==
    ASSUME NEW w \in Seq(Byte), NEW pos \in Nat, NEW end, TlvFits(w, pos, end)
    PROVE  TlvType(w, pos) \in 0..1023
<1>0. Len(w) \in Nat BY LenProperties
<1>1. pos + 2 <= Len(w) BY <1>0 DEF TlvFits
<1>2. PICK n \in Nat : n = U16(w, pos) BY <1>1, U16Type
<1>3. n % 1024 \in 0..1023 OBVIOUS
<1> QED BY <1>2, <1>3 DEF TlvType

LEMMA UnknownVendorKept ==
    ASSUME NEW e, NEW w \in Seq(Byte), NEW pos \in Nat, NEW end, TlvFits(w, pos, end), NEW l \in Nat, LengthOf(pos, end, l),
           TlvType(w, pos) = TYPE_CUSTOM, TlvClass(w, pos) = NoClass, NEW x, x = UnknownTlv(w, pos, end)
    PROVE  x \in StructsOver(DOMAIN e) /\ Legal(e, x) /\ IsTlv(x) /\ Len(Body(e, x)) = l
<1>1. PICK id : id = SubSeq(w, pos + 5, pos + 12) OBVIOUS
<1>2. PICK payload : payload = SubSeq(w, pos + 13, end) OBVIOUS
<1>3. VendorParts(id, payload, l) BY <1>1, <1>2, VendorPieces
<1>4. VendorClass(id) = NoClass BY <1>1 DEF TlvClass
<1>5. NoVendorId(id) BY <1>3, <1>4, VendorClassIs DEF NoVendorId, VendorParts
<1>6. PICK c : c = "UnknownCustomParameter" OBVIOUS
<1>7. x = Struct(c, id, <<payload>>, <<>>, <<>>) BY <1>1, <1>2, <1>6 DEF UnknownTlv
<1>8. Carries(x, c, id, payload) BY <1>3, <1>7 DEF Carries, VendorParts
<1>9. Regular(x) /\ Prefix(x) = id BY <1>5, <1>6, <1>8, VendorUnknown
<1>10. BodyFits(id, payload, l) /\ id \in Seq(Byte) BY <1>3 DEF BodyFits, VendorParts, LengthOf
<1>11. c \in {"UnknownParameter", "UnknownCustomParameter"} BY <1>6
<1> QED BY <1>8, <1>9, <1>10, <1>11, UnknownLegal

LEMMA UnknownPlainKept ==
    ASSUME NEW e, NEW w \in Seq(Byte), NEW pos \in Nat, NEW end, TlvFits(w, pos, end), NEW l \in Nat, LengthOf(pos, end, l),
           ~(TlvType(w, pos) = TYPE_CUSTOM), TlvClass(w, pos) = NoClass, NEW x, x = UnknownTlv(w, pos, end)
    PROVE  x \in StructsOver(DOMAIN e) /\ Legal(e, x) /\ IsTlv(x) /\ Len(Body(e, x)) = l
<1>1. PICK t : t = TlvType(w, pos) OBVIOUS
<1>2. t \in 0..1022
  <2>3. TlvType(w, pos) \in 0..1023 BY TlvNumber, ZenonT(60)
  <2>1. t \in 0..1023 BY <1>1, <2>3
  <2>2. t # 1023 BY <1>1 DEF TYPE_CUSTOM
  <2> QED BY <2>1, <2>2
<1>3. StandardClass(t) = NoClass BY <1>1 DEF TlvClass
<1>4. NoPlainType(t) BY <1>3, StandardClassIs DEF NoPlainType
<1>5. PICK payload : payload = SubSeq(w, pos + 5, end) OBVIOUS
<1>16. IsPayload(payload, l) BY <1>5, PlainPieces
<1>6. payload \in Seq(Byte) /\ Len(payload) = l BY <1>16 DEF IsPayload
<1>7. PICK c : c = "UnknownParameter" OBVIOUS
<1>8. PICK id : id = PutU16(t) OBVIOUS
<1>9. x = Struct(c, id, <<payload>>, <<>>, <<>>) BY <1>1, <1>5, <1>7, <1>8 DEF UnknownTlv
<1>10. id \in Seq(Byte)
  <2>1. PICK n \in Nat : n = t /\ n <= 65535 BY <1>2
  <2> QED BY <1>8, <2>1, PutU16Type
<1>11. Carries(x, c, id, payload) BY <1>6, <1>9, <1>10 DEF Carries
<1>12. Regular(x) /\ Prefix(x) = <<>> BY <1>2, <1>4, <1>7, <1>8, <1>11, PlainUnknown, ZenonT(60)
<1>13. PICK a \in Seq(Byte) : a = Prefix(x) /\ Len(a) = 0
  <2>1. PICK a \in Seq(Byte) : a = <<>> BY EmptySeq
  <2> QED BY <1>12, <2>1
<1>14. BodyFits(a, payload, l) BY <1>6, <1>13 DEF BodyFits, LengthOf
<1>15. c \in {"UnknownParameter", "UnknownCustomParameter"} BY <1>7
<1> QED BY <1>11, <1>12, <1>13, <1>14, <1>15, UnknownLegal

LEMMA UnknownTlvHead ==
    ASSUME NEW e, NEW w \in Seq(Byte), NEW pos \in Nat, NEW end, TlvFits(w, pos, end), end = TlvEnd(w, pos),
           TlvClass(w, pos) = NoClass, NEW x, x = UnknownTlv(w, pos, end), NEW r, r = Ok(end, x)
    PROVE  HeadOf(e, pos, r, x)
<1>1. PICK l \in Nat : LengthOf(pos, end, l) BY LengthIs
<1>2. r.pos = end /\ r = Ok(r.pos, x) BY OkIs
<1>3. x \in StructsOver(DOMAIN e) /\ Legal(e, x) /\ IsTlv(x) /\ Len(Body(e, x)) = l
  BY <1>1, UnknownVendorKept, UnknownPlainKept
<1>4. PICK body : body = Body(e, x) OBVIOUS
<1>6. Len(body) = l BY <1>3, <1>4
<1>7. end = pos + 4 + l BY <1>1 DEF LengthOf
<1>5. r.pos = pos + 4 + l BY <1>2, <1>7
<1> QED BY <1>2, <1>3, <1>4, <1>5, <1>6, TlvHead

\* Where the fields of a known TLV begin: behind its prefix.
PrefixEnds(x, pos, start) == start = pos + 4 + Len(Prefix(x)) /\ Len(Prefix(x)) \in Nat

LEMMA FieldsBegin ==
    ASSUME NEW w, NEW pos \in Nat, NEW c, c = TlvClass(w, pos), c # NoClass, NEW x, x.cls = c
    PROVE  PrefixEnds(x, pos, TlvBody(w, pos))
<1>1. /\ c \in DOMAIN Classes /\ Classes[c].kind \in {"tlv", "custom"}
      /\ TlvType(w, pos) = TYPE_CUSTOM <=> Classes[c].kind = "custom"
  BY TlvClassIs
<1>2. CASE Classes[c].kind = "custom"
  <2>1. TlvBody(w, pos) = pos + 12 BY <1>1, <1>2 DEF TlvBody
  <2>2. Len(Prefix(x)) = 8 BY <1>1, <1>2, KnownPrefix
  <2>3. pos + 12 = pos + 4 + 8 OBVIOUS
  <2> QED BY <2>1, <2>2, <2>3 DEF PrefixEnds
<1>3. CASE Classes[c].kind = "tlv"
  <2>1. TlvType(w, pos) # TYPE_CUSTOM BY <1>1, <1>3
  <2>2. TlvBody(w, pos) = pos + 4 BY <2>1 DEF TlvBody
  <2>3. Prefix(x) = <<>> BY <1>1, <1>3, KnownPrefix
  <2>4. Len(Prefix(x)) = 0 BY <2>3
  <2>5. pos + 4 = pos + 4 + 0 OBVIOUS
  <2> QED BY <2>2, <2>4, <2>5 DEF PrefixEnds
<1> QED BY <1>1, <1>2, <1>3

LEMMA KnownTlvHead ==
    ASSUME NEW e, NEW w \in Seq(Byte), NEW pos \in Nat, NEW end, TlvFits(w, pos, end), end = TlvEnd(w, pos),
           NEW c, c = TlvClass(w, pos), c # NoClass, NEW start, start = TlvBody(w, pos), NEW id, id = <<>>,
           NEW r, r = DecodeStruct(DecodeParams(w), c, id, w, start, end), r.ok, r.pos = end, RowsFit(e, w, pos + 1)
    PROVE  \E x : HeadOf(e, pos, r, x)
<1>0. Len(w) \in Nat BY LenProperties
<1>1. c \in DOMAIN Classes /\ Classes[c].kind \in {"tlv", "custom"} /\ c \in OfKinds({"tlv", "custom"}) BY TlvClassIs
<1>2. /\ start \in Nat /\ pos + 4 <= start /\ start <= end /\ start <= Len(w)
      /\ end \in Nat /\ end <= Len(w)
  BY <1>0 DEF TlvFits
<1>3. RowsFit(e, w, start)
  <2>1. \A p \in start..Len(w) : p \in (pos + 1)..Len(w) BY <1>0, <1>2
  <2> QED BY <2>1 DEF RowsFit
<1>4. end \in 0..Len(w) BY <1>0, <1>2
<1>5. PICK x : Made(e, c, id, start, r, x) BY <1>1, <1>2, <1>3, <1>4, StructMade
<1>6. x.cls = c /\ r = Ok(r.pos, x) BY <1>5 DEF Made
<1>7. PICK n \in Nat : r.pos = start + n
  <2>1. end - start \in Nat /\ end = start + (end - start) BY <1>2
  <2> QED BY <2>1
<1>8. BodyLen(e, x, n) BY <1>1, <1>2, <1>5, <1>7, MadeBody
<1>9. PrefixEnds(x, pos, start) BY <1>6, FieldsBegin
<1>10. PICK m \in Nat : m = Len(Prefix(x)) /\ start = pos + 4 + m BY <1>9 DEF PrefixEnds
<1>11. PICK l \in Nat : LengthOf(pos, end, l) BY LengthIs
<1>12. end = pos + 4 + l /\ 4 + l <= 65535 BY <1>11 DEF LengthOf
<1>13. l = m + n
  <2>1. pos + 4 + l = pos + 4 + m + n BY <1>7, <1>10, <1>12
  <2> QED BY <2>1
<1>14. PICK body : body = Body(e, x) OBVIOUS
<1>15. Len(body) = l BY <1>8, <1>10, <1>13, <1>14 DEF BodyLen
<1>16. ~IsMessage(c) BY <1>1, ClassIs
<1>17. Fits(x, Body(e, x))
  <2>1. 4 + Len(body) <= 65535 BY <1>12, <1>15
  <2> QED BY <1>6, <1>14, <1>16, <2>1 DEF Fits, MAX_TLV
<1>18. IdFits(c, id)
  <2>1. id \in Seq(Byte) BY EmptySeq
  <2> QED BY <1>16, <2>1 DEF IdFits
<1>19. TvBare(c, x) BY <1>1 DEF TvBare
<1>20. x \in StructsOver(DOMAIN e) /\ Legal(e, x) BY <1>1, <1>2, <1>5, <1>17, <1>18, <1>19, MadeLegal
<1>21. IsTlv(x) BY <1>1, <1>6 DEF IsTlv
<1>22. r.pos = pos + 4 + l BY <1>12
<1>23. HeadOf(e, pos, r, x) BY <1>6, <1>14, <1>15, <1>20, <1>21, <1>22, TlvHead
<1> QED BY <1>23

\* Whatever parameter is decoded can be sent, if those behind it can.
LEMMA HeadFits ==
    ASSUME NEW e, NEW w \in Seq(Byte), NEW pos \in Nat, NEW r, r = DecodeParam(DecodeParams(w), w, pos), r.ok,
           RowsFit(e, w, pos + 1)
    PROVE  pos < Len(w) /\ r.pos \in (pos + 1)..Len(w) /\ \E x : HeadOf(e, pos, r, x)
<1>1. PICK rest : rest = DecodeParams(w) OBVIOUS
<1>2. r = DecodeParam(rest, w, pos) BY <1>1
<1>3. /\ r.pos \in (pos + 1)..Len(w) /\ pos < Len(w)
      /\ w[pos + 1] >= 128 => r = DecodeTv(w, pos)
      /\ ~(w[pos + 1] >= 128) => r = DecodeTlv(rest, w, pos)
  BY <1>2, HeadIs
<1>4. CASE w[pos + 1] >= 128 BY <1>3, <1>4, TvHead
<1>5. CASE ~(w[pos + 1] >= 128)
  <2>1. r = DecodeTlv(rest, w, pos) BY <1>3, <1>5
  <2>2. PICK end : end = TlvEnd(w, pos) OBVIOUS
  <2>3. PICK c : c = TlvClass(w, pos) OBVIOUS
  <2>4. /\ r.pos = end /\ TlvFits(w, pos, end)
        /\ c = NoClass => r = Ok(end, UnknownTlv(w, pos, end))
        /\ c # NoClass => r = DecodeStruct(rest, c, <<>>, w, TlvBody(w, pos), end)
    BY <2>1, <2>2, <2>3, TlvIs
  <2>5. CASE c = NoClass
    <3>1. PICK x : x = UnknownTlv(w, pos, end) OBVIOUS
    <3>2. r = Ok(end, x) BY <2>4, <2>5, <3>1
    <3>3. HeadOf(e, pos, r, x) BY <2>2, <2>3, <2>4, <2>5, <3>1, <3>2, UnknownTlvHead
    <3> QED BY <1>3, <3>3
  <2>6. CASE c # NoClass
    <3>1. PICK start : start = TlvBody(w, pos) OBVIOUS
    <3>2. PICK id : id = <<>> OBVIOUS
    <3>3. r = DecodeStruct(DecodeParams(w), c, id, w, start, end) BY <1>1, <2>4, <2>6, <3>1, <3>2
    <3>4. \E x : HeadOf(e, pos, r, x) BY <2>2, <2>3, <2>4, <2>6, <3>1, <3>2, <3>3, KnownTlvHead
    <3> QED BY <1>3, <3>4
  <2> QED BY <2>5, <2>6
<1> QED BY <1>3, <1>4, <1>5

\* What can be sent can be sent deeper, in the same bytes.
LEMMA SendableGrows ==
    ASSUME NEW e, NEW f, Extends(e, f)
    PROVE  Sendable(e) \subseteq Sendable(f) /\ \A y \in Sendable(e) : f[y] = e[y]
<1>1. ASSUME NEW y \in Sendable(e) PROVE y \in Sendable(f) /\ f[y] = e[y]
  <2>1. y \in DOMAIN e /\ e[y].ok /\ ~IsMessage(y.cls) /\ ReadsBack(e, y) BY <1>1 DEF Sendable
  <2>2. y \in DOMAIN f /\ f[y] = e[y] BY <2>1 DEF Extends
  <2>3. ReadsBack(f, y) BY <2>1, <2>2 DEF ReadsBack
  <2> QED BY <2>1, <2>2, <2>3 DEF Sendable
<1> QED BY <1>1

LEMMA SizeSame ==
    ASSUME NEW e, NEW f, Extends(e, f), NEW ps \in Seq(Sendable(e))
    PROVE  Size(f, ps) = Size(e, ps)
<1>1. \A k \in DOMAIN ps : ps[k] \in Sendable(e) BY ElementOfSeq, LenProperties
<1>2. \A k \in DOMAIN ps : f[ps[k]] = e[ps[k]] BY <1>1, SendableGrows
<1>3. Wires(f, ps) = Wires(e, ps) BY <1>2 DEF Wires
<1> QED BY <1>3 DEF Size

SizeAdds(e, all, x, qs) == Size(e, all) = Len(e[x].wire) + Size(e, qs)

LEMMA SizeFirst ==
    ASSUME NEW V, NEW e, HasWires(e, V), NEW x \in V, NEW qs \in Seq(V), NEW all, all = <<x>> \o qs
    PROVE  all \in Seq(V) /\ SizeAdds(e, all, x, qs)
<1>1. PICK none \in Seq(V) : none = <<>> BY EmptySeq
<1>2. PICK one \in Seq(V) : one = <<x>> BY OneLong
<1>3. Append(none, x) = one BY <1>1, <1>2
<1>4. Size(e, one) = Size(e, none) + Len(e[x].wire) /\ Len(e[x].wire) \in Nat BY <1>3, SizeAppend
<1>5. Size(e, none) = 0 BY <1>1, SizeEmpty
<1>6. Size(e, one) = Len(e[x].wire) BY <1>4, <1>5
<1>7. Size(e, one \o qs) = Size(e, one) + Size(e, qs) BY SizeConcat
<1>8. one \o qs \in Seq(V) BY ConcatProperties
<1> QED BY <1>2, <1>6, <1>7, <1>8 DEF SizeAdds

\* Whatever row is decoded can be sent, in as many bytes, if those behind it can.
LEMMA EmptyRow ==
    ASSUME NEW e, NEW pos \in Nat
    PROVE  RowFits(e, pos, Parsed(pos, <<>>))
<1>1. PICK none : none = <<>> OBVIOUS
<1>2. Size(e, none) = 0 BY <1>1, SizeEmpty
<1>3. none \in Seq(Sendable(e)) BY <1>1, EmptySeq
<1>4. PICK r : r = Parsed(pos, none) OBVIOUS
<1>5. r.pos = pos /\ r.val = none BY <1>4 DEF Parsed
<1>6. pos = pos + 0 OBVIOUS
<1>7. RowFits(e, pos, r) BY <1>2, <1>3, <1>5, <1>6 DEF RowFits
<1> QED BY <1>1, <1>4, <1>7

LEMMA BeforeIs ==
    ASSUME NEW head, NEW tail, NEW r, r = Before(head, tail), r.ok
    PROVE  tail.ok /\ r.pos = tail.pos /\ r.val = head.val \o tail.val
<1>1. CASE tail.ok BY <1>1 DEF Before, Parsed
<1>2. CASE ~tail.ok
  <2>1. r = Failed BY <1>2 DEF Before
  <2> QED BY <2>1 DEF Failed
<1> QED BY <1>1, <1>2

LEMMA NextIs ==
    ASSUME NEW rest, NEW w, NEW pos, NEW end, ~(pos >= end), NEW r, r = DecodeNext(rest, w, pos, end), r.ok,
           NEW head, head = DecodeParam(rest, w, pos)
    PROVE  head.ok /\ r = Before(head, rest[head.pos][end])
<1>1. CASE head.ok BY <1>1 DEF DecodeNext
<1>2. CASE ~head.ok
  <2>1. r = Failed BY <1>2 DEF DecodeNext
  <2> QED BY <2>1 DEF Failed
<1> QED BY <1>1, <1>2

LEMMA OneMore ==
    ASSUME NEW e, NEW f, f = Deeper(e), Extends(e, f), NEW pos \in Nat, NEW head, NEW x, HeadOf(e, pos, head, x),
           NEW tail, RowFits(e, head.pos, tail), NEW r, r = Before(head, tail)
    PROVE  RowFits(f, pos, r)
<1> SUFFICES ASSUME r.ok PROVE RowFits(f, pos, r) BY DEF RowFits
<1>1. tail.ok /\ r.pos = tail.pos /\ r.val = head.val \o tail.val BY BeforeIs
<1>2. tail.val \in Seq(Sendable(e)) /\ tail.pos = head.pos + Size(e, tail.val) BY <1>1 DEF RowFits
<1>3. /\ x \in StructsOver(DOMAIN e) /\ Legal(e, x) /\ ~IsMessage(x.cls)
      /\ head = Ok(head.pos, x) /\ head.pos = pos + Len(Frame(x, Body(e, x)))
  BY DEF HeadOf
<1>4. head.val = <<x>>
  <2>1. PICK p : p = head.pos OBVIOUS
  <2>2. head = Ok(p, x) BY <1>3, <2>1
  <2> QED BY <2>2, OkIs
<1>5. x \in Sendable(f) BY <1>3, StepSendable
<1>6. f[x].wire = Frame(x, Body(e, x)) BY <1>3 DEF Deeper
<1>7. PICK V : V = Sendable(f) OBVIOUS
<1>8. HasWires(f, V) /\ x \in V BY <1>5, <1>7, SendableIs
<1>9. PICK qs \in Seq(Sendable(e)) : qs = tail.val BY <1>2
<1>10. qs \in Seq(V)
  <2>1. Sendable(e) \subseteq V BY <1>7, SendableGrows
  <2> QED BY <2>1, SeqGrows
<1>11. Size(f, qs) = Size(e, qs) BY SizeSame
<1>12. r.val = <<x>> \o qs BY <1>1, <1>4, <1>9
<1>13. PICK all : all = r.val OBVIOUS
<1>18. all = <<x>> \o qs BY <1>12, <1>13
<1>14. all \in Seq(V) /\ Size(f, all) = Len(f[x].wire) + Size(f, qs)
  <2>1. all \in Seq(V) BY <1>8, <1>10, <1>18, SizeFirst
  <2>2. SizeAdds(f, all, x, qs) BY <1>8, <1>10, <1>18, SizeFirst
  <2> QED BY <2>1, <2>2 DEF SizeAdds
<1>15. Len(f[x].wire) \in Nat BY <1>5, SendableIs
<1>16. Size(f, qs) \in Nat BY <1>8, <1>10, WiresType
<1>17. r.pos = pos + Size(f, all)
  <2>1. PICK l \in Nat : l = Len(f[x].wire) BY <1>15
  <2>2. PICK n \in Nat : n = Size(f, qs) BY <1>16
  <2>3. head.pos = pos + l BY <1>3, <1>6, <2>1
  <2>4. r.pos = pos + l + n BY <1>1, <1>2, <1>9, <1>11, <2>2, <2>3
  <2>5. Size(f, all) = l + n BY <1>14, <2>1, <2>2
  <2>6. pos + l + n = pos + (l + n) OBVIOUS
  <2> QED BY <2>4, <2>5, <2>6
<1> QED BY <1>7, <1>13, <1>14, <1>17 DEF RowFits

LEMMA RowStep ==
    ASSUME NEW e, NEW f, f = Deeper(e), Extends(e, f), NEW w \in Seq(Byte), NEW pos \in 0..Len(w), NEW end \in 0..Len(w),
           RowsFit(e, w, pos + 1), NEW r, r = DecodeParams(w)[pos][end]
    PROVE  RowFits(f, pos, r)
<1>0. Len(w) \in Nat /\ pos \in Nat BY LenProperties
<1>1. PICK g : g = DecodeParams(w) OBVIOUS
<1>2. r = DecodeNext(g, w, pos, end) BY <1>1, DecodedIs
<1>3. CASE pos >= end
  <2>1. r = Parsed(pos, <<>>) BY <1>2, <1>3 DEF DecodeNext
  <2> QED BY <1>0, <2>1, EmptyRow
<1>4. CASE ~(pos >= end)
  <2> SUFFICES ASSUME r.ok PROVE RowFits(f, pos, r) BY DEF RowFits
  <2>1. PICK head : head = DecodeParam(g, w, pos) OBVIOUS
  <2>2. head.ok /\ r = Before(head, g[head.pos][end]) BY <1>2, <1>4, <2>1, NextIs
  <2>3. head = DecodeParam(DecodeParams(w), w, pos) BY <1>1, <2>1
  <2>4. PICK x : HeadOf(e, pos, head, x) BY <1>0, <2>2, <2>3, HeadFits
  <2>5. head.pos \in (pos + 1)..Len(w) BY <1>0, <2>2, <2>3, HeadFits
  <2>6. PICK tail : tail = g[head.pos][end] OBVIOUS
  <2>7. RowFits(e, head.pos, tail) BY <1>1, <2>5, <2>6 DEF RowsFit
  <2>8. r = Before(head, tail) BY <2>2, <2>6
  <2> QED BY <1>0, <2>4, <2>7, <2>8, OneMore
<1> QED BY <1>3, <1>4

\* With as much depth as there are bytes behind lo, all rows there can be sent.
RowsReach(w, n) == \A lo \in Nat : Len(w) <= lo + n => RowsFit(Below(n), w, lo)

LEMMA AllRowsFit ==
    ASSUME NEW w \in Seq(Byte)
    PROVE  \A n \in Nat : RowsReach(w, n)
<1>0. Len(w) \in Nat BY LenProperties
<1> DEFINE N == {n \in Nat : RowsReach(w, n)}
<1>1. 0 \in N
  <2>1. ASSUME NEW lo \in Nat, Len(w) <= lo + 0, NEW pos \in lo..Len(w), NEW end \in 0..Len(w)
        PROVE  RowFits(Below(0), pos, DecodeParams(w)[pos][end])
    <3>1. pos \in Nat /\ pos >= end /\ pos \in 0..Len(w) BY <1>0, <2>1
    <3>2. PICK g : g = DecodeParams(w) OBVIOUS
    <3>3. g[pos][end] = DecodeNext(g, w, pos, end) BY <3>1, <3>2, DecodedIs
    <3>4. g[pos][end] = Parsed(pos, <<>>) BY <3>1, <3>3 DEF DecodeNext
    <3> QED BY <3>1, <3>2, <3>4, EmptyRow
  <2>2. RowsReach(w, 0) BY <2>1 DEF RowsReach, RowsFit
  <2> QED BY <2>2
<1>2. ASSUME NEW n \in Nat, n \in N PROVE n + 1 \in N
  <2>1. PICK e : e = Below(n) OBVIOUS
  <2>2. PICK m \in Nat : m = n + 1 OBVIOUS
  <2>3. PICK f : f = Below(m) OBVIOUS
  <2>4. f = Deeper(e) BY <2>1, <2>2, <2>3, BelowIs
  <2>5. Extends(e, f) BY <2>1, <2>2, <2>3, BelowGrows
  <2>6. ASSUME NEW lo \in Nat, Len(w) <= lo + m, NEW pos \in lo..Len(w), NEW end \in 0..Len(w)
        PROVE  RowFits(f, pos, DecodeParams(w)[pos][end])
    <3>1. pos \in 0..Len(w) /\ pos + 1 \in Nat BY <1>0
    <3>2. Len(w) <= (pos + 1) + n BY <1>0, <2>2, <2>6
    <3>3. RowsFit(e, w, pos + 1) BY <1>2, <2>1, <3>1, <3>2 DEF RowsReach
    <3>4. PICK r : r = DecodeParams(w)[pos][end] OBVIOUS
    <3>5. RowFits(f, pos, r) BY <2>4, <2>5, <3>1, <3>3, <3>4, RowStep
    <3> QED BY <3>4, <3>5
  <2>7. RowsReach(w, m) BY <2>3, <2>6 DEF RowsReach, RowsFit
  <2> QED BY <2>2, <2>7
<1>3. Nat \subseteq N
  <2> HIDE DEF N
  <2> QED BY <1>1, <1>2, InductNat
<1> QED BY <1>3

(* Messages that were decoded. *)

\* A message that was decoded can be sent, in as many bytes as arrived.
MessageOf(e, w, r, x) ==
    /\ x \in StructsOver(DOMAIN e) /\ Legal(e, x) /\ IsMessage(x.cls)
    /\ r = Ok(Len(w), x) /\ Len(Frame(x, Body(e, x))) = Len(w)

\* What precedes the length, and the length.
LengthFits(w, l) == Len(w) = 10 + l /\ TopByte(Len(w)) <= 255

LEMMA MessageWhole ==
    ASSUME NEW e, NEW x \in StructsOver(DOMAIN e), Legal(e, x), IsMessage(x.cls), NEW body, body = Body(e, x),
           NEW w \in Seq(Byte), NEW l \in Nat, LengthFits(w, l), Len(body) = l, NEW r, r = Ok(Len(w), x)
    PROVE  MessageOf(e, w, r, x)
<1>1. Len(Frame(x, body)) = 10 + Len(body) BY LegalFrame
<1>2. Len(Frame(x, body)) = Len(w) BY <1>1 DEF LengthFits
<1> QED BY <1>2 DEF MessageOf

LEMMA MessageFits ==
    ASSUME NEW x, IsMessage(x.cls), NEW body, NEW w, NEW l, LengthFits(w, l), Len(body) = l
    PROVE  Fits(x, body)
<1>1. TopByte(10 + Len(body)) <= 255 BY DEF LengthFits
<1> QED BY <1>1 DEF Fits

\* A known message.
MessageBegin(c) == IF Classes[c].kind = "custommsg" THEN 15 ELSE 10

LEMMA BeginIs ==
    ASSUME NEW c \in DOMAIN Classes, IsMessage(c), NEW x, x.cls = c
    PROVE  MessageBegin(c) \in Nat /\ \E m \in Nat : m = Len(Prefix(x)) /\ MessageBegin(c) = 10 + m
<1>1. Classes[c].kind \in {"msg", "custommsg"} BY ClassIs
<1>2. CASE Classes[c].kind = "custommsg"
  <2>1. Len(Prefix(x)) = 5 BY <1>2, KnownPrefix
  <2>2. MessageBegin(c) = 15 BY <1>2 DEF MessageBegin
  <2>3. 15 = 10 + 5 OBVIOUS
  <2> QED BY <2>1, <2>2, <2>3
<1>3. CASE Classes[c].kind = "msg"
  <2>1. Prefix(x) = <<>> BY <1>3, KnownPrefix
  <2>2. Len(Prefix(x)) = 0 BY <2>1
  <2>3. MessageBegin(c) = 10 BY <1>3 DEF MessageBegin
  <2>4. 10 = 10 + 0 OBVIOUS
  <2> QED BY <2>2, <2>3, <2>4
<1> QED BY <1>1, <1>2, <1>3

LEMMA KnownMessageOf ==
    ASSUME NEW e, NEW w \in Seq(Byte), NEW c \in DOMAIN Classes, IsMessage(c), NEW id, IsHeader(id),
           NEW start, start = MessageBegin(c), start <= Len(w), RowsFit(e, w, start), NEW end, end = Len(w),
           NEW r, r = DecodeStruct(DecodeParams(w), c, id, w, start, end), r.ok, r.pos = end,
           TopByte(Len(w)) <= 255
    PROVE  \E x : MessageOf(e, w, r, x)
<1>0. Len(w) \in Nat BY LenProperties
<1>1. end \in 0..Len(w) /\ end \in Nat BY <1>0
<1>2. start \in Nat
  <2>1. PICK y : y = [cls |-> c] OBVIOUS
  <2>2. y.cls = c BY <2>1
  <2> QED BY <2>2, BeginIs
<1>3. PICK x : Made(e, c, id, start, r, x) BY <1>1, <1>2, StructMade
<1>4. x.cls = c /\ r = Ok(r.pos, x) BY <1>3 DEF Made
<1>5. PICK n \in Nat : r.pos = start + n
  <2>1. end - start \in Nat /\ end = start + (end - start) BY <1>0, <1>2
  <2> QED BY <2>1
<1>6. BodyLen(e, x, n) BY <1>2, <1>3, <1>5, MadeBody
<1>7. PICK m \in Nat : m = Len(Prefix(x)) /\ start = 10 + m BY <1>4, BeginIs
<1>8. PICK body : body = Body(e, x) OBVIOUS
<1>9. PICK l \in Nat : l = m + n OBVIOUS
<1>10. Len(body) = l BY <1>6, <1>7, <1>8, <1>9 DEF BodyLen
<1>11. LengthFits(w, l)
  <2>1. end = 10 + m + n BY <1>5, <1>7
  <2>2. end = 10 + l BY <1>9, <2>1
  <2> QED BY <2>2 DEF LengthFits
<1>12. IsMessage(x.cls) BY <1>4
<1>13. Fits(x, Body(e, x)) BY <1>8, <1>10, <1>11, <1>12, MessageFits
<1>14. IdFits(c, id) BY DEF IdFits, IsHeader
<1>15. TvBare(c, x)
  <2>1. Classes[c].kind # "tv" BY ClassIs
  <2> QED BY <2>1 DEF TvBare
<1>16. x \in StructsOver(DOMAIN e) /\ Legal(e, x) BY <1>2, <1>3, <1>13, <1>14, <1>15, MadeLegal
<1>17. r = Ok(Len(w), x) BY <1>4
<1>18. MessageOf(e, w, r, x) BY <1>8, <1>10, <1>11, <1>12, <1>16, <1>17, MessageWhole
<1> QED BY <1>18

\* An unknown message.
LEMMA UnknownMessageOf ==
    ASSUME NEW e, NEW w \in Seq(Byte), NEW c \in {"UnknownMessage", "UnknownCustomMessage"}, NEW id, NEW payload,
           NEW x, Carries(x, c, id, payload), Regular(x), NEW a \in Seq(Byte), a = Prefix(x), NEW l \in Nat,
           LengthFits(w, l), Len(a) + Len(payload) = l, NEW r, r = Ok(Len(w), x)
    PROVE  MessageOf(e, w, r, x)
<1>1. x.cls = c /\ x.fields[1] = payload /\ Subparams(x) = <<>> BY CarriesIs
<1>2. x.cls \in Unknown /\ c \in Unknown /\ x.cls \in {"UnknownMessage", "UnknownCustomMessage"} BY <1>1 DEF Unknown
<1>3. x \in StructsOver(DOMAIN e) BY <1>2, CarriesIs
<1>4. payload \in Seq(Byte) BY DEF Carries
<1>5. PICK body : body = a \o payload OBVIOUS
<1>6. Body(e, x) = body BY <1>1, <1>2, <1>5 DEF Body
<1>7. Len(body) = l BY <1>4, <1>5, ConcatProperties
<1>8. IsMessage(x.cls) BY <1>2 DEF IsMessage
<1>9. Fits(x, body) BY <1>7, <1>8, MessageFits
<1>10. Encodes(e, x) BY <1>2, <1>6, <1>9 DEF Encodes
<1>11. Subparams(x) \in Seq(Sendable(e)) BY <1>1, EmptySeq
<1>12. Legal(e, x) BY <1>10, <1>11 DEF Legal
<1> QED BY <1>3, <1>6, <1>7, <1>8, <1>12, MessageWhole

\* An identity, full apart.
Joined(s, id, u, to) == s \in Seq(Byte) /\ Len(s) = to /\ SubSeq(s, 1, 5) = id /\ SubSeq(s, 6, to) = u /\ Lies(s, 5, u)

LEMMA JoinedIs ==
    ASSUME NEW id \in Seq(Byte), Len(id) = 5, NEW u \in Seq(Byte), NEW s, s = id \o u, NEW to, to = 5 + Len(u)
    PROVE  Joined(s, id, u, to)
<1>1. s \in Seq(Byte) /\ Len(s) = Len(id) + Len(u) BY ConcatProperties
<1>2. Lies(s, 0, id \o u) BY <1>1, WholeLies
<1>3. PICK z \in Nat : z = 0 OBVIOUS
<1>4. Lies(s, z, id) /\ Lies(s, z + Len(id), u) BY <1>1, <1>2, <1>3, LiesConcat
<1>5. PICK five \in Nat : five = 5 OBVIOUS
<1>6. Lies(s, five, u) BY <1>3, <1>4, <1>5
<1>7. PICK one : one = 1 OBVIOUS
<1>8. CutAt(s, z, id, one, five) BY <1>3, <1>4, <1>5, <1>7 DEF CutAt
<1>9. SubSeq(s, one, five) = id BY <1>1, <1>8, CutBetween
<1>10. PICK six : six = 6 OBVIOUS
<1>11. CutAt(s, five, u, six, to) BY <1>5, <1>6, <1>10 DEF CutAt
<1>12. SubSeq(s, six, to) = u BY <1>1, <1>11, CutBetween
<1> QED BY <1>1, <1>5, <1>6, <1>7, <1>9, <1>10, <1>12 DEF Joined

\* The type at the end of an identity.
LEMMA JoinedType ==
    ASSUME NEW n \in Nat, n <= 65535, NEW id, NEW head, NEW u, u = PutU16(n), NEW to, Joined(id, head, u, to)
    PROVE  U16(id, 5) = n
<1>1. id \in Seq(Byte) /\ Lies(id, 5, u) BY DEF Joined
<1>2. PICK q \in Nat : q = 5 OBVIOUS
<1>3. Lies(id, q, PutU16(n)) BY <1>1, <1>2
<1>4. U16(id, q) = n BY <1>1, <1>3, U16Lies
<1> QED BY <1>2, <1>4

Bare(x, c, id) == x.cls = c /\ x.id = id /\ x.slots = <<>> /\ x.extra = <<>> /\ Len(x.fields) = 1

LEMMA BareIs ==
    ASSUME NEW x, NEW c, NEW id, NEW payload, Carries(x, c, id, payload)
    PROVE  Bare(x, c, id)
  BY CarriesIs DEF Bare

IsMessageType(t) == t \in 0..1022 /\ t \notin DOMAIN MESSAGE_REGISTRY

LEMMA PlainMessage ==
    ASSUME NEW t, IsMessageType(t), NEW c, c = "UnknownMessage", NEW head, IsHeader(head),
           NEW u, u = PutU16(t), NEW id, Joined(id, head, u, 7), NEW payload, NEW x, Carries(x, c, id, payload)
    PROVE  Regular(x) /\ Prefix(x) = <<>>
<1>1. PICK n \in Nat : n = t /\ n <= 1022 BY DEF IsMessageType
<1>2. n <= 65535 BY <1>1
<1>3. u = PutU16(n) BY <1>1
<1>4. U16(id, 5) = n BY <1>2, <1>3, JoinedType
<1>5. id \in Seq(Byte) /\ Len(id) = 7 /\ SubSeq(id, 1, 5) = head /\ SubSeq(id, 6, 7) = u BY DEF Joined
<1>6. Bare(x, c, id) BY BareIs
<1>7. x.cls = c /\ x.id = id /\ x.slots = <<>> /\ x.extra = <<>> /\ Len(x.fields) = 1 BY <1>6 DEF Bare
<1>8. SubSeq(x.id, 6, 7) \in {PutU16(k) : k \in 0..(TYPE_CUSTOM - 1)}
  <2>1. TYPE_CUSTOM - 1 = 1022 BY DEF TYPE_CUSTOM
  <2>2. SubSeq(x.id, 6, 7) = PutU16(n) BY <1>3, <1>5, <1>7
  <2>3. n \in 0..1022 BY <1>1
  <2> QED BY <2>1, <2>2, <2>3
<1>9. U16(x.id, 5) \notin DOMAIN MESSAGE_REGISTRY BY <1>1, <1>4, <1>7 DEF IsMessageType
<1>10. Len(x.id) = 7 /\ IsHeader(SubSeq(x.id, 1, 5)) BY <1>5, <1>7
<1>11. x.cls = "UnknownMessage" BY <1>7
<1>12. IsUnknown(x) BY <1>7, <1>8, <1>9, <1>10, <1>11 DEF IsUnknown
<1>13. Regular(x) BY <1>11, <1>12 DEF Regular, Unknown
<1>14. x.id \in Seq(Byte) BY <1>5, <1>7
<1>15. Prefix(x) = <<>> BY <1>11, <1>13, <1>14, UnknownMessageIs
<1> QED BY <1>13, <1>15

NoVendorKey(key) == key \in Seq(Byte) /\ Len(key) = 5 /\ key \notin DOMAIN CUSTOM_MESSAGE_REGISTRY

LEMMA VendorMessage ==
    ASSUME NEW key, NoVendorKey(key), NEW c, c = "UnknownCustomMessage", NEW head, IsHeader(head),
           NEW id, Joined(id, head, key, 10), NEW payload, NEW x, Carries(x, c, id, payload)
    PROVE  Regular(x) /\ Prefix(x) = key
<1>5. id \in Seq(Byte) /\ Len(id) = 10 /\ SubSeq(id, 1, 5) = head /\ SubSeq(id, 6, 10) = key BY DEF Joined
<1>6. Bare(x, c, id) BY BareIs
<1>7. x.cls = c /\ x.id = id /\ x.slots = <<>> /\ x.extra = <<>> /\ Len(x.fields) = 1 BY <1>6 DEF Bare
<1>9. SubSeq(x.id, 6, 10) \notin DOMAIN CUSTOM_MESSAGE_REGISTRY BY <1>5, <1>7 DEF NoVendorKey
<1>10. Len(x.id) = 10 /\ IsHeader(SubSeq(x.id, 1, 5)) BY <1>5, <1>7
<1>11. x.cls = "UnknownCustomMessage" BY <1>7
<1>12. IsUnknown(x) BY <1>7, <1>9, <1>10, <1>11 DEF IsUnknown
<1>13. Regular(x) BY <1>11, <1>12 DEF Regular, Unknown
<1>14. x.id \in Seq(Byte) BY <1>5, <1>7
<1>15. Prefix(x) = SubSeq(x.id, 6, 10) BY <1>11, <1>13, <1>14, UnknownCustomMessageIs
<1> QED BY <1>5, <1>7, <1>13, <1>15

\* What the header of a message says that was decoded.
LengthSmall(w) == Len(w) >= 10 /\ TopByte(Len(w)) <= 255

LEMMA LengthBytes ==
    ASSUME NEW w \in Seq(Byte), Len(w) >= 10, SubSeq(w, 3, 6) = PutU32(Len(w))
    PROVE  LengthSmall(w)
<1>0. Len(w) \in Nat BY LenProperties
<1>1. PICK q \in Nat : q = 2 OBVIOUS
<1>2. PICK k \in Nat : k = 4 OBVIOUS
<1>3. q + k <= Len(w) BY <1>0, <1>1, <1>2
<1>4. PICK s : s = SubSeq(w, q + 1, q + k) OBVIOUS
<1>5. \A i \in 1..k : s[i] = w[q + i] BY <1>3, <1>4, CutLies
<1>6. s[1] = w[3]
  <2>1. 1 \in 1..k /\ q + 1 = 3 BY <1>1, <1>2
  <2> QED BY <1>5, <2>1
<1>7. s = PutU32(Len(w)) BY <1>1, <1>2, <1>4
<1>8. s[1] = TopByte(Len(w)) BY <1>7 DEF PutU32
<1>9. w[3] \in Byte
  <2>1. 3 \in 1..Len(w) BY <1>0
  <2> QED BY <2>1, ElementOfSeq
<1>10. w[3] <= 255 BY <1>9, ByteIs
<1> QED BY <1>6, <1>8, <1>10 DEF LengthSmall

LEMMA IdentityIs ==
    ASSUME NEW w \in Seq(Byte), Len(w) >= 10, NEW id, id = <<(w[1] \div 4) % 8>> \o SubSeq(w, 7, 10)
    PROVE  IsHeader(id)
<1>0. Len(w) \in Nat BY LenProperties
<1>1. w[1] \in Byte
  <2>1. 1 \in 1..Len(w) BY <1>0
  <2> QED BY <2>1, ElementOfSeq
<1>2. PICK b \in Nat : b = w[1] BY <1>1, ByteIs
<1>3. PICK v : v = (b \div 4) % 8 OBVIOUS
<1>4. v \in 0..7 BY <1>3
<1>5. v \in Byte BY <1>4, IsByte
<1>6. PICK a \in Seq(Byte) : a = <<v>> BY <1>5, OneLong
<1>7. PICK q \in Nat : q = 6 OBVIOUS
<1>8. PICK k \in Nat : k = 4 OBVIOUS
<1>9. q + k <= Len(w) BY <1>0, <1>7, <1>8
<1>10. q + 1 = 7 /\ q + k = 10 BY <1>7, <1>8
<1>11. SubSeq(w, q + 1, q + k) \in Seq(Byte) /\ Len(SubSeq(w, q + 1, q + k)) = k BY <1>9, CutLies
<1>12. PICK u \in Seq(Byte) : u = SubSeq(w, 7, 10) /\ Len(u) = 4 BY <1>8, <1>10, <1>11
<1>13. id = a \o u BY <1>2, <1>3, <1>6, <1>12
<1>14. Len(a) = 1 /\ a[1] = v BY <1>6
<1>15. id \in Seq(Byte) /\ Len(id) = Len(a) + Len(u) BY <1>13, ConcatProperties
<1>16. id[1] = a[1]
  <2>1. 1 \in 1..Len(a) BY <1>14
  <2> QED BY <1>13, <2>1, ConcatProperties
<1> QED BY <1>4, <1>12, <1>14, <1>15, <1>16 DEF IsHeader

HeaderSays(w, r, t, id) ==
    LengthSmall(w) /\ IsHeader(id) /\ t \in 0..1023 /\ r = DecodeBody(w, t, id) /\ r.pos = Len(w)

LEMMA DecodedMessageIs ==
    ASSUME NEW w \in Seq(Byte), NEW r, r = DecodeMessage(w), r.ok,
           NEW id, id = <<(w[1] \div 4) % 8>> \o SubSeq(w, 7, 10), NEW t, t = U16(w, 0) % 1024
    PROVE  HeaderSays(w, r, t, id)
<1>0. Len(w) \in Nat BY LenProperties
<1>1. Len(w) >= 10 /\ SubSeq(w, 3, 6) = PutU32(Len(w))
  <2> SUFFICES ASSUME ~(Len(w) >= 10 /\ SubSeq(w, 3, 6) = PutU32(Len(w))) PROVE FALSE OBVIOUS
  <2>1. r = Failed BY DEF DecodeMessage
  <2> QED BY <2>1 DEF Failed
<1>2. PICK s : s = DecodeBody(w, t, id) OBVIOUS
<1>3. PICK end : end = Len(w) OBVIOUS
<1>4. r = Exactly(s, end) BY <1>1, <1>2, <1>3 DEF DecodeMessage
<1>5. r = s /\ s.pos = end BY <1>4, ExactlyIs
<1>6. LengthSmall(w) BY <1>1, LengthBytes, Zenon
<1>7. IsHeader(id) BY <1>1, IdentityIs, Zenon
<1>8. t \in 0..1023
  <2>1. PICK q \in Nat : q = 0 OBVIOUS
  <2>2. q + 2 <= Len(w) BY <1>0, <1>1, <2>1
  <2>3. PICK n \in Nat : n = U16(w, q) BY <2>2, U16Type
  <2>4. n % 1024 \in 0..1023 OBVIOUS
  <2> QED BY <2>1, <2>3, <2>4
<1>9. r = DecodeBody(w, t, id) BY <1>2, <1>5
<1>10. r.pos = Len(w) BY <1>3, <1>5
<1> QED BY <1>6, <1>7, <1>8, <1>9, <1>10 DEF HeaderSays

\* The classes a message can have.
LEMMA MessageClassIs ==
    ASSUME NEW t \in DOMAIN MESSAGE_REGISTRY, NEW c, c = MESSAGE_REGISTRY[t]
    PROVE  c \in DOMAIN Classes /\ Classes[c].kind = "msg" /\ Classes[c].type = t /\ IsMessage(c)
<1>1. c \in OfKinds({"msg"}) /\ Key(c) = t BY RegistryOf DEF MESSAGE_REGISTRY
<1>2. c \in DOMAIN Classes /\ Classes[c].kind = "msg" BY <1>1 DEF OfKinds
<1>3. Key(c) = Classes[c].type BY <1>2, KeyType
<1> QED BY <1>1, <1>2, <1>3, ClassIs

LEMMA VendorMessageClassIs ==
    ASSUME NEW key \in DOMAIN CUSTOM_MESSAGE_REGISTRY, NEW c, c = CUSTOM_MESSAGE_REGISTRY[key]
    PROVE  c \in DOMAIN Classes /\ Classes[c].kind = "custommsg" /\ Key(c) = key /\ IsMessage(c)
<1>1. c \in OfKinds({"custommsg"}) /\ Key(c) = key BY RegistryOf DEF CUSTOM_MESSAGE_REGISTRY
<1>2. c \in DOMAIN Classes /\ Classes[c].kind = "custommsg" BY <1>1 DEF OfKinds
<1> QED BY <1>1, <1>2, ClassIs

\* What is behind the header of a message of no class.
Rest(w, q, payload, l) == payload \in Seq(Byte) /\ q + Len(payload) = 10 + l /\ LengthFits(w, l)

LEMMA RestIs ==
    ASSUME NEW w \in Seq(Byte), LengthSmall(w), NEW q \in Nat, 10 <= q, q <= Len(w),
           NEW from, from = q + 1, NEW payload, payload = SubSeq(w, from, Len(w))
    PROVE  \E l \in Nat : Rest(w, q, payload, l)
<1>0. Len(w) \in Nat BY LenProperties
<1>1. PICK k \in Nat : q + k = Len(w)
  <2>1. Len(w) - q \in Nat /\ q + (Len(w) - q) = Len(w) BY <1>0
  <2> QED BY <2>1, Zenon
<1>2. q + k <= Len(w) BY <1>0, <1>1
<1>3. SubSeq(w, q + 1, q + k) \in Seq(Byte) /\ Len(SubSeq(w, q + 1, q + k)) = k BY <1>2, CutLies
<1>4. payload \in Seq(Byte) /\ Len(payload) = k BY <1>1, <1>3
<1>5. PICK l \in Nat : Len(w) = 10 + l
  <2>1. Len(w) - 10 \in Nat /\ Len(w) = 10 + (Len(w) - 10) BY <1>0
  <2> QED BY <2>1
<1>6. LengthFits(w, l) BY <1>5 DEF LengthFits, LengthSmall
<1>7. q + Len(payload) = 10 + l BY <1>1, <1>4, <1>5
<1>8. Rest(w, q, payload, l) BY <1>4, <1>6, <1>7 DEF Rest
<1> QED BY <1>8

LEMMA UnknownPlainMessageOf ==
    ASSUME NEW e, NEW w \in Seq(Byte), LengthSmall(w), NEW t, IsMessageType(t), NEW head, IsHeader(head),
           NEW x, x = Struct("UnknownMessage", head \o PutU16(t), <<SubSeq(w, 11, Len(w))>>, <<>>, <<>>),
           NEW r, r = Ok(Len(w), x)
    PROVE  MessageOf(e, w, r, x)
<1>1. PICK c : c = "UnknownMessage" OBVIOUS
<1>2. PICK n \in Nat : n = t /\ n <= 65535 BY DEF IsMessageType
<1>3. PICK u \in Seq(Byte) : u = PutU16(t) /\ Len(u) = 2 BY <1>2, PutU16Type
<1>4. PICK id : id = head \o u OBVIOUS
<1>5. PICK payload : payload = SubSeq(w, 11, Len(w)) OBVIOUS
<1>6. x = Struct(c, id, <<payload>>, <<>>, <<>>) BY <1>1, <1>3, <1>4, <1>5
<1>7. PICK q \in Nat : q = 10 OBVIOUS
<1>8. PICK from : from = 11 /\ from = q + 1 BY <1>7
<1>9. 10 <= q /\ q <= Len(w) /\ payload = SubSeq(w, from, Len(w)) BY <1>5, <1>7, <1>8 DEF LengthSmall
<1>10. PICK l \in Nat : Rest(w, q, payload, l) BY <1>8, <1>9, RestIs
<1>11. payload \in Seq(Byte) /\ LengthFits(w, l) BY <1>10 DEF Rest
<1>12. Len(payload) = l
  <2>1. PICK k \in Nat : k = Len(payload) BY <1>11, LenProperties
  <2>2. q + k = 10 + l BY <1>10, <2>1 DEF Rest
  <2>3. k = l BY <1>7, <2>2
  <2> QED BY <2>1, <2>3
<1>13. head \in Seq(Byte) /\ Len(head) = 5 BY DEF IsHeader
<1>14. PICK to : to = 7 /\ to = 5 + Len(u) BY <1>3
<1>15. Joined(id, head, u, to) BY <1>4, <1>13, <1>14, JoinedIs
<1>16. Joined(id, head, u, 7) BY <1>14, <1>15
<1>17. id \in Seq(Byte) BY <1>16 DEF Joined
<1>18. Carries(x, c, id, payload) BY <1>6, <1>11, <1>17 DEF Carries
<1>19. Regular(x) /\ Prefix(x) = <<>> BY <1>1, <1>3, <1>16, <1>18, PlainMessage
<1>20. PICK a \in Seq(Byte) : a = <<>> BY EmptySeq
<1>21. a = Prefix(x) BY <1>19, <1>20
<1>22. Len(a) + Len(payload) = l BY <1>12, <1>20
<1>23. c \in {"UnknownMessage", "UnknownCustomMessage"} BY <1>1
<1> QED BY <1>11, <1>18, <1>19, <1>21, <1>22, <1>23, UnknownMessageOf

LEMMA VendorCarried ==
    ASSUME NEW e, NEW w \in Seq(Byte), NEW key, NoVendorKey(key), NEW head, IsHeader(head),
           NEW id, Joined(id, head, key, 10), NEW payload, NEW c, c = "UnknownCustomMessage", NEW x, Carries(x, c, id, payload),
           NEW l \in Nat, LengthFits(w, l), Len(key) + Len(payload) = l, NEW r, r = Ok(Len(w), x)
    PROVE  MessageOf(e, w, r, x)
<1>1. Regular(x) BY VendorMessage
<1>2. key = Prefix(x) BY VendorMessage
<1>3. key \in Seq(Byte) BY DEF NoVendorKey
<1>4. c \in {"UnknownMessage", "UnknownCustomMessage"} OBVIOUS
<1> QED BY <1>1, <1>2, <1>3, <1>4, UnknownMessageOf

LEMMA UnknownVendorMessageOf ==
    ASSUME NEW e, NEW w \in Seq(Byte), LengthSmall(w), Len(w) >= 15, NEW head, IsHeader(head),
           NEW key, key = SubSeq(w, 11, 15), key \notin DOMAIN CUSTOM_MESSAGE_REGISTRY,
           NEW x, x = Struct("UnknownCustomMessage", head \o key, <<SubSeq(w, 16, Len(w))>>, <<>>, <<>>),
           NEW r, r = Ok(Len(w), x)
    PROVE  MessageOf(e, w, r, x)
<1>0. Len(w) \in Nat BY LenProperties
<1>1. PICK c : c = "UnknownCustomMessage" OBVIOUS
<1>2. NoVendorKey(key)
  <2>1. PICK q \in Nat : q = 10 OBVIOUS
  <2>2. PICK k \in Nat : k = 5 OBVIOUS
  <2>3. q + k <= Len(w) BY <1>0, <2>1, <2>2
  <2>4. q + 1 = 11 /\ q + k = 15 BY <2>1, <2>2
  <2>5. SubSeq(w, q + 1, q + k) \in Seq(Byte) /\ Len(SubSeq(w, q + 1, q + k)) = k BY <2>3, CutLies
  <2> QED BY <2>2, <2>4, <2>5 DEF NoVendorKey
<1>3. key \in Seq(Byte) /\ Len(key) = 5 BY <1>2 DEF NoVendorKey
<1>4. PICK id : id = head \o key OBVIOUS
<1>5. PICK payload : payload = SubSeq(w, 16, Len(w)) OBVIOUS
<1>6. x = Struct(c, id, <<payload>>, <<>>, <<>>) BY <1>1, <1>4, <1>5
<1>7. PICK q \in Nat : q = 15 OBVIOUS
<1>8. PICK from : from = 16 /\ from = q + 1 BY <1>7
<1>9. 10 <= q /\ q <= Len(w) /\ payload = SubSeq(w, from, Len(w)) BY <1>0, <1>5, <1>7, <1>8
<1>10. PICK l \in Nat : Rest(w, q, payload, l) BY <1>8, <1>9, RestIs
<1>11. payload \in Seq(Byte) /\ LengthFits(w, l) BY <1>10 DEF Rest
<1>12. Len(key) + Len(payload) = l
  <2>1. PICK k \in Nat : k = Len(payload) BY <1>11, LenProperties
  <2>2. q + k = 10 + l BY <1>10, <2>1 DEF Rest
  <2>3. 5 + k = l BY <1>7, <2>2
  <2> QED BY <1>3, <2>1, <2>3
<1>13. head \in Seq(Byte) /\ Len(head) = 5 BY DEF IsHeader
<1>14. PICK to : to = 10 /\ to = 5 + Len(key) BY <1>3
<1>15. Joined(id, head, key, to) BY <1>3, <1>4, <1>13, <1>14, JoinedIs
<1>16. Joined(id, head, key, 10) BY <1>14, <1>15
<1>17. id \in Seq(Byte) BY <1>16 DEF Joined
<1>18. Carries(x, c, id, payload) BY <1>6, <1>11, <1>17 DEF Carries
<1> QED BY <1>1, <1>2, <1>11, <1>12, <1>16, <1>18, VendorCarried

LEMMA DeepRows ==
    ASSUME NEW w \in Seq(Byte), NEW n, n = Len(w), NEW e, e = Below(n), NEW lo \in Nat
    PROVE  RowsFit(e, w, lo)
<1>1. n \in Nat BY LenProperties
<1>2. RowsReach(w, n) BY <1>1, AllRowsFit
<1>3. Len(w) <= lo + n BY <1>1
<1> QED BY <1>2, <1>3 DEF RowsReach

\* The body of a message, by its type.
LEMMA VendorBody ==
    ASSUME NEW e, NEW w \in Seq(Byte), LengthSmall(w), NEW id, IsHeader(id), \A lo \in Nat : RowsFit(e, w, lo),
           NEW r, r = DecodeBody(w, TYPE_CUSTOM, id), r.ok, r.pos = Len(w)
    PROVE  \E x : MessageOf(e, w, r, x)
<1>0. Len(w) \in Nat BY LenProperties
<1>1. Len(w) >= 15 /\ r = DecodeCustom(w, id)
  <2>1. CASE Len(w) < 15
    <3>1. r = Failed BY <2>1 DEF DecodeBody
    <3> QED BY <3>1 DEF Failed
  <2>2. CASE ~(Len(w) < 15) BY <1>0, <2>2 DEF DecodeBody
  <2> QED BY <2>1, <2>2
<1>2. PICK key : key = SubSeq(w, 11, 15) OBVIOUS
<1>3. CASE key \in DOMAIN CUSTOM_MESSAGE_REGISTRY
  <2>1. PICK c : c = CUSTOM_MESSAGE_REGISTRY[key] OBVIOUS
  <2>2. PICK start \in Nat : start = 15 OBVIOUS
  <2>3. PICK end : end = Len(w) OBVIOUS
  <2>4. r = DecodeStruct(DecodeParams(w), c, id, w, start, end) BY <1>1, <1>2, <1>3, <2>1, <2>2, <2>3 DEF DecodeCustom
  <2>5. c \in DOMAIN Classes /\ Classes[c].kind = "custommsg" /\ IsMessage(c) BY <1>3, <2>1, VendorMessageClassIs
  <2>6. start = MessageBegin(c) /\ start <= Len(w) BY <1>0, <1>1, <2>2, <2>5 DEF MessageBegin
  <2>7. TopByte(Len(w)) <= 255 BY DEF LengthSmall
  <2> QED BY <2>2, <2>3, <2>4, <2>5, <2>6, <2>7, KnownMessageOf
<1>4. CASE key \notin DOMAIN CUSTOM_MESSAGE_REGISTRY
  <2>1. PICK x : x = Struct("UnknownCustomMessage", id \o key, <<SubSeq(w, 16, Len(w))>>, <<>>, <<>>) OBVIOUS
  <2>2. r = Ok(Len(w), x) BY <1>1, <1>2, <1>4, <2>1 DEF DecodeCustom
  <2>3. MessageOf(e, w, r, x) BY <1>1, <1>2, <1>4, <2>1, <2>2, UnknownVendorMessageOf
  <2> QED BY <2>3
<1> QED BY <1>3, <1>4

IsStandard(t) == t \in 0..1022 /\ ~(t = TYPE_CUSTOM)

LEMMA StandardBody ==
    ASSUME NEW e, NEW w \in Seq(Byte), LengthSmall(w), NEW id, IsHeader(id), \A lo \in Nat : RowsFit(e, w, lo),
           NEW t, IsStandard(t), NEW r, r = DecodeBody(w, t, id), r.ok, r.pos = Len(w)
    PROVE  \E x : MessageOf(e, w, r, x)
<1>0. Len(w) \in Nat BY LenProperties
<1>3. t \in 0..1022 /\ ~(t = TYPE_CUSTOM) BY DEF IsStandard
<1>1. CASE t \in DOMAIN MESSAGE_REGISTRY
  <2>1. PICK c : c = MESSAGE_REGISTRY[t] OBVIOUS
  <2>2. PICK start \in Nat : start = 10 OBVIOUS
  <2>3. PICK end : end = Len(w) OBVIOUS
  <2>4. r = DecodeStruct(DecodeParams(w), c, id, w, start, end) BY <1>1, <1>3, <2>1, <2>2, <2>3 DEF DecodeBody
  <2>5. c \in DOMAIN Classes /\ Classes[c].kind = "msg" /\ IsMessage(c) BY <1>1, <2>1, MessageClassIs
  <2>6. start = MessageBegin(c) /\ start <= Len(w) BY <1>0, <2>2, <2>5 DEF MessageBegin, LengthSmall
  <2>7. TopByte(Len(w)) <= 255 BY DEF LengthSmall
  <2> QED BY <2>2, <2>3, <2>4, <2>5, <2>6, <2>7, KnownMessageOf
<1>2. CASE t \notin DOMAIN MESSAGE_REGISTRY
  <2>1. PICK x : x = Struct("UnknownMessage", id \o PutU16(t), <<SubSeq(w, 11, Len(w))>>, <<>>, <<>>) OBVIOUS
  <2>2. r = Ok(Len(w), x) BY <1>2, <1>3, <2>1 DEF DecodeBody
  <2>3. IsMessageType(t) BY <1>2, <1>3 DEF IsMessageType
  <2>4. MessageOf(e, w, r, x) BY <2>1, <2>2, <2>3, UnknownPlainMessageOf
  <2> QED BY <2>4
<1> QED BY <1>1, <1>2

LEMMA BodyDecoded ==
    ASSUME NEW e, NEW w \in Seq(Byte), \A lo \in Nat : RowsFit(e, w, lo), NEW r, r.ok, NEW t, NEW id, HeaderSays(w, r, t, id)
    PROVE  r.pos = Len(w) /\ \E x : MessageOf(e, w, r, x)
<1>1. LengthSmall(w) /\ IsHeader(id) /\ t \in 0..1023 /\ r = DecodeBody(w, t, id) /\ r.pos = Len(w)
  BY DEF HeaderSays
<1>2. CASE t = TYPE_CUSTOM
  <2>1. r = DecodeBody(w, TYPE_CUSTOM, id) BY <1>1, <1>2
  <2> QED BY <1>1, <2>1, VendorBody, Zenon
<1>3. CASE ~(t = TYPE_CUSTOM)
  <2>1. t # 1023 BY <1>3 DEF TYPE_CUSTOM
  <2>2. t \in 0..1022 BY <1>1, <2>1
  <2>3. IsStandard(t) BY <1>3, <2>2 DEF IsStandard
  <2> QED BY <1>1, <2>3, StandardBody, Zenon
<1> QED BY <1>2, <1>3

LEMMA MessageDecoded ==
    ASSUME NEW w \in Seq(Byte), NEW r, r = DecodeMessage(w), r.ok, NEW e, \A lo \in Nat : RowsFit(e, w, lo)
    PROVE  r.pos = Len(w) /\ \E x : MessageOf(e, w, r, x)
<1>1. PICK id : id = <<(w[1] \div 4) % 8>> \o SubSeq(w, 7, 10) OBVIOUS
<1>2. PICK t : t = U16(w, 0) % 1024 OBVIOUS
<1>3. HeaderSays(w, r, t, id) BY <1>1, <1>2, DecodedMessageIs, ZenonT(60)
<1> QED BY <1>3, BodyDecoded

(* What is accepted can be sent again. *)

LEMMA ParameterComesBack ==
    ASSUME NEW w \in Seq(Byte), NEW r, r = DecodeParam(DecodeParams(w), w, 0), r.ok, ~IsMessage(original.cls)
    PROVE  LosslessOf(r) \/ bytes # w
<1> SUFFICES ASSUME bytes = w PROVE LosslessOf(r) OBVIOUS
<1>1. PICK n \in Nat : n = Len(w) BY LenProperties
<1>2. PICK e : e = Below(n) OBVIOUS
<1>3. PICK pos \in Nat : pos = 0 OBVIOUS
<1>4. RowsFit(e, w, pos + 1)
  <2>1. PICK lo \in Nat : lo = pos + 1 OBVIOUS
  <2>2. RowsFit(e, w, lo) BY <1>1, <1>2, DeepRows
  <2> QED BY <2>1, <2>2
<1>5. r = DecodeParam(DecodeParams(w), w, pos) BY <1>3
<1>6. PICK x : HeadOf(e, pos, r, x) BY <1>4, <1>5, HeadFits
<1>7. /\ x \in StructsOver(DOMAIN e) /\ Legal(e, x) /\ ~IsMessage(x.cls)
      /\ r = Ok(r.pos, x) /\ r.pos = pos + Len(Frame(x, Body(e, x)))
  BY <1>6 DEF HeadOf
<1>8. PICK q : q = r.pos OBVIOUS
<1>9. r = Ok(q, x) BY <1>7, <1>8
<1>10. r.val[1] = x BY <1>9, OkIs
<1>11. PICK d : d = Encoding[n] OBVIOUS
<1>12. d = Deeper(e) BY <1>2, <1>11, BelowIs
<1>13. x \in DOMAIN d /\ d[x].ok /\ d[x].wire = Frame(x, Body(e, x)) BY <1>7, <1>12 DEF Deeper, Legal
<1>14. PICK v : v = d[x].wire OBVIOUS
<1>15. ReadsBack(d, x) BY <1>7, <1>13, StepBack
<1>16. v \in Seq(Byte) BY <1>14, <1>15 DEF ReadsBack
<1>17. q = pos + Len(v) /\ Len(v) \in Nat BY <1>7, <1>8, <1>13, <1>14, <1>16, LenProperties
<1>18. q = Len(v) BY <1>3, <1>17
<1>19. Lies(v, pos, d[x].wire) BY <1>3, <1>14, <1>16, WholeLies
<1>20. DecodeParam(DecodeParams(v), v, pos) = Ok(pos + Len(d[x].wire), x) BY <1>15, <1>16, <1>19 DEF ReadsBack
<1>21. DecodeParam(DecodeParams(v), v, 0) = Ok(q, x) BY <1>3, <1>14, <1>17, <1>20
<1>22. Decode(v) = Ok(q, x) BY <1>21 DEF Decode
<1>23. ComesBack(x, d[x], q) BY <1>13, <1>14, <1>18, <1>22 DEF ComesBack
<1>24. Encoding[Len(bytes)] = d BY <1>1, <1>11
<1> QED BY <1>8, <1>10, <1>13, <1>23, <1>24 DEF LosslessOf

LEMMA MessageComesBack ==
    ASSUME NEW w \in Seq(Byte), NEW r, r = DecodeMessage(w), r.ok, IsMessage(original.cls)
    PROVE  LosslessOf(r) \/ bytes # w
<1> SUFFICES ASSUME bytes = w PROVE LosslessOf(r) OBVIOUS
<1>1. PICK n \in Nat : n = Len(w) BY LenProperties
<1>2. PICK e : e = Below(n) OBVIOUS
<1>5. \A lo \in Nat : RowsFit(e, w, lo) BY <1>1, <1>2, DeepRows
<1>3. PICK x : MessageOf(e, w, r, x) BY <1>5, MessageDecoded
<1>4. r.pos = n BY <1>1, <1>5, MessageDecoded
<1>7. /\ x \in StructsOver(DOMAIN e) /\ Legal(e, x) /\ IsMessage(x.cls)
      /\ r = Ok(n, x) /\ Len(Frame(x, Body(e, x))) = n
  BY <1>1, <1>3 DEF MessageOf
<1>10. r.val[1] = x BY <1>7, OkIs
<1>11. PICK d : d = Encoding[n] OBVIOUS
<1>12. d = Deeper(e) BY <1>2, <1>11, BelowIs
<1>13. x \in DOMAIN d /\ d[x].ok /\ d[x].wire = Frame(x, Body(e, x)) BY <1>7, <1>12 DEF Deeper, Legal
<1>14. PICK v : v = d[x].wire OBVIOUS
<1>15. v = Frame(x, Body(e, x)) BY <1>13, <1>14
<1>16. DecodeMessage(v) = Ok(Len(v), x) BY <1>7, <1>15, MessageBack
<1>18. n = Len(v) BY <1>7, <1>15
<1>22. Decode(v) = Ok(n, x) BY <1>16, <1>18 DEF Decode
<1>23. ComesBack(x, d[x], n) BY <1>13, <1>14, <1>18, <1>22 DEF ComesBack
<1>24. Encoding[Len(bytes)] = d BY <1>1, <1>11
<1> QED BY <1>4, <1>10, <1>13, <1>23, <1>24 DEF LosslessOf

\* Whatever bytes arrive, altered in whatever way: what is accepted of them can be encoded
\* again, to as many bytes, which decode to the same value.
THEOREM NothingLost == WireSpec => []Lossless
<1>1. Arriving => Lossless
  <2> SUFFICES ASSUME Arriving PROVE Lossless OBVIOUS
  <2>1. PICK w \in Seq(Byte) : w = bytes BY DEF Arriving
  <2>2. PICK r : r = Decode(w) OBVIOUS
  <2>3. CASE ~r.ok BY <2>1, <2>2, <2>3 DEF Lossless, LosslessOf
  <2>4. CASE r.ok /\ IsMessage(original.cls)
    <3>1. r = DecodeMessage(w) BY <2>2, <2>4 DEF Decode
    <3>2. LosslessOf(r) BY <2>1, <2>4, <3>1, MessageComesBack
    <3> QED BY <2>1, <2>2, <3>2 DEF Lossless
  <2>5. CASE r.ok /\ ~IsMessage(original.cls)
    <3>1. r = DecodeParam(DecodeParams(w), w, 0) BY <2>2, <2>5 DEF Decode
    <3>2. LosslessOf(r) BY <2>1, <2>5, <3>1, ParameterComesBack
    <3> QED BY <2>1, <2>2, <3>2 DEF Lossless
  <2> QED BY <2>3, <2>4, <2>5
<1> QED BY <1>1, ArrivingInvariant, PTL

(* What is accepted is framed: every length is the length of what it
   frames. *)

\* Two tilings that say the same behind lo.
SameEnds(g, h, w, lo) == \A q \in (lo + 1)..Len(w) : g[q] = h[q]

LEMMA SameCover ==
    ASSUME NEW w \in Seq(Byte), NEW g, NEW h, NEW lo \in Nat, SameEnds(g, h, w, lo), NEW c \in DOMAIN Classes,
           NEW q \in Nat, lo < q, q <= Len(w), NEW f, f = DecodeFields(c, w, q), NEW hi, Covers(g, f, hi)
    PROVE  Covers(h, f, hi)
<1>0. Len(w) \in Nat BY LenProperties
<1>1. f.ok /\ f.p % 8 = 0 /\ hi \in g[f.p \div 8] BY DEF Covers
<1>2. f.p \div 8 \in q..Len(w) BY <1>1, FieldsEnd
<1>3. f.p \div 8 \in (lo + 1)..Len(w) BY <1>0, <1>2
<1>4. g[f.p \div 8] = h[f.p \div 8] BY <1>3 DEF SameEnds
<1> QED BY <1>1, <1>4 DEF Covers

TilesTv(ends, w, lo, hi) ==
    /\ lo < hi /\ w[lo + 1] >= 128 /\ w[lo + 1] % 128 \in DOMAIN PARAMETER_REGISTRY
    /\ Covers(ends, DecodeFields(PARAMETER_REGISTRY[w[lo + 1] % 128], w, lo + 1), hi)

TilesTlv(ends, w, lo, hi) ==
    /\ lo + 4 <= hi /\ ~(w[lo + 1] >= 128) /\ TlvBody(w, lo) <= TlvEnd(w, lo) /\ TlvEnd(w, lo) <= hi
    /\ TlvClass(w, lo) # NoClass => Covers(ends, DecodeFields(TlvClass(w, lo), w, TlvBody(w, lo)), TlvEnd(w, lo))
    /\ hi \in ends[TlvEnd(w, lo)]

LEMMA TilesIs ==
    ASSUME NEW ends, NEW w, NEW lo, NEW hi
    PROVE  Tiles(ends, w, lo, hi) <=> (lo = hi \/ TilesTv(ends, w, lo, hi) \/ TilesTlv(ends, w, lo, hi))
  BY DEF Tiles, TilesTv, TilesTlv

LEMMA SameTv ==
    ASSUME NEW w \in Seq(Byte), NEW g, NEW h, NEW lo \in Nat, SameEnds(g, h, w, lo),
           NEW hi \in Nat, hi <= Len(w), TilesTv(g, w, lo, hi)
    PROVE  TilesTv(h, w, lo, hi)
<1>0. Len(w) \in Nat BY LenProperties
<1>1. PICK t : t = w[lo + 1] % 128 OBVIOUS
<1>2. PICK c : c = PARAMETER_REGISTRY[t] OBVIOUS
<1>3. PICK q \in Nat : q = lo + 1 OBVIOUS
<1>4. lo < hi /\ t \in DOMAIN PARAMETER_REGISTRY BY <1>1 DEF TilesTv
<1>5. c \in DOMAIN Classes BY <1>2, <1>4, TvClassIs
<1>6. PICK f : f = DecodeFields(c, w, q) OBVIOUS
<1>7. Covers(g, f, hi) BY <1>1, <1>2, <1>3, <1>6 DEF TilesTv
<1>8. lo < q /\ q <= Len(w) BY <1>0, <1>3, <1>4
<1>9. Covers(h, f, hi) BY <1>5, <1>6, <1>7, <1>8, SameCover
<1>10. Covers(h, DecodeFields(PARAMETER_REGISTRY[w[lo + 1] % 128], w, lo + 1), hi) BY <1>1, <1>2, <1>3, <1>6, <1>9
<1> QED BY <1>10 DEF TilesTv

LEMMA SameTlv ==
    ASSUME NEW w \in Seq(Byte), NEW g, NEW h, NEW lo \in Nat, SameEnds(g, h, w, lo),
           NEW hi \in Nat, hi <= Len(w), TilesTlv(g, w, lo, hi)
    PROVE  TilesTlv(h, w, lo, hi)
<1>0. Len(w) \in Nat BY LenProperties
<1>1. PICK end : end = TlvEnd(w, lo) OBVIOUS
<1>2. PICK q : q = TlvBody(w, lo) OBVIOUS
<1>3. PICK c : c = TlvClass(w, lo) OBVIOUS
<1>4. lo + 4 <= hi /\ q <= end /\ end <= hi BY <1>1, <1>2 DEF TilesTlv
<1>5. /\ c # NoClass => Covers(g, DecodeFields(c, w, q), end)
      /\ hi \in g[end]
  BY <1>1, <1>2, <1>3 DEF TilesTlv
<1>6. q \in Nat /\ lo < q
  <2>1. q = lo + 4 \/ q = lo + 12
    <3>1. CASE TlvType(w, lo) = TYPE_CUSTOM BY <1>2, <3>1 DEF TlvBody
    <3>2. CASE TlvType(w, lo) # TYPE_CUSTOM BY <1>2, <3>2 DEF TlvBody
    <3> QED BY <3>1, <3>2
  <2> QED BY <2>1
<1>7. PICK u \in Nat : u = lo + 2 OBVIOUS
<1>8. U16(w, u) \in Nat
  <2>1. u + 2 <= Len(w) BY <1>0, <1>4, <1>7
  <2> QED BY <2>1, U16Type
<1>9. end \in Nat BY <1>1, <1>7, <1>8 DEF TlvEnd
<1>10. q <= Len(w) /\ end \in (lo + 1)..Len(w) BY <1>0, <1>4, <1>6, <1>9
<1>11. hi \in h[end] BY <1>5, <1>10 DEF SameEnds
<1>12. ASSUME c # NoClass PROVE Covers(h, DecodeFields(c, w, q), end)
  <2>1. c \in DOMAIN Classes BY <1>3, <1>12, TlvClassIs
  <2>2. PICK f : f = DecodeFields(c, w, q) OBVIOUS
  <2>3. Covers(g, f, end) BY <1>5, <1>12, <2>2
  <2>4. Covers(h, f, end) BY <1>6, <1>10, <2>1, <2>2, <2>3, SameCover
  <2> QED BY <2>2, <2>4
<1>13. /\ lo + 4 <= hi /\ ~(w[lo + 1] >= 128) /\ TlvBody(w, lo) <= TlvEnd(w, lo) /\ TlvEnd(w, lo) <= hi
  BY DEF TilesTlv
<1>14. TlvClass(w, lo) # NoClass => Covers(h, DecodeFields(TlvClass(w, lo), w, TlvBody(w, lo)), TlvEnd(w, lo))
  BY <1>1, <1>2, <1>3, <1>12
<1>15. hi \in h[TlvEnd(w, lo)] BY <1>1, <1>11
<1> QED BY <1>13, <1>14, <1>15 DEF TilesTlv

LEMMA MoreEndings ==
    ASSUME NEW w \in Seq(Byte), NEW g, NEW h, NEW lo \in Nat, SameEnds(g, h, w, lo)
    PROVE  Endings(g, w, lo) \subseteq Endings(h, w, lo)
<1> SUFFICES ASSUME NEW hi \in Endings(g, w, lo) PROVE hi \in Endings(h, w, lo) OBVIOUS
<1>1. hi \in Nat /\ lo <= hi /\ hi <= Len(w) /\ Tiles(g, w, lo, hi) BY DEF Endings
<1>2. Tiles(h, w, lo, hi) BY <1>1, TilesIs, SameTv, SameTlv
<1> QED BY <1>1, <1>2 DEF Endings

LEMMA SameEndings ==
    ASSUME NEW w \in Seq(Byte), NEW g, NEW h, NEW lo \in Nat, SameEnds(g, h, w, lo)
    PROVE  Endings(g, w, lo) = Endings(h, w, lo)
<1>1. SameEnds(h, g, w, lo) BY DEF SameEnds
<1>2. Endings(g, w, lo) \subseteq Endings(h, w, lo) BY MoreEndings
<1>3. Endings(h, w, lo) \subseteq Endings(g, w, lo) BY <1>1, MoreEndings
<1> QED BY <1>2, <1>3

\* There is a tiling, from the end of the wire to its beginning.
EndsFrom(w, lo, g) == g = [pos \in lo..Len(w) |-> Endings(g, w, pos)]

LEMMA SomeEnds ==
    ASSUME NEW w \in Seq(Byte)
    PROVE  \E g : EndsFrom(w, 0, g)
<1>0. PICK L \in Nat : L = Len(w) BY LenProperties
<1> DEFINE N == {n \in Nat : n <= L + 1 => \E g : EndsFrom(w, L + 1 - n, g)}
<1>1. 0 \in N
  <2> DEFINE g == [pos \in (L + 1)..L |-> {}]
  <2>1. (L + 1)..L = {} /\ L + 1 - 0 = L + 1 OBVIOUS
  <2>2. g = [pos \in (L + 1)..L |-> Endings(g, w, pos)] BY <2>1
  <2>3. EndsFrom(w, L + 1, g)
    <3> HIDE DEF g
    <3> QED BY <1>0, <2>2 DEF EndsFrom
  <2> QED BY <2>1, <2>3
<1>2. ASSUME NEW n \in Nat, n \in N PROVE n + 1 \in N
  <2> SUFFICES ASSUME n + 1 <= L + 1 PROVE \E g : EndsFrom(w, L + 1 - (n + 1), g) OBVIOUS
  <2>1. PICK g : EndsFrom(w, L + 1 - n, g) BY <1>2
  <2>2. PICK lo \in Nat : lo = L + 1 - (n + 1) /\ lo + 1 = L + 1 - n /\ lo <= L OBVIOUS
  <2> DEFINE h == [pos \in lo..L |-> IF pos = lo THEN Endings(g, w, lo) ELSE g[pos]]
  <2>3. \A pos \in (lo + 1)..L : g[pos] = Endings(g, w, pos) BY <1>0, <2>1, <2>2 DEF EndsFrom
  <2>4. \A pos \in (lo + 1)..L : h[pos] = g[pos]
    <3> SUFFICES ASSUME NEW pos \in (lo + 1)..L PROVE h[pos] = g[pos] OBVIOUS
    <3>1. pos \in lo..L /\ pos # lo OBVIOUS
    <3> QED BY <3>1
  <2>5. h[lo] = Endings(g, w, lo)
    <3>1. lo \in lo..L BY <2>2
    <3> QED BY <3>1
  <2>6. h = [pos \in lo..L |-> h[pos]] OBVIOUS
  <2> HIDE DEF h
  <2>7. ASSUME NEW pos \in lo..L PROVE h[pos] = Endings(h, w, pos)
    <3>1. pos \in Nat OBVIOUS
    <3>2. SameEnds(g, h, w, pos)
      <4> SUFFICES ASSUME NEW q \in (pos + 1)..Len(w) PROVE g[q] = h[q] BY DEF SameEnds
      <4>1. q \in (lo + 1)..L BY <1>0
      <4> QED BY <2>4, <4>1
    <3>3. Endings(g, w, pos) = Endings(h, w, pos) BY <3>1, <3>2, SameEndings
    <3>4. h[pos] = Endings(g, w, pos)
      <4>1. CASE pos = lo BY <2>5, <4>1
      <4>2. CASE pos # lo
        <5>1. pos \in (lo + 1)..L BY <2>2, <4>2
        <5> QED BY <2>3, <2>4, <5>1
      <4> QED BY <4>1, <4>2
    <3> QED BY <3>3, <3>4
  <2>8. EndsFrom(w, lo, h) BY <1>0, <2>6, <2>7 DEF EndsFrom
  <2> QED BY <2>2, <2>8
<1>3. Nat \subseteq N
  <2> HIDE DEF N
  <2> QED BY <1>1, <1>2, InductNat
<1>4. PICK m \in Nat : m = L + 1 OBVIOUS
<1>5. m \in N
  <2> HIDE DEF N
  <2> QED BY <1>3
<1>6. \E g : EndsFrom(w, L + 1 - m, g) BY <1>4, <1>5
<1>7. L + 1 - m = 0 BY <1>4
<1> QED BY <1>6, <1>7

LEMMA TilingIs ==
    ASSUME NEW w \in Seq(Byte)
    PROVE  \A lo \in 0..Len(w) : Tiling(w)[lo] = Endings(Tiling(w), w, lo)
<1>1. EndsFrom(w, 0, CHOOSE g : EndsFrom(w, 0, g)) BY SomeEnds
<1>2. Tiling(w) = CHOOSE g : EndsFrom(w, 0, g) BY DEF Tiling, EndsFrom
<1>3. PICK g : g = Tiling(w) OBVIOUS
<1>4. EndsFrom(w, 0, g) BY <1>1, <1>2, <1>3
<1>5. \A lo \in 0..Len(w) : g[lo] = Endings(g, w, lo) BY <1>4 DEF EndsFrom
<1> QED BY <1>3, <1>5

\* Behind lo, whatever parameters are decoded tile the window they were read from.
RowTiles(w, pos, r) == r.ok => r.pos \in Tiling(w)[pos]

RowsTile(w, lo) == \A pos \in lo..Len(w), end \in 0..Len(w) : RowTiles(w, pos, DecodeParams(w)[pos][end])

LEMMA StructCovers ==
    ASSUME NEW w \in Seq(Byte), NEW c \in DOMAIN Classes, NEW id, NEW start \in Nat, start <= Len(w),
           RowsTile(w, start), NEW end \in 0..Len(w),
           NEW s, s = DecodeStruct(DecodeParams(w), c, id, w, start, end), s.ok
    PROVE  Covers(Tiling(w), DecodeFields(c, w, start), s.pos)
<1>1. PICK f : f = DecodeFields(c, w, start) OBVIOUS
<1>2. PICK g : g = DecodeParams(w) OBVIOUS
<1>3. f.ok /\ f.p % 8 = 0
  <2> SUFFICES ASSUME ~(f.ok /\ f.p % 8 = 0) PROVE FALSE OBVIOUS
  <2>1. s = Failed BY <1>1 DEF DecodeStruct
  <2> QED BY <2>1 DEF Failed
<1>4. PICK q : q = f.p \div 8 OBVIOUS
<1>5. PICK r : r = g[q][end] OBVIOUS
<1>6. s = Assemble(c, id, f, r) BY <1>1, <1>2, <1>3, <1>4, <1>5 DEF DecodeStruct
<1>7. PICK b : b = BindParams(c, r.val) OBVIOUS
<1>8. r.ok /\ Complete(c, b.slots)
  <2> SUFFICES ASSUME ~(r.ok /\ Complete(c, b.slots)) PROVE FALSE OBVIOUS
  <2>1. s = Failed BY <1>6, <1>7 DEF Assemble
  <2> QED BY <2>1 DEF Failed
<1>9. PICK x : x = Struct(c, id, f.values, b.slots, b.extra) OBVIOUS
<1>10. s = Ok(r.pos, x) BY <1>6, <1>7, <1>8, <1>9 DEF Assemble
<1>11. s.pos = r.pos BY <1>10, OkIs
<1>12. q \in start..Len(w) BY <1>1, <1>3, <1>4, FieldsEnd
<1>13. RowTiles(w, q, r) BY <1>2, <1>5, <1>12 DEF RowsTile
<1>14. r.pos \in Tiling(w)[q] BY <1>8, <1>13 DEF RowTiles
<1> QED BY <1>1, <1>3, <1>4, <1>11, <1>14 DEF Covers

\* A window from where a window ends.
EndsAt(w, pos, q) == q \in Nat /\ pos <= q /\ q <= Len(w) /\ q \in Tiling(w)[pos]

LEMMA EndsAtIs ==
    ASSUME NEW w \in Seq(Byte), NEW pos \in 0..Len(w), NEW q, q \in Tiling(w)[pos]
    PROVE  EndsAt(w, pos, q)
<1>1. q \in Endings(Tiling(w), w, pos) BY TilingIs
<1> QED BY <1>1 DEF Endings, EndsAt

LEMMA TvTiles ==
    ASSUME NEW w \in Seq(Byte), NEW lo \in Nat, lo < Len(w), w[lo + 1] >= 128, NEW head, head = DecodeTv(w, lo), head.ok,
           NEW q, EndsAt(w, head.pos, q)
    PROVE  Tiles(Tiling(w), w, lo, q)
<1>0. Len(w) \in Nat BY LenProperties
<1>1. PICK t : t = w[lo + 1] % 128 OBVIOUS
<1>2. PICK c : c = PARAMETER_REGISTRY[t] OBVIOUS
<1>3. PICK f : f = DecodeFields(c, w, lo + 1) OBVIOUS
<1>4. /\ t \in DOMAIN PARAMETER_REGISTRY /\ f.ok /\ f.p % 8 = 0 /\ f.p \div 8 \in (lo + 1)..Len(w)
      /\ head = Ok(f.p \div 8, Struct(c, <<>>, f.values, <<>>, <<>>))
  BY <1>1, <1>2, <1>3, TvIs
<1>5. head.pos = f.p \div 8 BY <1>4 DEF Ok, Parsed
<1>6. q \in Nat /\ head.pos <= q /\ q \in Tiling(w)[head.pos] BY DEF EndsAt
<1>7. PICK p \in Nat : p = head.pos /\ lo < p BY <1>0, <1>4, <1>5
<1>8. lo < q BY <1>6, <1>7
<1>9. Covers(Tiling(w), f, q) BY <1>4, <1>5, <1>6 DEF Covers
<1>10. Covers(Tiling(w), DecodeFields(PARAMETER_REGISTRY[w[lo + 1] % 128], w, lo + 1), q) BY <1>1, <1>2, <1>3, <1>9
<1>11. w[lo + 1] % 128 \in DOMAIN PARAMETER_REGISTRY BY <1>1, <1>4
<1>12. TilesTv(Tiling(w), w, lo, q) BY <1>8, <1>10, <1>11 DEF TilesTv
<1> QED BY <1>12, TilesIs

LEMMA TlvTiles ==
    ASSUME NEW w \in Seq(Byte), NEW lo \in Nat, ~(w[lo + 1] >= 128),
           NEW head, head = DecodeTlv(DecodeParams(w), w, lo), head.ok, RowsTile(w, lo + 1),
           NEW q, EndsAt(w, head.pos, q)
    PROVE  Tiles(Tiling(w), w, lo, q)
<1>0. Len(w) \in Nat BY LenProperties
<1>1. PICK rest : rest = DecodeParams(w) OBVIOUS
<1>2. PICK end : end = TlvEnd(w, lo) OBVIOUS
<1>3. PICK c : c = TlvClass(w, lo) OBVIOUS
<1>4. head = DecodeTlv(rest, w, lo) BY <1>1
<1>5. /\ head.pos = end /\ TlvFits(w, lo, end)
      /\ c # NoClass => head = DecodeStruct(rest, c, <<>>, w, TlvBody(w, lo), end)
  BY <1>2, <1>3, <1>4, TlvIs
<1>6. PICK start : start = TlvBody(w, lo) OBVIOUS
<1>7. start \in Nat /\ lo + 4 <= start /\ start <= end /\ end \in Nat /\ end <= Len(w) BY <1>5, <1>6 DEF TlvFits
<1>8. q \in Nat /\ end <= q /\ q \in Tiling(w)[end] BY <1>5 DEF EndsAt
<1>9. ASSUME c # NoClass PROVE Covers(Tiling(w), DecodeFields(c, w, start), end)
  <2>1. c \in DOMAIN Classes BY <1>3, <1>9, TlvClassIs
  <2>2. PICK id : id = <<>> OBVIOUS
  <2>3. head = DecodeStruct(DecodeParams(w), c, id, w, start, end) BY <1>1, <1>5, <1>6, <1>9, <2>2
  <2>4. RowsTile(w, start)
    <3>1. \A p \in start..Len(w) : p \in (lo + 1)..Len(w) BY <1>0, <1>7
    <3> QED BY <3>1 DEF RowsTile
  <2>5. end \in 0..Len(w) /\ start <= Len(w) BY <1>0, <1>7
  <2>6. Covers(Tiling(w), DecodeFields(c, w, start), head.pos) BY <1>7, <2>1, <2>3, <2>4, <2>5, StructCovers
  <2> QED BY <1>5, <2>6
<1>10. lo + 4 <= q BY <1>7, <1>8
<1>11. TlvBody(w, lo) <= TlvEnd(w, lo) /\ TlvEnd(w, lo) <= q BY <1>2, <1>6, <1>7, <1>8
<1>12. TlvClass(w, lo) # NoClass => Covers(Tiling(w), DecodeFields(TlvClass(w, lo), w, TlvBody(w, lo)), TlvEnd(w, lo))
  BY <1>2, <1>3, <1>6, <1>9
<1>13. q \in Tiling(w)[TlvEnd(w, lo)] BY <1>2, <1>8
<1>14. TilesTlv(Tiling(w), w, lo, q) BY <1>10, <1>11, <1>12, <1>13 DEF TilesTlv
<1> QED BY <1>14, TilesIs

LEMMA HeadTiles ==
    ASSUME NEW w \in Seq(Byte), NEW lo \in Nat, NEW head, head = DecodeParam(DecodeParams(w), w, lo), head.ok,
           RowsTile(w, lo + 1), NEW q, q \in Tiling(w)[head.pos]
    PROVE  q \in Tiling(w)[lo] /\ head.pos \in (lo + 1)..Len(w)
<1>0. Len(w) \in Nat BY LenProperties
<1>1. PICK rest : rest = DecodeParams(w) OBVIOUS
<1>2. head = DecodeParam(rest, w, lo) BY <1>1
<1>3. /\ head.pos \in (lo + 1)..Len(w) /\ lo < Len(w)
      /\ w[lo + 1] >= 128 => head = DecodeTv(w, lo)
      /\ ~(w[lo + 1] >= 128) => head = DecodeTlv(rest, w, lo)
  BY <1>2, HeadIs
<1>4. PICK p \in 0..Len(w) : p = head.pos /\ lo < p BY <1>0, <1>3
<1>5. EndsAt(w, p, q) BY <1>4, EndsAtIs
<1>6. EndsAt(w, head.pos, q) BY <1>4, <1>5
<1>7. Tiles(Tiling(w), w, lo, q)
  <2>1. CASE w[lo + 1] >= 128 BY <1>3, <1>6, <2>1, TvTiles
  <2>2. CASE ~(w[lo + 1] >= 128)
    <3>1. head = DecodeTlv(DecodeParams(w), w, lo) BY <1>1, <1>3, <2>2
    <3> QED BY <1>6, <2>2, <3>1, TlvTiles
  <2> QED BY <2>1, <2>2
<1>8. q \in Nat /\ lo <= q /\ q <= Len(w) BY <1>4, <1>5 DEF EndsAt
<1>9. q \in Endings(Tiling(w), w, lo) BY <1>7, <1>8 DEF Endings
<1>10. lo \in 0..Len(w) BY <1>0, <1>3
<1>11. q \in Tiling(w)[lo] BY <1>9, <1>10, TilingIs
<1> QED BY <1>3, <1>11

LEMMA EmptyTiles ==
    ASSUME NEW w \in Seq(Byte), NEW pos \in 0..Len(w)
    PROVE  pos \in Tiling(w)[pos]
<1>0. Len(w) \in Nat BY LenProperties
<1>1. Tiles(Tiling(w), w, pos, pos) BY TilesIs
<1>2. pos \in Nat /\ pos <= pos /\ pos <= Len(w) BY <1>0
<1>3. pos \in Endings(Tiling(w), w, pos) BY <1>1, <1>2 DEF Endings
<1> QED BY <1>3, TilingIs

\* Where the parameters behind a first one end.
LEMMA BeforeEnds ==
    ASSUME NEW head, NEW tail, NEW r, r = Before(head, tail), r.ok
    PROVE  tail.ok /\ r.pos = tail.pos
<1>1. tail.ok
  <2> SUFFICES ASSUME ~tail.ok PROVE FALSE OBVIOUS
  <2>1. r = Failed BY DEF Before
  <2> QED BY <2>1 DEF Failed
<1>2. r = Parsed(tail.pos, head.val \o tail.val) BY <1>1 DEF Before
<1> QED BY <1>1, <1>2 DEF Parsed

LEMMA TileStep ==
    ASSUME NEW w \in Seq(Byte), NEW pos \in 0..Len(w), NEW end \in 0..Len(w), RowsTile(w, pos + 1),
           NEW r, r = DecodeParams(w)[pos][end]
    PROVE  RowTiles(w, pos, r)
<1>0. Len(w) \in Nat /\ pos \in Nat BY LenProperties
<1>1. PICK g : g = DecodeParams(w) OBVIOUS
<1>2. r = DecodeNext(g, w, pos, end) BY <1>1, DecodedIs
<1>3. CASE pos >= end
  <2>1. r = Parsed(pos, <<>>) BY <1>2, <1>3 DEF DecodeNext
  <2>2. r.pos = pos BY <2>1 DEF Parsed
  <2> QED BY <2>2, EmptyTiles DEF RowTiles
<1>4. CASE ~(pos >= end)
  <2> SUFFICES ASSUME r.ok PROVE r.pos \in Tiling(w)[pos] BY DEF RowTiles
  <2>1. PICK head : head = DecodeParam(g, w, pos) OBVIOUS
  <2>2. PICK tail : tail = g[head.pos][end] OBVIOUS
  <2>3. head.ok /\ r = Before(head, tail) BY <1>2, <1>4, <2>1, <2>2, NextIs
  <2>4. tail.ok /\ r.pos = tail.pos
    <3>1. r = Before(head, tail) /\ r.ok BY <2>3
    <3> QED BY <3>1, BeforeEnds
  <2>5. head.pos \in (pos + 1)..Len(w) BY <1>0, <2>1, <2>3, HeadIs
  <2>6. RowTiles(w, head.pos, tail) BY <1>1, <2>2, <2>5 DEF RowsTile
  <2>7. r.pos \in Tiling(w)[head.pos] BY <2>4, <2>6 DEF RowTiles
  <2>8. head = DecodeParam(DecodeParams(w), w, pos) BY <1>1, <2>1
  <2>9. PICK q : q = r.pos OBVIOUS
  <2>10. q \in Tiling(w)[head.pos] BY <2>7, <2>9
  <2>11. q \in Tiling(w)[pos] BY <1>0, <2>3, <2>8, <2>10, HeadTiles
  <2> QED BY <2>9, <2>11
<1> QED BY <1>3, <1>4

LEMMA AllRowsTile ==
    ASSUME NEW w \in Seq(Byte)
    PROVE  \A lo \in Nat : RowsTile(w, lo)
<1>0. PICK L \in Nat : L = Len(w) BY LenProperties
<1> DEFINE N == {n \in Nat : \A lo \in Nat : L < lo + n => RowsTile(w, lo)}
<1>1. 0 \in N
  <2>1. ASSUME NEW lo \in Nat, L < lo + 0 PROVE RowsTile(w, lo)
    <3>1. lo..L = {} BY <2>1
    <3> QED BY <1>0, <3>1 DEF RowsTile
  <2> QED BY <2>1
<1>2. ASSUME NEW n \in Nat, n \in N PROVE n + 1 \in N
  <2>1. ASSUME NEW lo \in Nat, L < lo + (n + 1), NEW pos \in lo..L, NEW end \in 0..L
        PROVE  RowTiles(w, pos, DecodeParams(w)[pos][end])
    <3>1. pos \in 0..L /\ pos + 1 \in Nat /\ L < (pos + 1) + n BY <2>1
    <3>2. RowsTile(w, pos + 1) BY <1>2, <3>1
    <3>3. PICK r : r = DecodeParams(w)[pos][end] OBVIOUS
    <3>4. RowTiles(w, pos, r) BY <1>0, <3>1, <3>2, <3>3, TileStep
    <3> QED BY <3>3, <3>4
  <2>2. \A lo \in Nat : L < lo + (n + 1) => RowsTile(w, lo) BY <1>0, <2>1 DEF RowsTile
  <2> QED BY <2>2
<1>3. Nat \subseteq N
  <2> HIDE DEF N
  <2> QED BY <1>1, <1>2, InductNat
<1>4. PICK m \in Nat : m = L + 1 OBVIOUS
<1>5. m \in N
  <2> HIDE DEF N
  <2> QED BY <1>3
<1>6. \A lo \in Nat : L < lo + m BY <1>4
<1> QED BY <1>5, <1>6

\* A known message that was decoded is framed.
LEMMA KnownFramed ==
    ASSUME NEW w \in Seq(Byte), NEW c \in DOMAIN Classes, IsMessage(c), NEW id,
           NEW start, start = MessageBegin(c), start <= Len(w), NEW end, end = Len(w),
           NEW r, r = DecodeStruct(DecodeParams(w), c, id, w, start, end), r.ok, r.pos = end
    PROVE  Framed(w, r)
<1>0. Len(w) \in Nat BY LenProperties
<1>1. end \in 0..Len(w) /\ end \in Nat BY <1>0
<1>2. start \in Nat
  <2>1. PICK y : y = [cls |-> c] OBVIOUS
  <2>2. y.cls = c BY <2>1
  <2> QED BY <2>2, BeginIs
<1>3. PICK n \in Nat : n = Len(w) BY <1>0
<1>4. PICK e : e = Below(n) OBVIOUS
<1>5. RowsFit(e, w, start) BY <1>2, <1>3, <1>4, DeepRows
<1>6. PICK x : Made(e, c, id, start, r, x) BY <1>1, <1>2, <1>5, StructMade
<1>7. x.cls = c /\ r = Ok(r.pos, x) BY <1>6 DEF Made
<1>8. PICK q : q = r.pos OBVIOUS
<1>9. r.val[1] = x BY <1>7, <1>8, OkIs
<1>10. PICK m \in Nat : m = Len(Prefix(x)) /\ start = 10 + m BY <1>7, BeginIs
<1>11. RowsTile(w, start) BY <1>2, AllRowsTile
<1>12. Covers(Tiling(w), DecodeFields(c, w, start), r.pos) BY <1>1, <1>2, <1>11, StructCovers
<1>13. Covers(Tiling(w), DecodeFields(x.cls, w, 10 + Len(Prefix(x))), Len(w)) BY <1>7, <1>10, <1>12
<1>14. IsMessage(x.cls) BY <1>7
<1> QED BY <1>9, <1>13, <1>14 DEF Framed

\* A message of no class is all payload.
LEMMA UnknownFramed ==
    ASSUME NEW w, NEW x, x.cls \in {"UnknownMessage", "UnknownCustomMessage"}, NEW n, NEW r, r = Ok(n, x)
    PROVE  Framed(w, r)
<1>1. r.val[1] = x BY OkIs
<1>2. x.cls \in Unknown /\ IsMessage(x.cls) BY DEF Unknown, IsMessage
<1> QED BY <1>1, <1>2 DEF Framed

LEMMA VendorFramed ==
    ASSUME NEW w \in Seq(Byte), LengthSmall(w), NEW id,
           NEW r, r = DecodeBody(w, TYPE_CUSTOM, id), r.ok, r.pos = Len(w)
    PROVE  Framed(w, r)
<1>0. Len(w) \in Nat BY LenProperties
<1>1. Len(w) >= 15 /\ r = DecodeCustom(w, id)
  <2>1. CASE Len(w) < 15
    <3>1. r = Failed BY <2>1 DEF DecodeBody
    <3> QED BY <3>1 DEF Failed
  <2>2. CASE ~(Len(w) < 15) BY <1>0, <2>2 DEF DecodeBody
  <2> QED BY <2>1, <2>2
<1>2. PICK key : key = SubSeq(w, 11, 15) OBVIOUS
<1>3. CASE key \in DOMAIN CUSTOM_MESSAGE_REGISTRY
  <2>1. PICK c : c = CUSTOM_MESSAGE_REGISTRY[key] OBVIOUS
  <2>2. PICK start \in Nat : start = 15 OBVIOUS
  <2>3. PICK end : end = Len(w) OBVIOUS
  <2>4. r = DecodeStruct(DecodeParams(w), c, id, w, start, end) BY <1>1, <1>2, <1>3, <2>1, <2>2, <2>3 DEF DecodeCustom
  <2>5. c \in DOMAIN Classes /\ Classes[c].kind = "custommsg" /\ IsMessage(c) BY <1>3, <2>1, VendorMessageClassIs
  <2>6. start = MessageBegin(c) /\ start <= Len(w) BY <1>0, <1>1, <2>2, <2>5 DEF MessageBegin
  <2> QED BY <2>3, <2>4, <2>5, <2>6, KnownFramed
<1>4. CASE key \notin DOMAIN CUSTOM_MESSAGE_REGISTRY
  <2>1. PICK x : x = Struct("UnknownCustomMessage", id \o key, <<SubSeq(w, 16, Len(w))>>, <<>>, <<>>) OBVIOUS
  <2>2. r = Ok(Len(w), x) BY <1>1, <1>2, <1>4, <2>1 DEF DecodeCustom
  <2>3. x.cls \in {"UnknownMessage", "UnknownCustomMessage"} BY <2>1 DEF Struct
  <2>4. PICK n : n = Len(w) OBVIOUS
  <2>5. r = Ok(n, x) BY <2>2, <2>4
  <2> QED BY <2>3, <2>5, UnknownFramed
<1> QED BY <1>3, <1>4

LEMMA StandardFramed ==
    ASSUME NEW w \in Seq(Byte), LengthSmall(w), NEW id,
           NEW t, IsStandard(t), NEW r, r = DecodeBody(w, t, id), r.ok, r.pos = Len(w)
    PROVE  Framed(w, r)
<1>0. Len(w) \in Nat BY LenProperties
<1>3. t \in 0..1022 /\ ~(t = TYPE_CUSTOM) BY DEF IsStandard
<1>1. CASE t \in DOMAIN MESSAGE_REGISTRY
  <2>1. PICK c : c = MESSAGE_REGISTRY[t] OBVIOUS
  <2>2. PICK start \in Nat : start = 10 OBVIOUS
  <2>3. PICK end : end = Len(w) OBVIOUS
  <2>4. r = DecodeStruct(DecodeParams(w), c, id, w, start, end) BY <1>1, <1>3, <2>1, <2>2, <2>3 DEF DecodeBody
  <2>5. c \in DOMAIN Classes /\ Classes[c].kind = "msg" /\ IsMessage(c) BY <1>1, <2>1, MessageClassIs
  <2>6. start = MessageBegin(c) /\ start <= Len(w) BY <1>0, <2>2, <2>5 DEF MessageBegin, LengthSmall
  <2> QED BY <2>3, <2>4, <2>5, <2>6, KnownFramed
<1>2. CASE t \notin DOMAIN MESSAGE_REGISTRY
  <2>1. PICK x : x = Struct("UnknownMessage", id \o PutU16(t), <<SubSeq(w, 11, Len(w))>>, <<>>, <<>>) OBVIOUS
  <2>2. r = Ok(Len(w), x) BY <1>2, <1>3, <2>1 DEF DecodeBody
  <2>3. x.cls \in {"UnknownMessage", "UnknownCustomMessage"} BY <2>1 DEF Struct
  <2>4. PICK n : n = Len(w) OBVIOUS
  <2>5. r = Ok(n, x) BY <2>2, <2>4
  <2> QED BY <2>3, <2>5, UnknownFramed
<1> QED BY <1>1, <1>2

LEMMA MessageFramed ==
    ASSUME NEW w \in Seq(Byte), NEW r, r = DecodeMessage(w), r.ok
    PROVE  Framed(w, r)
<1>1. PICK id : id = <<(w[1] \div 4) % 8>> \o SubSeq(w, 7, 10) OBVIOUS
<1>2. PICK t : t = U16(w, 0) % 1024 OBVIOUS
<1>3. HeaderSays(w, r, t, id) BY <1>1, <1>2, DecodedMessageIs, ZenonT(60)
<1>4. LengthSmall(w) /\ t \in 0..1023 /\ r = DecodeBody(w, t, id) /\ r.pos = Len(w) BY <1>3 DEF HeaderSays
<1>5. CASE t = TYPE_CUSTOM
  <2>1. r = DecodeBody(w, TYPE_CUSTOM, id) BY <1>4, <1>5
  <2> QED BY <1>4, <2>1, VendorFramed
<1>6. CASE ~(t = TYPE_CUSTOM)
  <2>1. t # 1023 BY <1>6 DEF TYPE_CUSTOM
  <2>2. t \in 0..1022 BY <1>4, <2>1
  <2>3. IsStandard(t) BY <1>6, <2>2 DEF IsStandard
  <2> QED BY <1>4, <2>3, StandardFramed
<1> QED BY <1>5, <1>6

LEMMA ParameterFramed ==
    ASSUME NEW w \in Seq(Byte), NEW r, r = DecodeParam(DecodeParams(w), w, 0), r.ok
    PROVE  Framed(w, r)
<1>1. PICK n \in Nat : n = Len(w) BY LenProperties
<1>2. PICK e : e = Below(n) OBVIOUS
<1>3. PICK pos \in Nat : pos = 0 OBVIOUS
<1>4. PICK lo \in Nat : lo = pos + 1 OBVIOUS
<1>5. RowsFit(e, w, pos + 1)
  <2>1. RowsFit(e, w, lo) BY <1>1, <1>2, DeepRows
  <2> QED BY <1>4, <2>1
<1>6. RowsTile(w, pos + 1)
  <2>1. RowsTile(w, lo) BY AllRowsTile
  <2> QED BY <1>4, <2>1
<1>7. r = DecodeParam(DecodeParams(w), w, pos) BY <1>3
<1>8. PICK x : HeadOf(e, pos, r, x) BY <1>5, <1>7, HeadFits
<1>9. ~IsMessage(x.cls) /\ r = Ok(r.pos, x) BY <1>8 DEF HeadOf
<1>10. PICK q : q = r.pos OBVIOUS
<1>11. r.val[1] = x
  <2>1. r = Ok(q, x) BY <1>9, <1>10
  <2> QED BY <2>1, OkIs
<1>12. pos < Len(w) /\ r.pos \in (pos + 1)..Len(w) BY <1>5, <1>7, HeadFits
<1>13. q \in 0..Len(w) BY <1>1, <1>10, <1>12
<1>14. q \in Tiling(w)[r.pos]
  <2>1. q \in Tiling(w)[q] BY <1>13, EmptyTiles
  <2> QED BY <1>10, <2>1
<1>15. q \in Tiling(w)[pos] BY <1>6, <1>7, <1>14, HeadTiles
<1>16. r.pos \in Tiling(w)[0] BY <1>3, <1>10, <1>15
<1> QED BY <1>9, <1>11, <1>16 DEF Framed

\* Whatever bytes arrive, altered in whatever way: they are accepted only when every length
\* in them, at every depth, is the length of what it frames.
THEOREM LengthsFrame == WireSpec => []Strict
<1>1. Arriving => Strict
  <2> SUFFICES ASSUME Arriving PROVE Strict OBVIOUS
  <2>1. PICK w \in Seq(Byte) : w = bytes BY DEF Arriving
  <2>2. PICK r : r = Decode(w) OBVIOUS
  <2>3. CASE ~r.ok BY <2>1, <2>2, <2>3 DEF Strict, StrictOf
  <2>4. CASE r.ok /\ IsMessage(original.cls)
    <3>1. r = DecodeMessage(w) BY <2>2, <2>4 DEF Decode
    <3>2. Framed(w, r) BY <2>4, <3>1, MessageFramed
    <3> QED BY <2>1, <2>2, <3>2 DEF Strict, StrictOf
  <2>5. CASE r.ok /\ ~IsMessage(original.cls)
    <3>1. r = DecodeParam(DecodeParams(w), w, 0) BY <2>2, <2>5 DEF Decode
    <3>2. Framed(w, r) BY <2>5, <3>1, ParameterFramed
    <3> QED BY <2>1, <2>2, <3>2 DEF Strict, StrictOf
  <2> QED BY <2>3, <2>4, <2>5
<1> QED BY <1>1, ArrivingInvariant, PTL

-----------------------------------------------------------------------------
(***************************************************************************)
(* The inductive invariant.                                                *)
(***************************************************************************)

InTransact(t) == pc[t] \in {"waiting", "goodbye"}
Connecting(t) == pc[t] \in {"opening", "handshake"}

\* One transport, and every reference of the object is to it.
TransportInv ==
    /\ OneTransport
    /\ writer # 0 => writer = conn /\ readTask = writer
    /\ loops \subseteq {readTask}

\* Tasks connect one at a time, and only while there is no transport.
ConnectInv ==
    /\ \A t, u \in Tasks : Connecting(t) /\ Connecting(u) => t = u
    /\ \A t \in Tasks : pc[t] = "opening" =>
         writer = 0 /\ closeExc = "none" /\ conn < MaxConn
    /\ \A t \in Tasks : pc[t] = "handshake" =>
         connEvent # "none" /\ (connEvent = "undone" => writer # 0)

\* A task holds a transaction and a future exactly while it is in transact;
\* the transactions of two tasks differ, and a message ID is its transaction.
TransactInv ==
    /\ nextId = issued
    /\ \A t \in Tasks :
         /\ InTransact(t) <=> tok[t] # 0
         /\ tok[t] = 0 <=> fut[t] = "none"
         /\ mid[t] = tok[t]
         /\ tok[t] <= issued
    /\ \A t, u \in Tasks : tok[t] # 0 /\ tok[t] = tok[u] => t = u

\* What is registered waits, and what waits is registered.
PendingInv ==
    /\ \A i \in Ids : pending[i] # 0 =>
         \E t \in Tasks : tok[t] = pending[i] /\ mid[t] = i /\ fut[t] = "undone"
    /\ \A t \in Tasks : fut[t] = "undone" => pending[mid[t]] = tok[t] /\ writer # 0

\* Requests and responses in flight carry the ID of their transaction.
WireInv ==
    /\ \A r \in wire : r.id = r.tok
    /\ \A i \in 1..Len(inbox) : inbox[i].kind = "response" =>
         inbox[i].id \in Ids /\ inbox[i].id = inbox[i].tok

\* The strengthening of TypeOK, Correlated, WaitersReachable,
\* NoLeakedRegistration, OneTransport and CleanClose.
Inv == /\ TypeOK
       /\ TransportInv
       /\ ConnectInv
       /\ TransactInv
       /\ PendingInv
       /\ WireInv
       /\ Correlated
       /\ CleanClose

-----------------------------------------------------------------------------
(***************************************************************************)
(* Facts about the operators.                                              *)
(***************************************************************************)

USE MaxIdAssumption, CapacityAssumption, ChatterAssumption, BoundsAssumption,
    NoWrapAssumption

\* Offering an entry to a queue within its capacity keeps it there.
LEMMA OfferBounded ==
    ASSUME NEW S, NEW q \in Seq(S), NEW m \in S, NEW cap \in Nat \ {0},
           Len(q) <= cap
    PROVE  /\ Offer(q, m, cap) \in Seq(S)
           /\ Len(Offer(q, m, cap)) <= cap
<1>1. CASE IsFull(q, cap)
    <2>1. q # <<>>
        BY <1>1 DEF IsFull
    <2>2. Tail(q) \in Seq(S) /\ Len(Tail(q)) = Len(q) - 1
        BY <2>1
    <2> QED
        BY <1>1, <2>2 DEF Offer, IsFull
<1>2. CASE ~IsFull(q, cap)
    BY <1>2 DEF Offer, IsFull
<1> QED
    BY <1>1, <1>2

\* Below MaxId the next message ID is the successor: never 0.
LEMMA AllocIdIsNext ==
    ASSUME nextId \in Nat, nextId < MaxId
    PROVE  AllocId = nextId + 1 /\ AllocId \in Ids
<1>1. nextId % MaxId = nextId
    OBVIOUS
<1> QED
    BY <1>1 DEF AllocId, Ids

-----------------------------------------------------------------------------
(***************************************************************************)
(* Init => Inv.                                                            *)
(***************************************************************************)

LEMMA InitInv == Init => Inv
<1> SUFFICES ASSUME Init PROVE Inv
    OBVIOUS
<1> USE DEF Init
<1>1. TypeOK
    <2>1. ObjectType
        <3>1. pending \in [Ids -> Toks]
            BY DEF Toks
        <3>2. closing \in BOOLEAN
            OBVIOUS
        <3>3. writer \in 0..conn /\ readTask \in 0..conn /\ nextId \in 0..MaxId
            OBVIOUS
        <3> QED
            BY <3>1, <3>2, <3>3 DEF ObjectType
    <2>2. CallType
        BY DEF CallType, Toks
    <2>3. MailboxType
        BY DEF MailboxType
    <2>4. NetworkType
        BY DEF NetworkType
    <2> QED
        BY <2>1, <2>2, <2>3, <2>4 DEF TypeOK
<1>2. TransportInv /\ ConnectInv /\ TransactInv /\ PendingInv
    BY DEF TransportInv, OneTransport, ConnectInv, Connecting, TransactInv,
           InTransact, PendingInv, Ids
<1>3. WireInv /\ Correlated /\ CleanClose
    BY DEF WireInv, Correlated, CleanClose
<1> QED
    BY <1>1, <1>2, <1>3 DEF Inv

-----------------------------------------------------------------------------
(***************************************************************************)
(* Every step preserves each part of Inv.                                  *)
(***************************************************************************)

USE DEF object, mailbox, calls, network, vars

\* Which parts of the state an action may leave alone.
LEMMA MailboxStep == Inv /\ [Next]_vars => MailboxType'
<1> SUFFICES ASSUME Inv, [Next]_vars PROVE MailboxType'
    OBVIOUS
<1> USE DEF Inv, TypeOK
<1>1. ASSUME UNCHANGED mailbox PROVE MailboxType'
    BY <1>1 DEF MailboxType
<1>2. ASSUME NEW t \in Tasks, Connect(t) \/ Transact(t) \/ Close(t)
      PROVE  UNCHANGED mailbox
    BY <1>2 DEF Connect, ConnectStart, OpenFails, OpenSucceeds,
       HandshakeAccepted, HandshakeFails, Transact, TransactStart,
       TransactReturns, TransactGivesUp, Close, CloseStart, GoodbyeEnds, CloseNow
<1>3. ASSUME NEW qs, Deliver(qs) PROVE MailboxType'
    <2>2. ASSUME NEW q \in Queues
          PROVE  /\ Offer(queue[q], arrived[q] + 1, Capacity[q]) \in Seq(Nat)
                 /\ Len(Offer(queue[q], arrived[q] + 1, Capacity[q])) <= Capacity[q]
        <3>1. arrived[q] + 1 \in Nat
            BY DEF MailboxType
        <3> QED
            BY <3>1, OfferBounded DEF MailboxType
    <2>3. queue' \in [Queues -> Seq(Nat)]
          /\ \A q \in Queues : Len(queue'[q]) <= Capacity[q]
        BY <1>3, <2>2 DEF Deliver, MailboxType
    <2>4. dropped' \in [Queues -> Nat] /\ arrived' \in [Queues -> Nat]
          /\ taken' \in [Queues -> Nat]
        BY <1>3 DEF Deliver, MailboxType, OfferDrops
    <2> QED
        BY <2>3, <2>4 DEF MailboxType
<1>4. ASSUME NEW c \in loops, ReadLoop(c)
      PROVE  UNCHANGED mailbox \/ \E qs : Deliver(qs)
    BY <1>4 DEF ReadLoop, DispatchKeepalive, DispatchReport, DispatchConnEvent,
       DispatchNotification, DispatchResponse, DispatchUnmatched, LoopEnds,
       LoopBreaks, LoopStops
<1>5. ASSUME NEW q \in Queues, Take(q) PROVE MailboxType'
    <2>1. Tail(queue[q]) \in Seq(Nat) /\ Len(Tail(queue[q])) = Len(queue[q]) - 1
        BY <1>5 DEF Take, MailboxType
    <2>2. queue' \in [Queues -> Seq(Nat)]
        BY <1>5, <2>1, Zenon DEF Take, MailboxType
    <2>3. ASSUME NEW r \in Queues PROVE Len(queue'[r]) <= Capacity[r]
        <3>1. Len(queue[r]) \in Nat /\ Capacity[r] \in Nat
            BY DEF MailboxType
        <3>2. CASE r = q
            <4>1. queue'[q] = Tail(queue[q]) /\ Len(queue[q]) <= Capacity[q]
                BY <1>5 DEF Take, MailboxType
            <4> QED
                BY <2>1, <3>1, <3>2, <4>1
        <3>3. CASE r # q
            BY <1>5, <3>3 DEF Take, MailboxType
        <3> QED
            BY <3>2, <3>3
    <2>4. taken' \in [Queues -> Nat] /\ UNCHANGED <<dropped, arrived>>
        BY <1>5 DEF Take, MailboxType
    <2> QED
        BY <2>2, <2>3, <2>4 DEF MailboxType
<1>6. ASSUME Peer \/ UNCHANGED vars PROVE UNCHANGED mailbox
    BY <1>6 DEF Peer, PeerSends, PeerReplies, PeerHangsUp
<1> QED
    BY <1>1, <1>2, <1>3, <1>4, <1>5, <1>6 DEF Next

\* Leaving connect, transact or close keeps the types of the tasks' state.
LEMMA LeaveType ==
    ASSUME CallType, NEW t \in Tasks, NEW f, Leave(t, f), UNCHANGED issued,
           f \in [Tasks -> {"none", "undone", "reply", "failed"}]
    PROVE  CallType'
BY DEF CallType, Leave, Toks

LEMMA FailRegisteredType ==
    ASSUME CallType
    PROVE  FailRegistered \in [Tasks -> {"none", "undone", "reply", "failed"}]
BY DEF CallType, FailRegistered

\* What the read loop reads is a message.
LEMMA IncomingType ==
    ASSUME inbox \in Seq(Msg), inbox # <<>>
    PROVE  Incoming \in Msg /\ Tail(inbox) \in Seq(Msg)
BY DEF Incoming

LEMMA CallStep == Inv /\ [Next]_vars => CallType'
<1> SUFFICES ASSUME Inv, [Next]_vars PROVE CallType'
    OBVIOUS
<1> USE DEF Inv, TypeOK
<1>0. ASSUME UNCHANGED calls PROVE CallType'
    BY <1>0 DEF CallType
<1>1. ASSUME NEW t \in Tasks, Connect(t) PROVE CallType'
    <2>1. CASE ConnectStart(t) \/ OpenFails(t) \/ OpenSucceeds(t) \/ HandshakeAccepted(t)
        BY <2>1 DEF ConnectStart, OpenFails, OpenSucceeds, HandshakeAccepted, CallType
    <2>2. CASE HandshakeFails(t)
        BY <2>2, LeaveType, FailRegisteredType DEF HandshakeFails
    <2> QED
        BY <1>1, <2>1, <2>2 DEF Connect
<1>2. ASSUME NEW t \in Tasks, Issue(t), NEW s \in {"waiting", "goodbye"},
             pc' = [pc EXCEPT ![t] = s]
      PROVE  CallType'
    <2>1. AllocId \in Ids /\ issued + 1 \in Toks
        BY <1>2, AllocIdIsNext DEF Issue, TransactInv, CallType, Toks
    <2> QED
        BY <1>2, <2>1 DEF Issue, CallType, Ids
<1>3. ASSUME NEW t \in Tasks, Transact(t) PROVE CallType'
    <2>1. CASE TransactStart(t)
        BY <1>2, <2>1 DEF TransactStart
    <2>2. CASE TransactReturns(t) \/ TransactGivesUp(t)
        BY <2>2, LeaveType DEF TransactReturns, TransactGivesUp, CallType
    <2> QED
        BY <1>3, <2>1, <2>2 DEF Transact
<1>4. ASSUME NEW t \in Tasks, Close(t) PROVE CallType'
    <2>1. CASE CloseStart(t)
        BY <1>2, <2>1 DEF CloseStart
    <2>2. CASE GoodbyeEnds(t)
        BY <2>2, LeaveType, FailRegisteredType DEF GoodbyeEnds
    <2>3. CASE CloseNow(t)
        BY <2>3, FailRegisteredType DEF CloseNow, CallType
    <2> QED
        BY <1>4, <2>1, <2>2, <2>3 DEF Close
<1>5. ASSUME NEW c \in loops, ReadLoop(c) PROVE CallType'
    <2>1. CASE UNCHANGED calls
        BY <1>0, <2>1
    <2>2. CASE DispatchResponse(c)
        <3>1. Incoming.tok \in Toks
            BY <2>2, IncomingType DEF DispatchResponse, Reads, NetworkType, Msg
        <3> QED
            BY <2>2, <3>1 DEF DispatchResponse, CallType
    <2>3. ASSUME NEW exc, LoopStops(c, exc) PROVE CallType'
        BY <2>3, FailRegisteredType DEF LoopStops, CallType
    <2> QED
        BY <1>5, <2>1, <2>2, <2>3 DEF ReadLoop, DispatchKeepalive, DispatchReport,
           DispatchConnEvent, DispatchNotification, DispatchUnmatched, LoopEnds,
           LoopBreaks
<1>6. ASSUME NEW q \in Queues, Take(q) PROVE CallType'
    BY <1>0, <1>6 DEF Take
<1>7. CASE Peer \/ UNCHANGED vars
    BY <1>0, <1>7 DEF Peer, PeerSends, PeerReplies, PeerHangsUp
<1> QED
    BY <1>1, <1>3, <1>4, <1>5, <1>6, <1>7 DEF Next

\* _shutdown() keeps the types of the object and of the network.
LEMMA ShutdownType ==
    ASSUME TypeOK, NEW exc \in {"none", "lost", "protocol"}, Shutdown(exc),
           UNCHANGED <<closing, nextId, conn, sent>>,
           readTask' \in {0, readTask}, loops' \subseteq loops
    PROVE  ObjectType' /\ NetworkType'
<1>1. ObjectType'
    <2>1. pending' \in [Ids -> Toks]
        BY DEF Shutdown, Toks
    <2>2. /\ writer' \in 0..conn' /\ readTask' \in 0..conn'
          /\ closeExc' \in {"none", "lost", "protocol"}
        BY DEF TypeOK, NetworkType, ObjectType, Shutdown
    <2>3. /\ connEvent' \in ConnEvents \cup {"none", "undone", "failed"}
          /\ closing' \in BOOLEAN /\ nextId' \in 0..MaxId
        BY DEF TypeOK, ObjectType, Shutdown
    <2> QED
        BY <2>1, <2>2, <2>3 DEF ObjectType
<1>2. NetworkType'
    <2>1. sockets' \subseteq 1..conn' /\ loops' \subseteq 1..conn'
        BY DEF TypeOK, NetworkType, Shutdown
    <2>2. inbox' \in Seq(Msg) /\ wire' \subseteq [id : Ids, tok : Toks]
        BY DEF Shutdown
    <2> QED
        BY <2>1, <2>2 DEF TypeOK, NetworkType
<1> QED
    BY <1>1, <1>2

LEMMA ObjectNetworkStep == Inv /\ [Next]_vars => ObjectType' /\ NetworkType'
<1> SUFFICES ASSUME Inv, [Next]_vars PROVE ObjectType' /\ NetworkType'
    OBVIOUS
<1> USE DEF Inv, TypeOK
<1>0. ASSUME UNCHANGED <<object, network>> PROVE ObjectType' /\ NetworkType'
    BY <1>0 DEF ObjectType, NetworkType
<1>1. ASSUME Abort, UNCHANGED <<closing, nextId, conn, sent>>
      PROVE  ObjectType' /\ NetworkType'
    BY <1>1, ShutdownType DEF Abort
<1>2. ASSUME NEW t \in Tasks, Connect(t) PROVE ObjectType' /\ NetworkType'
    <2>1. CASE ConnectStart(t)
        BY <2>1 DEF ConnectStart, ObjectType, NetworkType
    <2>2. CASE OpenSucceeds(t)
        <3>1. conn + 1 \in 0..MaxConn /\ conn \in Nat
            BY <2>2 DEF OpenSucceeds, ConnectInv, NetworkType
        <3>2. ObjectType'
            BY <2>2, <3>1 DEF OpenSucceeds, ObjectType
        <3>3. NetworkType'
            BY <2>2, <3>1 DEF OpenSucceeds, NetworkType
        <3> QED
            BY <3>2, <3>3
    <2>3. CASE OpenFails(t) \/ HandshakeAccepted(t)
        BY <1>0, <2>3 DEF OpenFails, HandshakeAccepted
    <2>4. CASE HandshakeFails(t)
        BY <1>1, <2>4 DEF HandshakeFails
    <2> QED
        BY <1>2, <2>1, <2>2, <2>3, <2>4 DEF Connect
<1>3. ASSUME NEW t \in Tasks, Issue(t), closing' \in BOOLEAN,
             UNCHANGED <<writer, closeExc, connEvent, readTask, sockets, loops,
                         conn, inbox, sent>>
      PROVE  ObjectType' /\ NetworkType'
    <2>1. AllocId \in Ids /\ issued + 1 \in Toks
        BY <1>3, AllocIdIsNext DEF Issue, TransactInv, CallType, Toks
    <2>2. ObjectType'
        BY <1>3, <2>1 DEF Issue, ObjectType, Ids
    <2>3. [id |-> AllocId, tok |-> issued + 1] \in [id : Ids, tok : Toks]
        BY <2>1
    <2>4. NetworkType'
        BY <1>3, <2>3 DEF Issue, NetworkType
    <2> QED
        BY <2>2, <2>4
<1>4. ASSUME NEW t \in Tasks, Transact(t) PROVE ObjectType' /\ NetworkType'
    <2>1. CASE TransactStart(t)
        BY <1>3, <2>1 DEF TransactStart, ObjectType
    <2>2. CASE TransactReturns(t) \/ TransactGivesUp(t)
        <3>1. pending' \in [Ids -> Toks]
            BY <2>2 DEF TransactReturns, TransactGivesUp, Unregister, ObjectType, Toks
        <3> QED
            BY <2>2, <3>1 DEF TransactReturns, TransactGivesUp, ObjectType, NetworkType
    <2> QED
        BY <1>4, <2>1, <2>2 DEF Transact
<1>5. ASSUME NEW t \in Tasks, Close(t) PROVE ObjectType' /\ NetworkType'
    <2>1. CASE CloseStart(t)
        BY <1>3, <2>1 DEF CloseStart
    <2>2. CASE GoodbyeEnds(t) \/ CloseNow(t)
        BY <1>1, <2>2 DEF GoodbyeEnds, CloseNow
    <2> QED
        BY <1>5, <2>1, <2>2 DEF Close
<1>6. ASSUME NEW c \in loops, ReadLoop(c) PROVE ObjectType' /\ NetworkType'
    <2>1. ASSUME NEW kinds, Reads(c, kinds), ObjectType',
                 UNCHANGED <<sockets, loops, conn, wire, sent>>
          PROVE  NetworkType'
        BY <2>1, IncomingType DEF Reads, NetworkType
    <2>2. CASE DispatchKeepalive(c) \/ DispatchReport(c) \/ DispatchNotification(c)
        BY <2>1, <2>2 DEF DispatchKeepalive, DispatchReport, DispatchNotification,
           ObjectType
    <2>3. CASE DispatchConnEvent(c)
        BY <2>1, <2>3 DEF DispatchConnEvent, Reads, ObjectType
    <2>4. CASE DispatchResponse(c) \/ DispatchUnmatched(c)
        <3>1. ObjectType'
            BY <2>4 DEF DispatchResponse, DispatchUnmatched, ObjectType, Toks
        <3> QED
            BY <2>1, <2>4, <3>1 DEF DispatchResponse, DispatchUnmatched
    <2>5. ASSUME NEW exc \in {"none", "lost", "protocol"}, LoopStops(c, exc)
          PROVE  ObjectType' /\ NetworkType'
        BY <2>5, ShutdownType DEF LoopStops
    <2>6. CASE LoopEnds(c) \/ LoopBreaks(c)
        BY <2>5, <2>6 DEF LoopEnds, LoopBreaks
    <2> QED
        BY <1>6, <2>2, <2>3, <2>4, <2>6 DEF ReadLoop
<1>7. ASSUME NEW q \in Queues, Take(q) PROVE ObjectType' /\ NetworkType'
    BY <1>0, <1>7 DEF Take
<1>8. CASE Peer
    <2>1. ASSUME NEW m \in Msg, Send(m) PROVE inbox' \in Seq(Msg)
        BY <2>1 DEF Send, NetworkType
    <2>2. ASSUME NEW k \in Kinds
          PROVE  [kind |-> k, id |-> 0, tok |-> 0] \in Msg
        BY DEF Msg, Toks
    <2>3. ASSUME NEW r \in wire
          PROVE  [kind |-> "response", id |-> r.id, tok |-> r.tok] \in Msg
        BY DEF NetworkType, Msg, Kinds, Ids
    <2>4. inbox' \in Seq(Msg)
        BY <1>8, <2>1, <2>2, <2>3 DEF Peer, PeerSends, PeerReplies, PeerHangsUp, Kinds
    <2>5. sent' \in 0..MaxSent
        <3>1. sent' = sent \/ (sent < MaxSent /\ sent' = sent + 1)
            BY <1>8 DEF Peer, PeerSends, PeerReplies, PeerHangsUp
        <3> QED
            BY <3>1 DEF NetworkType
    <2>6. wire' \subseteq wire /\ UNCHANGED <<object, sockets, loops, conn>>
        BY <1>8 DEF Peer, PeerSends, PeerReplies, PeerHangsUp
    <2> QED
        BY <2>4, <2>5, <2>6 DEF ObjectType, NetworkType
<1>9. CASE UNCHANGED vars
    BY <1>0, <1>9
<1> QED
    BY <1>2, <1>4, <1>5, <1>6, <1>7, <1>8, <1>9 DEF Next

\* _abort() and the end of a read loop leave no transport and no loop.
LEMMA AbortReleases ==
    ASSUME TransportInv, Abort
    PROVE  writer' = 0 /\ sockets' = {} /\ loops' = {}
BY DEF TransportInv, OneTransport, Abort, Shutdown

LEMMA LoopStopsReleases ==
    ASSUME TransportInv, NEW c \in loops, NEW exc, LoopStops(c, exc)
    PROVE  writer' = 0 /\ sockets' = {} /\ loops' = {}
BY DEF TransportInv, OneTransport, LoopStops, Shutdown

LEMMA TransportStep == Inv /\ [Next]_vars => TransportInv'
<1> SUFFICES ASSUME Inv, [Next]_vars PROVE TransportInv'
    OBVIOUS
<1> USE DEF Inv
<1>1. ASSUME UNCHANGED <<writer, closeExc, readTask, sockets, loops, conn>>
      PROVE  TransportInv'
    BY <1>1 DEF TransportInv, OneTransport
<1>2. ASSUME writer' = 0, sockets' = {}, loops' = {} PROVE TransportInv'
    BY <1>2 DEF TransportInv, OneTransport
<1>3. ASSUME NEW t \in Tasks, Connect(t) PROVE TransportInv'
    <2>1. CASE ConnectStart(t)
        BY <2>1 DEF ConnectStart, TransportInv, OneTransport
    <2>2. CASE OpenSucceeds(t)
        <3>1. writer = 0 /\ closeExc = "none" /\ conn \in Nat
            BY <2>2 DEF OpenSucceeds, ConnectInv, TypeOK, NetworkType
        <3> QED
            BY <2>2, <3>1 DEF OpenSucceeds, TransportInv, OneTransport
    <2>3. CASE OpenFails(t) \/ HandshakeAccepted(t)
        BY <1>1, <2>3 DEF OpenFails, HandshakeAccepted
    <2>4. CASE HandshakeFails(t)
        BY <1>2, <2>4, AbortReleases DEF HandshakeFails
    <2> QED
        BY <1>3, <2>1, <2>2, <2>3, <2>4 DEF Connect
<1>4. ASSUME NEW t \in Tasks, Transact(t) \/ CloseStart(t)
      PROVE  UNCHANGED <<writer, closeExc, readTask, sockets, loops, conn>>
    BY <1>4 DEF Transact, TransactStart, TransactReturns, TransactGivesUp, CloseStart
<1>5. ASSUME NEW t \in Tasks, GoodbyeEnds(t) \/ CloseNow(t) PROVE TransportInv'
    BY <1>2, <1>5, AbortReleases DEF GoodbyeEnds, CloseNow
<1>6. ASSUME NEW c \in loops, ReadLoop(c) PROVE TransportInv'
    <2>1. CASE LoopEnds(c) \/ LoopBreaks(c)
        BY <1>2, <2>1, LoopStopsReleases DEF LoopEnds, LoopBreaks
    <2>2. CASE ~(LoopEnds(c) \/ LoopBreaks(c))
        BY <1>1, <1>6, <2>2 DEF ReadLoop, DispatchKeepalive, DispatchReport,
           DispatchConnEvent, DispatchNotification, DispatchResponse,
           DispatchUnmatched
    <2> QED
        BY <2>1, <2>2
<1>7. ASSUME (\E q \in Queues : Take(q)) \/ Peer \/ UNCHANGED vars
      PROVE  UNCHANGED <<writer, closeExc, readTask, sockets, loops, conn>>
    BY <1>7 DEF Take, Peer, PeerSends, PeerReplies, PeerHangsUp
<1> QED
    BY <1>1, <1>3, <1>4, <1>5, <1>6, <1>7 DEF Next, Close

\* Only connect() moves a task into "opening" or "handshake".
LEMMA ConnectStep == Inv /\ [Next]_vars => ConnectInv'
<1> SUFFICES ASSUME Inv, [Next]_vars PROVE ConnectInv'
    OBVIOUS
<1> USE DEF Inv, TypeOK, CallType
<1>1. ASSUME UNCHANGED <<writer, closeExc, connEvent, conn>>,
             \A t \in Tasks : Connecting(t)' => pc'[t] = pc[t]
      PROVE  ConnectInv'
    BY <1>1 DEF ConnectInv, Connecting
<1>2. ASSUME writer' = 0, UNCHANGED conn,
             connEvent' = IF connEvent = "undone" THEN "failed" ELSE connEvent,
             closeExc' = closeExc \/ writer # 0,
             \A t \in Tasks : Connecting(t)' => pc'[t] = pc[t]
      PROVE  ConnectInv'
    BY <1>2 DEF ConnectInv, Connecting
<1>3. ASSUME NEW t \in Tasks, Connect(t) PROVE ConnectInv'
    <2>1. CASE ConnectStart(t)
        BY <2>1 DEF ConnectStart, ConnectInv, Connecting
    <2>2. CASE OpenSucceeds(t)
        <3>1. writer' # 0
            BY <2>2 DEF OpenSucceeds, NetworkType
        <3> QED
            BY <2>2, <3>1 DEF OpenSucceeds, ConnectInv, Connecting
    <2>3. CASE OpenFails(t) \/ HandshakeAccepted(t)
        BY <1>1, <2>3 DEF OpenFails, HandshakeAccepted, Connecting
    <2>4. CASE HandshakeFails(t)
        BY <1>2, <2>4 DEF HandshakeFails, Leave, Abort, Shutdown, Connecting
    <2> QED
        BY <1>3, <2>1, <2>2, <2>3, <2>4 DEF Connect
<1>4. ASSUME NEW t \in Tasks, Transact(t) \/ CloseStart(t) PROVE ConnectInv'
    BY <1>1, <1>4 DEF Transact, TransactStart, TransactReturns, TransactGivesUp,
       CloseStart, Leave, Connecting
<1>5. ASSUME NEW t \in Tasks, GoodbyeEnds(t) \/ CloseNow(t) PROVE ConnectInv'
    BY <1>2, <1>5 DEF GoodbyeEnds, CloseNow, Leave, Abort, Shutdown, Connecting
<1>6. ASSUME NEW c \in loops, ReadLoop(c) PROVE ConnectInv'
    <2>1. CASE LoopEnds(c) \/ LoopBreaks(c)
        <3>1. writer # 0
            BY DEF TransportInv, OneTransport
        <3> QED
            BY <1>2, <2>1, <3>1 DEF LoopEnds, LoopBreaks, LoopStops, Shutdown
    <2>2. CASE DispatchConnEvent(c)
        BY <2>2 DEF DispatchConnEvent, Reads, ConnectInv, Connecting, ConnEvents
    <2>3. CASE ~(LoopEnds(c) \/ LoopBreaks(c) \/ DispatchConnEvent(c))
        BY <1>1, <1>6, <2>3 DEF ReadLoop, DispatchKeepalive, DispatchReport,
           DispatchNotification, DispatchResponse, DispatchUnmatched
    <2> QED
        BY <2>1, <2>2, <2>3
<1>7. ASSUME (\E q \in Queues : Take(q)) \/ Peer \/ UNCHANGED vars
      PROVE  ConnectInv'
    BY <1>1, <1>7 DEF Take, Peer, PeerSends, PeerReplies, PeerHangsUp
<1> QED
    BY <1>3, <1>4, <1>5, <1>6, <1>7 DEF Next, Close

\* Transactions are numbered by Issue and kept until the task leaves.
LEMMA TransactStep == Inv /\ [Next]_vars => TransactInv'
<1> SUFFICES ASSUME Inv, [Next]_vars PROVE TransactInv'
    OBVIOUS
<1> USE DEF Inv, TypeOK, CallType
<1>1. ASSUME UNCHANGED <<nextId, issued, tok, mid>>,
             \A t \in Tasks : InTransact(t)' <=> InTransact(t),
             \A t \in Tasks : fut'[t] = "none" <=> fut[t] = "none"
      PROVE  TransactInv'
    BY <1>1 DEF TransactInv
<1>2. ASSUME NEW t \in Tasks, NEW f, Leave(t, f), UNCHANGED <<nextId, issued>>,
             f \in [Tasks -> {"none", "undone", "reply", "failed"}],
             \A u \in Tasks : f[u] = "none" <=> fut[u] = "none"
      PROVE  TransactInv'
    <2>1. \A u \in Tasks : u # t => /\ tok'[u] = tok[u] /\ mid'[u] = mid[u]
                                   /\ pc'[u] = pc[u] /\ fut'[u] = f[u]
        BY <1>2 DEF Leave
    <2>2. pc'[t] = "idle" /\ tok'[t] = 0 /\ mid'[t] = 0 /\ fut'[t] = "none"
        BY <1>2 DEF Leave
    <2> QED
        BY <1>2, <2>1, <2>2 DEF TransactInv, InTransact, Toks
<1>3. ASSUME NEW t \in Tasks, Issue(t), pc[t] = "idle",
             NEW s \in {"waiting", "goodbye"}, pc' = [pc EXCEPT ![t] = s]
      PROVE  TransactInv'
    <2>1. AllocId = issued + 1 /\ issued \in Nat
        BY <1>3, AllocIdIsNext DEF Issue, TransactInv, Toks
    <2>2. \A u \in Tasks : u # t => /\ tok'[u] = tok[u] /\ mid'[u] = mid[u]
                                   /\ pc'[u] = pc[u] /\ fut'[u] = fut[u]
        BY <1>3 DEF Issue
    <2>3. /\ pc'[t] = s /\ tok'[t] = issued + 1 /\ mid'[t] = issued + 1
          /\ fut'[t] = "undone" /\ nextId' = issued + 1 /\ issued' = issued + 1
        BY <1>3, <2>1 DEF Issue
    <2> QED
        BY <2>1, <2>2, <2>3 DEF TransactInv, InTransact, Toks
<1>4. \A t \in Tasks : FailRegistered[t] = "none" <=> fut[t] = "none"
    BY DEF FailRegistered
<1>5. ASSUME NEW t \in Tasks, Connect(t) PROVE TransactInv'
    <2>1. CASE HandshakeFails(t)
        BY <1>2, <1>4, <2>1, FailRegisteredType DEF HandshakeFails
    <2>2. CASE ~HandshakeFails(t)
        BY <1>1, <1>5, <2>2 DEF Connect, ConnectStart, OpenFails, OpenSucceeds,
           HandshakeAccepted, InTransact
    <2> QED
        BY <2>1, <2>2
<1>6. ASSUME NEW t \in Tasks, Transact(t) PROVE TransactInv'
    BY <1>2, <1>3, <1>6 DEF Transact, TransactStart, TransactReturns, TransactGivesUp
<1>7. ASSUME NEW t \in Tasks, Close(t) PROVE TransactInv'
    <2>1. CASE CloseStart(t)
        BY <1>3, <2>1 DEF CloseStart
    <2>2. CASE GoodbyeEnds(t)
        BY <1>2, <1>4, <2>2, FailRegisteredType DEF GoodbyeEnds
    <2>3. CASE CloseNow(t)
        BY <1>1, <1>4, <2>3 DEF CloseNow, InTransact
    <2> QED
        BY <1>7, <2>1, <2>2, <2>3 DEF Close
<1>8. ASSUME NEW c \in loops, ReadLoop(c) PROVE TransactInv'
    <2>1. CASE LoopEnds(c) \/ LoopBreaks(c)
        BY <1>1, <1>4, <2>1 DEF LoopEnds, LoopBreaks, LoopStops, InTransact
    <2>2. CASE DispatchResponse(c)
        BY <1>1, <2>2 DEF DispatchResponse, Answers, InTransact
    <2>3. CASE ~(LoopEnds(c) \/ LoopBreaks(c) \/ DispatchResponse(c))
        BY <1>1, <1>8, <2>3 DEF ReadLoop, DispatchKeepalive, DispatchReport,
           DispatchConnEvent, DispatchNotification, DispatchUnmatched, InTransact
    <2> QED
        BY <2>1, <2>2, <2>3
<1>9. ASSUME (\E q \in Queues : Take(q)) \/ Peer \/ UNCHANGED vars
      PROVE  TransactInv'
    BY <1>1, <1>9 DEF Take, Peer, PeerSends, PeerReplies, PeerHangsUp, InTransact
<1> QED
    BY <1>5, <1>6, <1>7, <1>8, <1>9 DEF Next

\* A task in a transaction has a message ID that _pending has a place for.
LEMMA MidIsId ==
    ASSUME Inv, NEW t \in Tasks, tok[t] # 0
    PROVE  mid[t] \in Ids /\ mid[t] = tok[t] /\ tok[t] \in Nat
BY DEF Inv, TypeOK, CallType, TransactInv, Toks, Ids

\* _shutdown() fails every future somebody waits for.
LEMMA ShutdownFailsAll ==
    ASSUME Inv
    PROVE  \A t \in Tasks : FailRegistered[t] # "undone"
<1> SUFFICES ASSUME NEW t \in Tasks PROVE FailRegistered[t] # "undone"
    OBVIOUS
<1>1. CASE fut[t] = "undone"
    <2>1. tok[t] # 0 /\ pending[mid[t]] = tok[t]
        BY <1>1 DEF Inv, TransactInv, PendingInv
    <2>2. \E i \in Ids : pending[i] = tok[t]
        BY <2>1, MidIsId
    <2> QED
        BY <2>2 DEF FailRegistered
<1>2. CASE fut[t] # "undone"
    BY <1>2 DEF FailRegistered
<1> QED
    BY <1>1, <1>2

LEMMA PendingStep == Inv /\ [Next]_vars => PendingInv'
<1> SUFFICES ASSUME Inv, [Next]_vars PROVE PendingInv'
    OBVIOUS
<1> USE DEF Inv, TypeOK, CallType
<1>1. ASSUME UNCHANGED <<pending, tok, mid, fut>>, writer # 0 => writer' # 0
      PROVE  PendingInv'
    BY <1>1 DEF PendingInv
<1>2. ASSUME pending' = [i \in Ids |-> 0], \A t \in Tasks : fut'[t] # "undone"
      PROVE  PendingInv'
    BY <1>2 DEF PendingInv
<1>3. ASSUME NEW t \in Tasks, Unregister(t), Leave(t, fut), UNCHANGED writer,
             InTransact(t)
      PROVE  PendingInv'
    <2>1. mid[t] \in Ids /\ mid[t] = tok[t] /\ tok[t] # 0
        BY <1>3, MidIsId DEF TransactInv
    <2>2. /\ \A u \in Tasks : u # t => /\ tok'[u] = tok[u] /\ mid'[u] = mid[u]
                                      /\ fut'[u] = fut[u]
          /\ fut'[t] = "none"
        BY <1>3 DEF Leave
    <2>3. ASSUME NEW i \in Ids, pending'[i] # 0
          PROVE  \E u \in Tasks : tok'[u] = pending'[i] /\ mid'[u] = i /\ fut'[u] = "undone"
        <3>1. i # mid[t] /\ pending'[i] = pending[i]
            BY <1>3, <2>1, <2>3 DEF Unregister, ObjectType
        <3>2. PICK u \in Tasks : tok[u] = pending[i] /\ mid[u] = i /\ fut[u] = "undone"
            BY <2>3, <3>1 DEF PendingInv
        <3> QED
            BY <2>2, <3>1, <3>2
    <2>4. ASSUME NEW u \in Tasks, fut'[u] = "undone"
          PROVE  pending'[mid'[u]] = tok'[u] /\ writer' # 0
        <3>1. u # t /\ fut[u] = "undone"
            BY <2>2, <2>4
        <3>2. tok[u] # 0 /\ mid[u] # mid[t]
            BY <2>1, <3>1 DEF TransactInv
        <3> QED
            BY <1>3, <2>1, <2>2, <3>1, <3>2, MidIsId DEF Unregister, PendingInv, ObjectType
    <2> QED
        BY <2>3, <2>4 DEF PendingInv
<1>4. ASSUME NEW t \in Tasks, Issue(t), pc[t] = "idle", UNCHANGED writer, writer # 0
      PROVE  PendingInv'
    <2>1. AllocId = issued + 1 /\ AllocId \in Ids /\ issued \in Nat
        BY <1>4, AllocIdIsNext DEF Issue, TransactInv, Toks
    <2>2. /\ \A u \in Tasks : u # t => /\ tok'[u] = tok[u] /\ mid'[u] = mid[u]
                                      /\ fut'[u] = fut[u]
          /\ tok'[t] = issued + 1 /\ mid'[t] = issued + 1 /\ fut'[t] = "undone"
          /\ pending' = [pending EXCEPT ![issued + 1] = issued + 1]
        BY <1>4, <2>1 DEF Issue
    <2>3. fut[t] = "none"
        BY <1>4 DEF TransactInv, InTransact
    <2>4. ASSUME NEW i \in Ids, pending'[i] # 0
          PROVE  \E u \in Tasks : tok'[u] = pending'[i] /\ mid'[u] = i /\ fut'[u] = "undone"
        <3>1. CASE i = issued + 1
            BY <2>1, <2>2, <3>1 DEF ObjectType
        <3>2. CASE i # issued + 1
            <4>1. pending'[i] = pending[i]
                BY <2>1, <2>2, <3>2 DEF ObjectType
            <4>2. PICK u \in Tasks : tok[u] = pending[i] /\ mid[u] = i /\ fut[u] = "undone"
                BY <2>4, <4>1 DEF PendingInv
            <4> QED
                BY <2>2, <2>3, <4>1, <4>2
        <3> QED
            BY <3>1, <3>2
    <2>5. ASSUME NEW u \in Tasks, fut'[u] = "undone"
          PROVE  pending'[mid'[u]] = tok'[u] /\ writer' # 0
        <3>1. CASE u = t
            BY <1>4, <2>1, <2>2, <3>1 DEF ObjectType
        <3>2. CASE u # t
            <4>1. fut[u] = "undone" /\ tok[u] # 0
                BY <2>2, <2>5, <3>2 DEF TransactInv
            <4>2. mid[u] \in Ids /\ mid[u] # issued + 1
                BY <2>1, <4>1, MidIsId DEF TransactInv
            <4> QED
                BY <1>4, <2>2, <3>2, <4>1, <4>2 DEF PendingInv, ObjectType
        <3> QED
            BY <3>1, <3>2
    <2> QED
        BY <2>4, <2>5 DEF PendingInv
<1>5. ASSUME NEW t \in Tasks, Connect(t) PROVE PendingInv'
    <2>1. CASE HandshakeFails(t)
        BY <1>2, <2>1, ShutdownFailsAll, FailRegisteredType
        DEF HandshakeFails, Abort, Shutdown, Leave
    <2>2. CASE OpenSucceeds(t)
        BY <1>1, <2>2 DEF OpenSucceeds, NetworkType
    <2>3. CASE ~(HandshakeFails(t) \/ OpenSucceeds(t))
        BY <1>1, <1>5, <2>3 DEF Connect, ConnectStart, OpenFails, HandshakeAccepted
    <2> QED
        BY <2>1, <2>2, <2>3
<1>6. ASSUME NEW t \in Tasks, Transact(t) PROVE PendingInv'
    BY <1>3, <1>4, <1>6 DEF Transact, TransactStart, TransactReturns,
       TransactGivesUp, Connected, InTransact
<1>7. ASSUME NEW t \in Tasks, Close(t) PROVE PendingInv'
    <2>1. CASE CloseStart(t)
        BY <1>4, <2>1 DEF CloseStart, Connected
    <2>2. CASE GoodbyeEnds(t)
        BY <1>2, <2>2, ShutdownFailsAll, FailRegisteredType
        DEF GoodbyeEnds, Abort, Shutdown, Leave
    <2>3. CASE CloseNow(t)
        BY <1>2, <2>3, ShutdownFailsAll DEF CloseNow, Abort, Shutdown
    <2> QED
        BY <1>7, <2>1, <2>2, <2>3 DEF Close
<1>8. ASSUME NEW c \in loops, ReadLoop(c) PROVE PendingInv'
    <2>1. CASE LoopEnds(c) \/ LoopBreaks(c)
        BY <1>2, <2>1, ShutdownFailsAll DEF LoopEnds, LoopBreaks, LoopStops, Shutdown
    <2>2. CASE DispatchResponse(c)
        <3>1. PICK t \in Tasks : /\ Answers(Incoming.id, t)
                                 /\ fut' = [fut EXCEPT ![t] = "reply"]
            BY <2>2 DEF DispatchResponse
        <3>2. tok[t] # 0 /\ mid[t] \in Ids /\ mid[t] = tok[t]
            BY <3>1, MidIsId DEF Answers, TransactInv
        <3>3. Incoming.id \in Ids
            BY <2>2 DEF DispatchResponse, Reads, Incoming, WireInv, NetworkType
        <3>4. mid[t] = Incoming.id
            BY <3>1, <3>2, <3>3 DEF Answers, PendingInv, TransactInv
        <3>5. /\ pending' = [pending EXCEPT ![mid[t]] = 0]
              /\ UNCHANGED <<tok, mid, writer>>
            BY <2>2, <3>4 DEF DispatchResponse
        <3>6. ASSUME NEW i \in Ids, pending'[i] # 0
              PROVE  \E u \in Tasks : tok[u] = pending'[i] /\ mid[u] = i /\ fut'[u] = "undone"
            <4>1. i # mid[t] /\ pending'[i] = pending[i]
                BY <3>2, <3>5, <3>6 DEF ObjectType
            <4>2. PICK u \in Tasks : tok[u] = pending[i] /\ mid[u] = i /\ fut[u] = "undone"
                BY <3>6, <4>1 DEF PendingInv
            <4> QED
                BY <3>1, <4>1, <4>2
        <3>7. ASSUME NEW u \in Tasks, fut'[u] = "undone"
              PROVE  pending'[mid[u]] = tok[u] /\ writer # 0
            <4>1. u # t /\ fut[u] = "undone" /\ tok[u] # 0
                BY <3>1, <3>7 DEF TransactInv
            <4>2. mid[u] \in Ids /\ mid[u] # mid[t]
                BY <3>2, <4>1, MidIsId DEF TransactInv
            <4> QED
                BY <3>5, <4>1, <4>2 DEF PendingInv, ObjectType
        <3> QED
            BY <3>5, <3>6, <3>7 DEF PendingInv
    <2>3. CASE DispatchUnmatched(c)
        <3>1. Incoming.id \in Ids
            BY <2>3 DEF DispatchUnmatched, Reads, Incoming, WireInv, NetworkType
        <3>2. pending[Incoming.id] = 0
            BY <2>3, <3>1 DEF DispatchUnmatched, Answers, PendingInv
        <3>3. pending' = pending
            BY <2>3, <3>1, <3>2 DEF DispatchUnmatched, ObjectType
        <3> QED
            BY <1>1, <2>3, <3>3 DEF DispatchUnmatched
    <2>4. CASE ~(\/ LoopEnds(c) \/ LoopBreaks(c) \/ DispatchResponse(c)
                 \/ DispatchUnmatched(c))
        BY <1>1, <1>8, <2>4 DEF ReadLoop, DispatchKeepalive, DispatchReport,
           DispatchConnEvent, DispatchNotification
    <2> QED
        BY <2>1, <2>2, <2>3, <2>4
<1>9. ASSUME (\E q \in Queues : Take(q)) \/ Peer \/ UNCHANGED vars
      PROVE  PendingInv'
    BY <1>1, <1>9 DEF Take, Peer, PeerSends, PeerReplies, PeerHangsUp
<1> QED
    BY <1>5, <1>6, <1>7, <1>8, <1>9 DEF Next

LEMMA WireStep == Inv /\ [Next]_vars => WireInv'
<1> SUFFICES ASSUME Inv, [Next]_vars PROVE WireInv'
    OBVIOUS
<1> USE DEF Inv, TypeOK
<1>1. ASSUME UNCHANGED <<wire, inbox>> PROVE WireInv'
    BY <1>1 DEF WireInv
<1>2. ASSUME inbox' = <<>>, wire' = {} PROVE WireInv'
    BY <1>2 DEF WireInv
<1>3. ASSUME NEW t \in Tasks, Connect(t) PROVE WireInv'
    BY <1>1, <1>2, <1>3 DEF Connect, ConnectStart, OpenFails, OpenSucceeds,
       HandshakeAccepted, HandshakeFails, Abort, Shutdown
<1>4. ASSUME NEW t \in Tasks, Issue(t), UNCHANGED inbox PROVE WireInv'
    <2>1. AllocId = issued + 1
        BY <1>4, AllocIdIsNext DEF Issue, TransactInv, CallType, Toks
    <2> QED
        BY <1>4, <2>1 DEF Issue, WireInv
<1>5. ASSUME NEW t \in Tasks, Transact(t) \/ Close(t) PROVE WireInv'
    BY <1>1, <1>2, <1>4, <1>5 DEF Transact, TransactStart, TransactReturns,
       TransactGivesUp, Close, CloseStart, GoodbyeEnds, CloseNow, Abort, Shutdown
<1>6. ASSUME NEW c \in loops, ReadLoop(c) PROVE WireInv'
    <2>1. ASSUME NEW kinds, Reads(c, kinds), UNCHANGED wire PROVE WireInv'
        <3>1. /\ Len(inbox') = Len(inbox) - 1
              /\ \A i \in 1..Len(inbox') : inbox'[i] = inbox[i + 1]
            BY <2>1 DEF Reads, NetworkType
        <3> QED
            BY <2>1, <3>1 DEF WireInv, NetworkType
    <2> QED
        BY <1>2, <1>6, <2>1 DEF ReadLoop, DispatchKeepalive, DispatchReport,
           DispatchConnEvent, DispatchNotification, DispatchResponse,
           DispatchUnmatched, LoopEnds, LoopBreaks, LoopStops, Shutdown
<1>7. CASE Peer
    <2>1. ASSUME NEW m, Send(m), wire' \subseteq wire,
                 m.kind = "response" => m.id \in Ids /\ m.id = m.tok
          PROVE  WireInv'
        <3>1. /\ Len(inbox') = Len(inbox) + 1
              /\ \A i \in 1..Len(inbox) : inbox'[i] = inbox[i]
              /\ inbox'[Len(inbox) + 1] = m
            BY <2>1 DEF Send, NetworkType
        <3> QED
            BY <2>1, <3>1 DEF WireInv, NetworkType
    <2>2. ASSUME NEW kind \in Chatter, PeerSends(kind) PROVE WireInv'
        <3>1. kind # "response"
            BY DEF Kinds
        <3> QED
            BY <2>1, <2>2, <3>1 DEF PeerSends
    <2>3. ASSUME NEW r \in wire, PeerReplies(r) PROVE WireInv'
        <3>1. r.id \in Ids /\ r.id = r.tok
            BY DEF NetworkType, WireInv
        <3> QED
            BY <2>1, <2>3, <3>1 DEF PeerReplies
    <2>4. CASE PeerHangsUp
        BY <2>1, <2>4 DEF PeerHangsUp
    <2> QED
        BY <1>7, <2>2, <2>3, <2>4 DEF Peer
<1>8. ASSUME (\E q \in Queues : Take(q)) \/ UNCHANGED vars PROVE WireInv'
    BY <1>1, <1>8 DEF Take
<1> QED
    BY <1>3, <1>5, <1>6, <1>7, <1>8 DEF Next

LEMMA CorrelatedStep == Inv /\ [Next]_vars => Correlated'
<1> SUFFICES ASSUME Inv, [Next]_vars PROVE Correlated'
    OBVIOUS
<1> USE DEF Inv, TypeOK, CallType
<1>1. ASSUME UNCHANGED <<got, tok>>,
             \A t \in Tasks : fut'[t] = "reply" => fut[t] = "reply"
      PROVE  Correlated'
    BY <1>1 DEF Correlated
<1>2. ASSUME NEW t \in Tasks, NEW f, Leave(t, f),
             f \in [Tasks -> {"none", "undone", "reply", "failed"}],
             \A u \in Tasks : f[u] = "reply" => fut[u] = "reply"
      PROVE  Correlated'
    BY <1>2 DEF Correlated, Leave
<1>3. \A t \in Tasks : FailRegistered[t] = "reply" => fut[t] = "reply"
    BY DEF FailRegistered
<1>4. ASSUME NEW t \in Tasks, Connect(t) PROVE Correlated'
    <2>1. CASE HandshakeFails(t)
        BY <1>2, <1>3, <2>1, FailRegisteredType DEF HandshakeFails
    <2>2. CASE ~HandshakeFails(t)
        BY <1>1, <1>4, <2>2 DEF Connect, ConnectStart, OpenFails, OpenSucceeds,
           HandshakeAccepted
    <2> QED
        BY <2>1, <2>2
<1>5. ASSUME NEW t \in Tasks, Issue(t) PROVE Correlated'
    BY <1>5 DEF Issue, Correlated
<1>6. ASSUME NEW t \in Tasks, Transact(t) \/ Close(t) PROVE Correlated'
    <2>1. CASE TransactStart(t) \/ CloseStart(t)
        BY <1>5, <2>1 DEF TransactStart, CloseStart
    <2>2. CASE TransactReturns(t) \/ TransactGivesUp(t)
        BY <1>2, <2>2 DEF TransactReturns, TransactGivesUp
    <2>3. CASE GoodbyeEnds(t)
        BY <1>2, <1>3, <2>3, FailRegisteredType DEF GoodbyeEnds
    <2>4. CASE CloseNow(t)
        BY <1>1, <1>3, <2>4 DEF CloseNow
    <2> QED
        BY <1>6, <2>1, <2>2, <2>3, <2>4 DEF Transact, Close
<1>7. ASSUME NEW c \in loops, ReadLoop(c) PROVE Correlated'
    <2>1. CASE LoopEnds(c) \/ LoopBreaks(c)
        BY <1>1, <1>3, <2>1 DEF LoopEnds, LoopBreaks, LoopStops
    <2>2. CASE DispatchResponse(c)
        <3>1. PICK t \in Tasks : /\ Answers(Incoming.id, t)
                                 /\ fut' = [fut EXCEPT ![t] = "reply"]
                                 /\ got' = [got EXCEPT ![t] = Incoming.tok]
            BY <2>2 DEF DispatchResponse
        <3>2. Incoming.id \in Ids /\ Incoming.id = Incoming.tok
            BY <2>2 DEF DispatchResponse, Reads, Incoming, WireInv, NetworkType
        <3>3. tok[t] # 0 /\ tok[t] = mid[t] /\ pending[Incoming.id] = tok[t]
            BY <3>1, MidIsId DEF Answers, TransactInv
        <3>4. Incoming.tok = tok[t]
            BY <3>2, <3>3 DEF PendingInv, TransactInv
        <3> QED
            BY <2>2, <3>1, <3>4 DEF Correlated, DispatchResponse
    <2>3. CASE ~(LoopEnds(c) \/ LoopBreaks(c) \/ DispatchResponse(c))
        BY <1>1, <1>7, <2>3 DEF ReadLoop, DispatchKeepalive, DispatchReport,
           DispatchConnEvent, DispatchNotification, DispatchUnmatched
    <2> QED
        BY <2>1, <2>2, <2>3
<1>8. ASSUME (\E q \in Queues : Take(q)) \/ Peer \/ UNCHANGED vars
      PROVE  Correlated'
    BY <1>1, <1>8 DEF Take, Peer, PeerSends, PeerReplies, PeerHangsUp
<1> QED
    BY <1>4, <1>6, <1>7, <1>8 DEF Next

LEMMA CleanStep == Inv /\ [Next]_vars => CleanClose'
<1> SUFFICES ASSUME Inv, [Next]_vars PROVE CleanClose'
    OBVIOUS
<1> USE DEF Inv, CleanClose
<1>1. ASSUME NEW t \in Tasks, Connect(t) \/ Transact(t) PROVE CleanClose'
    BY <1>1 DEF Connect, ConnectStart, OpenFails, OpenSucceeds, HandshakeAccepted,
       HandshakeFails, Abort, Shutdown, Transact, TransactStart,
       TransactReturns, TransactGivesUp
<1>2. ASSUME NEW t \in Tasks, Close(t) PROVE CleanClose'
    BY <1>2 DEF Close, CloseStart, GoodbyeEnds, CloseNow, Abort, Shutdown, Connected
<1>3. ASSUME NEW c \in loops, ReadLoop(c) PROVE CleanClose'
    BY <1>3 DEF ReadLoop, DispatchKeepalive, DispatchReport, DispatchConnEvent,
       DispatchNotification, DispatchResponse, DispatchUnmatched, LoopEnds,
       LoopBreaks, LoopStops, Shutdown
<1>4. ASSUME (\E q \in Queues : Take(q)) \/ Peer \/ UNCHANGED vars
      PROVE  CleanClose'
    BY <1>4 DEF Take, Peer, PeerSends, PeerReplies, PeerHangsUp
<1> QED
    BY <1>1, <1>2, <1>3, <1>4 DEF Next

-----------------------------------------------------------------------------
(***************************************************************************)
(* The theorems.                                                           *)
(***************************************************************************)

\* Inv is inductive, so it holds in every reachable state.
THEOREM Invariance == Spec => []Inv
<1>1. Init => Inv
    BY InitInv
<1>2. Inv /\ [Next]_vars => Inv'
    BY MailboxStep, CallStep, ObjectNetworkStep, TransportStep, ConnectStep,
       TransactStep, PendingStep, WireStep, CorrelatedStep, CleanStep
    DEF Inv, TypeOK
<1> QED
    BY <1>1, <1>2, PTL DEF Spec

\* The types of client.py's state, the bounds of its queues among them.
THEOREM TypeCorrect == Spec => []TypeOK
<1>1. Inv => TypeOK
    BY DEF Inv
<1> QED
    BY <1>1, Invariance, PTL

\* transact() returns the answer to its own request, however many tasks share
\* the client and however late, early or never the reader answers.
THEOREM Correlation == Spec => []Correlated
<1>1. Inv => Correlated
    BY DEF Inv
<1> QED
    BY <1>1, Invariance, PTL

\* Whoever waits for a future of the client is reached by the read loop or by
\* _shutdown().
THEOREM Reachability == Spec => []WaitersReachable
<1>1. Inv => WaitersReachable
    BY DEF Inv, WaitersReachable, PendingInv, ConnectInv, TransportInv, OneTransport
<1> QED
    BY <1>1, Invariance, PTL

\* No ended transaction leaves its registration behind.
THEOREM NoLeak == Spec => []NoLeakedRegistration
<1>1. Inv => NoLeakedRegistration
    BY DEF Inv, NoLeakedRegistration, PendingInv
<1> QED
    BY <1>1, Invariance, PTL

\* Waiting and being registered with the client are the same thing.
THEOREM Registered == Spec => []Registrations
<1>1. WaitersReachable /\ NoLeakedRegistration => Registrations
    BY DEF Registrations
<1> QED
    BY <1>1, Reachability, NoLeak, PTL

\* `connected` is the truth about the one transport there may be.
THEOREM Truthful == Spec => []OneTransport
<1>1. Inv => OneTransport
    BY DEF Inv, TransportInv
<1> QED
    BY <1>1, Invariance, PTL

\* The end of stream after a polite close() is no connection error.
THEOREM CleanCloses == Spec => []CleanClose
<1>1. Inv => CleanClose
    BY DEF Inv
<1> QED
    BY <1>1, Invariance, PTL

\* A failed connect() and every close() leave no transport and no read loop.
THEOREM ReleasesTransport == Spec => Releases
<1>1. ASSUME Inv, [Next]_vars, NEW t \in Tasks, pc[t] # "idle", pc'[t] = "idle",
             pc[t] = "goodbye" \/ (pc[t] = "handshake" /\ connEvent # "accepted")
      PROVE  writer' = 0 /\ sockets' = {} /\ loops' = {}
    <2> USE DEF Inv, TypeOK, CallType
    <2>1. ASSUME NEW u \in Tasks, Connect(u)
          PROVE  writer' = 0 /\ sockets' = {} /\ loops' = {}
        BY <1>1, <2>1, AbortReleases DEF Connect, ConnectStart, OpenFails,
           OpenSucceeds, HandshakeAccepted, HandshakeFails
    <2>2. ASSUME NEW u \in Tasks, Transact(u) \/ Close(u)
          PROVE  writer' = 0 /\ sockets' = {} /\ loops' = {}
        BY <1>1, <2>2, AbortReleases DEF Transact, TransactStart, TransactReturns,
           TransactGivesUp, Close, CloseStart, GoodbyeEnds, CloseNow, Leave
    <2>3. ASSUME NEW c \in loops, ReadLoop(c) PROVE UNCHANGED pc
        BY <2>3 DEF ReadLoop, DispatchKeepalive, DispatchReport,
           DispatchConnEvent, DispatchNotification, DispatchResponse,
           DispatchUnmatched, LoopEnds, LoopBreaks, LoopStops
    <2>4. ASSUME (\E q \in Queues : Take(q)) \/ Peer \/ UNCHANGED vars
          PROVE  UNCHANGED pc
        BY <2>4 DEF Take, Peer, PeerSends, PeerReplies, PeerHangsUp
    <2> QED
        BY <1>1, <2>1, <2>2, <2>3, <2>4 DEF Next
<1>2. Inv /\ [Next]_vars =>
        [\A t \in Tasks :
          /\ pc[t] # "idle" /\ pc'[t] = "idle"
          /\ pc[t] = "goodbye" \/ (pc[t] = "handshake" /\ connEvent # "accepted")
          => writer' = 0 /\ sockets' = {} /\ loops' = {}]_vars
    BY <1>1
<1> QED
    BY <1>2, Invariance, PTL DEF Spec, Releases

-----------------------------------------------------------------------------
(***************************************************************************)
(* The queues.                                                             *)
(***************************************************************************)

\* An entry offered to a queue that holds the newest of its kind keeps it so.
LEMMA OfferNewest ==
    ASSUME NEW cap \in Nat \ {0}, NEW q \in Seq(Nat), NEW k \in Nat,
           NEW m \in Nat, m = k + 1, Len(q) <= cap, Newest(q, k)
    PROVE  /\ Newest(Offer(q, m, cap), k + 1)
           /\ Len(q) + 1 = OfferDrops(q, cap) + Len(Offer(q, m, cap))
<1>1. CASE IsFull(q, cap)
    <2>1. q # <<>> /\ Tail(q) \in Seq(Nat) /\ Len(Tail(q)) = Len(q) - 1
        BY <1>1 DEF IsFull
    <2>2. \A i \in 1..Len(q) - 1 : Tail(q)[i] = q[i + 1]
        BY <2>1
    <2>3. Offer(q, m, cap) = Append(Tail(q), m) /\ OfferDrops(q, cap) = 1
        BY <1>1 DEF Offer, OfferDrops
    <2>4. /\ Len(Append(Tail(q), m)) = Len(q)
          /\ Append(Tail(q), m)[Len(q)] = m
          /\ \A i \in 1..Len(q) - 1 : Append(Tail(q), m)[i] = q[i + 1]
        BY <2>1, <2>2
    <2>5. ASSUME NEW i \in 1..Len(q)
          PROVE  Append(Tail(q), m)[i] = (k + 1) - Len(q) + i
        <3>1. CASE i = Len(q)
            BY <2>4, <3>1
        <3>2. CASE i # Len(q)
            <4>1. i \in 1..Len(q) - 1 /\ i + 1 \in 1..Len(q)
                BY <3>2
            <4>2. q[i + 1] = k - Len(q) + (i + 1)
                BY <4>1 DEF Newest
            <4> QED
                BY <2>4, <4>1, <4>2
        <3> QED
            BY <3>1, <3>2
    <2>6. ASSUME NEW i \in 1..Len(Append(Tail(q), m))
          PROVE  Append(Tail(q), m)[i] = (k + 1) - Len(Append(Tail(q), m)) + i
        <3>1. Len(Append(Tail(q), m)) = Len(q)
            BY <2>4, Zenon
        <3>2. i \in 1..Len(q)
            BY <3>1, Zenon
        <3>3. Append(Tail(q), m)[i] = (k + 1) - Len(q) + i
            BY <2>5, <3>2, Zenon
        <3> QED
            BY <3>1, <3>3, Zenon
    <2>7. Newest(Append(Tail(q), m), k + 1)
        BY <2>6, Zenon DEF Newest
    <2>8. Len(Append(Tail(q), m)) = Len(q)
        BY <2>4, Zenon
    <2>9. Len(q) + 1 = 1 + Len(q)
        OBVIOUS
    <2> QED
        BY <2>3, <2>7, <2>8, <2>9, Zenon
<1>2. CASE ~IsFull(q, cap)
    <2>1. Offer(q, m, cap) = Append(q, m) /\ OfferDrops(q, cap) = 0
        BY <1>2 DEF Offer, OfferDrops
    <2>2. /\ Len(Append(q, m)) = Len(q) + 1
          /\ Append(q, m)[Len(q) + 1] = m
          /\ \A i \in 1..Len(q) : Append(q, m)[i] = q[i]
        OBVIOUS
    <2>3. ASSUME NEW i \in 1..Len(q) + 1
          PROVE  Append(q, m)[i] = (k + 1) - (Len(q) + 1) + i
        <3>1. CASE i = Len(q) + 1
            BY <2>2, <3>1
        <3>2. CASE i # Len(q) + 1
            <4>1. i \in 1..Len(q)
                BY <3>2
            <4>2. q[i] = k - Len(q) + i
                BY <4>1 DEF Newest
            <4> QED
                BY <2>2, <4>1, <4>2
        <3> QED
            BY <3>1, <3>2
    <2>4. Newest(Append(q, m), k + 1)
        BY <2>2, <2>3, Zenon DEF Newest
    <2>5. Len(q) + 1 = 0 + (Len(q) + 1)
        OBVIOUS
    <2> QED
        BY <2>1, <2>2, <2>4, <2>5, Zenon
<1> QED
    BY <1>1, <1>2

\* An entry taken from the front leaves the newest ones.
LEMMA TakeNewest ==
    ASSUME NEW q \in Seq(Nat), q # <<>>, NEW k \in Nat, Newest(q, k)
    PROVE  Newest(Tail(q), k) /\ Len(Tail(q)) = Len(q) - 1
<1>1. /\ Len(Tail(q)) = Len(q) - 1
      /\ \A i \in 1..Len(q) - 1 : Tail(q)[i] = q[i + 1]
    OBVIOUS
<1>2. ASSUME NEW i \in 1..Len(q) - 1 PROVE q[i + 1] = k - (Len(q) - 1) + i
    <2>1. i + 1 \in 1..Len(q)
        OBVIOUS
    <2> QED
        BY <2>1 DEF Newest
<1> QED
    BY <1>1, <1>2 DEF Newest

\* Each queue, and its counters, change in Deliver and in Take only.
LEMMA MailboxCases ==
    ASSUME [Next]_vars
    PROVE  \/ UNCHANGED mailbox
           \/ \E qs : Deliver(qs)
           \/ \E q \in Queues : Take(q)
<1>1. ASSUME NEW t \in Tasks, Connect(t) \/ Transact(t) \/ Close(t)
      PROVE  UNCHANGED mailbox
    BY <1>1 DEF Connect, ConnectStart, OpenFails, OpenSucceeds,
       HandshakeAccepted, HandshakeFails, Transact, TransactStart,
       TransactReturns, TransactGivesUp, Close, CloseStart, GoodbyeEnds, CloseNow
<1>2. ASSUME NEW c \in loops, ReadLoop(c)
      PROVE  UNCHANGED mailbox \/ \E qs : Deliver(qs)
    BY <1>2 DEF ReadLoop, DispatchKeepalive, DispatchReport, DispatchConnEvent,
       DispatchNotification, DispatchResponse, DispatchUnmatched, LoopEnds,
       LoopBreaks, LoopStops
<1>3. ASSUME Peer \/ UNCHANGED vars PROVE UNCHANGED mailbox
    BY <1>3 DEF Peer, PeerSends, PeerReplies, PeerHangsUp
<1> QED
    BY <1>1, <1>2, <1>3 DEF Next

\* What the types say of one queue.
LEMMA QueueTypes ==
    ASSUME MailboxType, NEW q \in Queues
    PROVE  /\ queue[q] \in Seq(Nat) /\ Len(queue[q]) \in Nat
           /\ Len(queue[q]) <= Capacity[q] /\ Capacity[q] \in Nat \ {0}
           /\ arrived[q] \in Nat /\ taken[q] \in Nat /\ dropped[q] \in Nat
<1>1. queue[q] \in Seq(Nat) /\ Len(queue[q]) <= Capacity[q]
    BY DEF MailboxType
<1>2. arrived[q] \in Nat /\ taken[q] \in Nat /\ dropped[q] \in Nat
    BY DEF MailboxType
<1> QED
    BY <1>1, <1>2

\* The account of a queue, of length n before and m after: an entry goes in
\* and x are dropped.
LEMMA AccountIn ==
    ASSUME NEW a \in Nat, NEW t \in Nat, NEW d \in Nat, NEW n \in Nat,
           NEW x \in Nat, NEW m \in Nat, a = t + d + n, n + 1 = x + m
    PROVE  a + 1 = t + (d + x) + m
OBVIOUS

\* An entry comes out.
LEMMA AccountOut ==
    ASSUME NEW a \in Nat, NEW t \in Nat, NEW d \in Nat, NEW n \in Nat,
           NEW m \in Nat, a = t + d + n, m = n - 1
    PROVE  a = (t + 1) + d + m
OBVIOUS

\* A message offered to the queues in qs.
LEMMA DeliverStep ==
    ASSUME MailboxType, MailboxType', NetworkType, NewestKept, DropsCounted,
           NEW qs, Deliver(qs)
    PROVE  NewestKept' /\ DropsCounted'
<1>1. ASSUME NEW q \in Queues, q \notin qs
      PROVE  /\ queue'[q] = queue[q] /\ arrived'[q] = arrived[q]
             /\ dropped'[q] = dropped[q] /\ taken'[q] = taken[q]
    BY <1>1 DEF Deliver
<1>2. ASSUME NEW q \in Queues, q \in qs
      PROVE  /\ Newest(queue'[q], arrived'[q])
             /\ Len(queue[q]) + 1 = OfferDrops(queue[q], Capacity[q]) + Len(queue'[q])
             /\ arrived'[q] = arrived[q] + 1 /\ taken'[q] = taken[q]
    <2>1. PICK m \in Nat : /\ m = arrived[q] + 1
                             /\ queue'[q] = Offer(queue[q], m, Capacity[q])
        <3>1. arrived[q] + 1 \in Nat
            BY QueueTypes
        <3> QED
            BY <1>2, <3>1 DEF Deliver
    <2>2. arrived'[q] = arrived[q] + 1 /\ taken'[q] = taken[q]
        BY <1>2 DEF Deliver
    <2>3. Newest(queue[q], arrived[q])
        BY DEF NewestKept
    <2> QED
        BY <2>1, <2>2, <2>3, QueueTypes, OfferNewest
<1>3. ASSUME NEW q \in Queues, q # "edges"
      PROVE  arrived'[q] = taken'[q] + dropped'[q] + Len(queue'[q])
    <2>1. arrived[q] = taken[q] + dropped[q] + Len(queue[q])
        BY <1>3 DEF DropsCounted
    <2>4. /\ arrived[q] \in Nat /\ taken[q] \in Nat /\ dropped[q] \in Nat
          /\ Len(queue[q]) \in Nat
        BY QueueTypes
    <2>2. CASE q \in qs
        <3>1. PICK x \in Nat : x = OfferDrops(queue[q], Capacity[q])
            BY DEF OfferDrops
        <3>2. dropped'[q] = dropped[q] + x
            BY <1>3, <2>2, <3>1 DEF Deliver
        <3>3. PICK m \in Nat, n \in Nat : m = Len(queue'[q]) /\ n = Len(queue[q])
            BY <2>4 DEF MailboxType
        <3>4. /\ n + 1 = x + m
              /\ arrived'[q] = arrived[q] + 1 /\ taken'[q] = taken[q]
            BY <1>2, <2>2, <3>1, <3>3
        <3>5. arrived[q] = taken[q] + dropped[q] + n
            BY <2>1, <3>3
        <3>6. PICK a \in Nat, t \in Nat, d \in Nat :
                  a = arrived[q] /\ t = taken[q] /\ d = dropped[q]
            BY <2>4
        <3>7. a + 1 = t + (d + x) + m
            <4>1. a = t + d + n
                BY <3>5, <3>6
            <4> QED
                BY <3>4, <4>1, AccountIn
        <3> QED
            BY <3>2, <3>3, <3>4, <3>6, <3>7
    <2>3. CASE q \notin qs
        BY <1>1, <2>1, <2>3
    <2> QED
        BY <2>2, <2>3
<1>4. NewestKept'
    BY <1>1, <1>2 DEF NewestKept
<1> QED
    BY <1>3, <1>4 DEF DropsCounted

\* An entry taken by a consumer.
LEMMA TakeStep ==
    ASSUME MailboxType, MailboxType', NewestKept, DropsCounted,
           NEW q \in Queues, Take(q)
    PROVE  NewestKept' /\ DropsCounted'
<1>1. /\ queue[q] # <<>> /\ queue'[q] = Tail(queue[q])
      /\ taken'[q] = taken[q] + 1
      /\ arrived'[q] = arrived[q] /\ dropped'[q] = dropped[q]
    BY DEF Take, MailboxType
<1>2. ASSUME NEW r \in Queues, r # q
      PROVE  /\ queue'[r] = queue[r] /\ taken'[r] = taken[r]
             /\ arrived'[r] = arrived[r] /\ dropped'[r] = dropped[r]
    BY <1>2 DEF Take, MailboxType
<1>3. Newest(queue'[q], arrived'[q]) /\ Len(queue'[q]) = Len(queue[q]) - 1
    BY <1>1, QueueTypes, TakeNewest DEF NewestKept
<1>4. NewestKept'
    BY <1>2, <1>3 DEF NewestKept
<1>5. ASSUME NEW r \in Queues, r # "edges"
      PROVE  arrived'[r] = taken'[r] + dropped'[r] + Len(queue'[r])
    <2>1. arrived[r] = taken[r] + dropped[r] + Len(queue[r])
        BY <1>5 DEF DropsCounted
    <2>2. CASE r = q
        <3>1. /\ arrived[q] \in Nat /\ taken[q] \in Nat /\ dropped[q] \in Nat
              /\ Len(queue[q]) \in Nat
            BY QueueTypes
        <3>2. Len(queue'[q]) \in Nat
            BY DEF MailboxType
        <3>3. arrived[q] = (taken[q] + 1) + dropped[q] + Len(queue'[q])
            BY <1>3, <2>1, <2>2, <3>1, <3>2, AccountOut
        <3> QED
            BY <1>1, <2>2, <3>3
    <2>3. CASE r # q
        BY <1>2, <2>1, <2>3
    <2> QED
        BY <2>2, <2>3
<1> QED
    BY <1>4, <1>5 DEF DropsCounted

LEMMA QueueStep ==
    Inv /\ NewestKept /\ DropsCounted /\ [Next]_vars => NewestKept' /\ DropsCounted'
<1> SUFFICES ASSUME Inv, NewestKept, DropsCounted, [Next]_vars
             PROVE  NewestKept' /\ DropsCounted'
    OBVIOUS
<1>1. MailboxType /\ MailboxType' /\ NetworkType
    BY MailboxStep DEF Inv, TypeOK
<1>2. CASE UNCHANGED mailbox
    BY <1>2 DEF NewestKept, DropsCounted
<1> QED
    BY <1>1, <1>2, MailboxCases, DeliverStep, TakeStep

\* The queues keep the newest entries in order, and every report and event is
\* taken, waiting or counted as dropped.
THEOREM QueuesAccounted == Spec => []LossesAccounted
<1>1. Init => NewestKept /\ DropsCounted
    BY DEF Init, NewestKept, Newest, DropsCounted
<1>2. Inv /\ NewestKept /\ DropsCounted /\ [Next]_vars => NewestKept' /\ DropsCounted'
    BY QueueStep
<1>3. NewestKept /\ DropsCounted => LossesAccounted
    BY DEF LossesAccounted
<1> QED
    BY <1>1, <1>2, <1>3, Invariance, PTL DEF Spec

-----------------------------------------------------------------------------
(***************************************************************************)
(* The client implements RequestService.                                   *)
(***************************************************************************)

\* An answer is kept by who got it; what is still to come was asked for, comes
\* once, and is gone with the transport.
OwedInv ==
    /\ \A t \in Tasks : fut[t] # "reply" => got[t] = 0
    /\ writer = 0 => inbox = <<>> /\ wire = {}
    /\ \A r \in wire : r.tok <= issued
    /\ \A i \in 1..Len(inbox) : inbox[i].kind = "response" =>
          /\ inbox[i].tok <= issued
          /\ \A r \in wire : r.tok # inbox[i].tok
          /\ \A j \in 1..Len(inbox) :
                inbox[j].kind = "response" /\ inbox[j].tok = inbox[i].tok => j = i

LEMMA InOwed ==
    ASSUME NEW n
    PROVE  n \in Owed <=> \/ \E r \in wire : r.tok = n
                          \/ \E i \in 1..Len(inbox) : inbox[i].kind = "response" /\ inbox[i].tok = n
BY DEF Owed

\* What the read loop takes is no longer to come.
LEMMA TailFacts ==
    ASSUME Inv, NEW c, NEW kinds, Reads(c, kinds)
    PROVE  /\ inbox # <<>> /\ Len(inbox) \in Nat /\ Len(inbox) >= 1 /\ Incoming = inbox[1]
           /\ Incoming.kind \in kinds
           /\ Len(inbox') = Len(inbox) - 1
           /\ \A i \in 1..Len(inbox') : inbox'[i] = inbox[i + 1]
BY DEF Inv, TypeOK, NetworkType, Reads, Incoming

LEMMA TailOwed ==
    ASSUME Inv, OwedInv, NEW c, NEW kinds, Reads(c, kinds), UNCHANGED wire
    PROVE  /\ Incoming.kind = "response" => Incoming.tok \in Owed /\ Owed' = Owed \ {Incoming.tok}
           /\ Incoming.kind # "response" => Owed' = Owed
<1>1. /\ Len(inbox) \in Nat /\ Len(inbox) >= 1 /\ Incoming = inbox[1]
      /\ Len(inbox') = Len(inbox) - 1
      /\ \A i \in 1..Len(inbox') : inbox'[i] = inbox[i + 1]
    BY TailFacts
<1>2. \A n : n \in Owed' <=> \/ \E r \in wire : r.tok = n
                             \/ \E i \in 2..Len(inbox) : inbox[i].kind = "response" /\ inbox[i].tok = n
    <2> SUFFICES ASSUME NEW n
                 PROVE  n \in Owed' <=> \/ \E r \in wire : r.tok = n
                                        \/ \E i \in 2..Len(inbox) : inbox[i].kind = "response" /\ inbox[i].tok = n
        OBVIOUS
    <2>1. n \in Owed' <=> \/ \E r \in wire : r.tok = n
                          \/ \E i \in 1..Len(inbox') : inbox'[i].kind = "response" /\ inbox'[i].tok = n
        BY DEF Owed
    <2>2. ASSUME NEW i \in 1..Len(inbox')
          PROVE  i + 1 \in 2..Len(inbox) /\ inbox'[i] = inbox[i + 1]
        BY <1>1, <2>2
    <2>3. ASSUME NEW i \in 2..Len(inbox)
          PROVE  i - 1 \in 1..Len(inbox') /\ inbox'[i - 1] = inbox[i]
        BY <1>1, <2>3
    <2> QED
        BY <2>1, <2>2, <2>3
<1>3. \A n : n \in Owed <=> \/ n \in Owed'
                            \/ inbox[1].kind = "response" /\ inbox[1].tok = n
    <2>1. 1..Len(inbox) = {1} \cup 2..Len(inbox)
        BY <1>1
    <2> QED
        BY <1>2, <2>1, InOwed
<1>4. inbox[1].kind = "response" => inbox[1].tok \notin Owed'
    <2>1. \A i \in 2..Len(inbox) : i \in 1..Len(inbox) /\ i # 1
        BY <1>1
    <2>2. 1 \in 1..Len(inbox)
        BY <1>1
    <2> QED
        BY <1>2, <2>1, <2>2 DEF OwedInv
<1> QED
    BY <1>1, <1>3, <1>4

\* What the reader sends was to come before, or is no answer.
LEMMA SendOwed ==
    ASSUME Inv, NEW m, Send(m),
           \/ m.kind # "response" /\ UNCHANGED wire
           \/ m.kind = "response" /\ \E r \in wire : m.tok = r.tok /\ wire' = wire \ {r}
    PROVE  Owed' = Owed
<1>1. /\ Len(inbox) \in Nat /\ Len(inbox') = Len(inbox) + 1
      /\ \A i \in 1..Len(inbox) : inbox'[i] = inbox[i]
      /\ inbox'[Len(inbox) + 1] = m
    BY DEF Send, Inv, TypeOK, NetworkType
<1>2. 1..Len(inbox') = 1..Len(inbox) \cup {Len(inbox) + 1}
    BY <1>1
<1>3. \A n : n \in Owed' <=> \/ \E r \in wire' : r.tok = n
                             \/ \E i \in 1..Len(inbox) : inbox[i].kind = "response" /\ inbox[i].tok = n
                             \/ m.kind = "response" /\ m.tok = n
    BY <1>1, <1>2 DEF Owed
<1>4. \A n : n \in Owed' <=> n \in Owed
    BY <1>3, InOwed
<1> QED
    BY <1>4


\* A request is new when it goes out.
LEMMA IssueOwed ==
    ASSUME Inv, NEW t \in Tasks, Issue(t), UNCHANGED inbox
    PROVE  Owed' \in {Owed, Owed \cup {issued + 1}}
<1>1. wire' = wire \/ wire' = wire \cup {[id |-> AllocId, tok |-> issued + 1]}
    BY DEF Issue
<1>2. CASE wire' = wire
    BY <1>2 DEF Owed
<1>3. CASE wire' = wire \cup {[id |-> AllocId, tok |-> issued + 1]}
    <2> DEFINE new == [id |-> AllocId, tok |-> issued + 1]
    <2>0. wire' = wire \cup {new} /\ new.tok = issued + 1
        BY <1>3
    <2> HIDE DEF new
    <2>1. \A n : (\E r \in wire' : r.tok = n) <=> (\E r \in wire : r.tok = n) \/ n = issued + 1
        BY <2>0
    <2>2. \A n : n \in Owed' <=> n \in Owed \/ n = issued + 1
        BY <2>1 DEF Owed
    <2> QED
        BY <2>2
<1> QED
    BY <1>1, <1>2, <1>3

LEMMA OwedStep == Inv /\ OwedInv /\ [Next]_vars => OwedInv'
<1> SUFFICES ASSUME Inv, OwedInv, [Next]_vars PROVE OwedInv'
    OBVIOUS
<1> DEFINE Kept == \A t \in Tasks : fut[t] # "reply" => got[t] = 0
<1>0. /\ CallType /\ inbox \in Seq(Msg) /\ issued \in Nat
      /\ \A t \in Tasks : FailRegistered[t] # "reply" => got[t] = 0
    BY DEF Inv, TypeOK, NetworkType, CallType, Toks, FailRegistered, OwedInv
<1>1. ASSUME UNCHANGED <<wire, inbox, issued, writer>>, Kept'
      PROVE  OwedInv'
    BY <1>1 DEF OwedInv
<1>2. ASSUME inbox' = <<>>, wire' = {}, Kept'
      PROVE  OwedInv'
    BY <1>2 DEF OwedInv
<1>3. ASSUME UNCHANGED <<fut, got>>
      PROVE  Kept'
    BY <1>3 DEF OwedInv
<1>4. ASSUME NEW t \in Tasks, NEW f, Leave(t, f), f \in {fut, FailRegistered}
      PROVE  Kept'
    <2>1. \A u \in Tasks \ {t} : fut'[u] = f[u] /\ got'[u] = got[u]
        BY <1>0, <1>4 DEF Leave, CallType, FailRegistered
    <2>2. got'[t] = 0
        BY <1>0, <1>4 DEF Leave, CallType
    <2> QED
        BY <1>0, <1>4, <2>1, <2>2 DEF OwedInv
<1>5. ASSUME NEW t \in Tasks, Connect(t)
      PROVE  OwedInv'
    <2>1. CASE HandshakeFails(t)
        BY <1>2, <1>4, <2>1 DEF HandshakeFails, Abort, Shutdown
    <2>2. CASE ConnectStart(t) \/ OpenFails(t) \/ HandshakeAccepted(t)
        BY <1>1, <1>3, <2>2 DEF ConnectStart, OpenFails, HandshakeAccepted, object, network
    <2>3. CASE OpenSucceeds(t)
        <3>1. writer = 0 /\ writer' # 0
            BY <2>3 DEF OpenSucceeds, Inv, TypeOK, NetworkType, ConnectInv
        <3>2. inbox' = <<>> /\ wire' = {}
            BY <2>3, <3>1 DEF OpenSucceeds, OwedInv
        <3> QED
            BY <1>2, <1>3, <2>3, <3>2 DEF OpenSucceeds
    <2> QED
        BY <1>5, <2>1, <2>2, <2>3 DEF Connect
<1>6. ASSUME NEW t \in Tasks, pc[t] = "idle", Connected, Issue(t), UNCHANGED <<inbox, writer>>
      PROVE  OwedInv'
    <2>1. writer' # 0 /\ issued' = issued + 1
        BY <1>6 DEF Connected, Issue
    <2>2. Kept'
        <3>1. got[t] = 0
            BY <1>6 DEF Inv, TransactInv, InTransact, OwedInv
        <3> QED
            BY <1>0, <1>6, <3>1 DEF Issue, OwedInv, CallType
    <2>3. \A r \in wire' : r \in wire \/ r.tok = issued + 1
        BY <1>6 DEF Issue
    <2>4. \A r \in wire' : r.tok <= issued'
        <3>1. \A r \in wire : r.tok \in Nat /\ r.tok <= issued
            BY DEF OwedInv, Inv, TypeOK, NetworkType, Toks
        <3> QED
            BY <1>0, <2>1, <2>3, <3>1
    <2>5. \A i \in 1..Len(inbox) : inbox[i] \in Msg
        BY <1>0
    <2>6. \A i \in 1..Len(inbox) : inbox[i].kind = "response" =>
              inbox[i].tok <= issued' /\ \A r \in wire' : r.tok # inbox[i].tok
        BY <1>0, <2>1, <2>3, <2>5 DEF OwedInv, Msg, Toks
    <2> QED
        BY <1>6, <2>1, <2>2, <2>4, <2>6 DEF OwedInv
<1>7. ASSUME NEW t \in Tasks, Transact(t) \/ Close(t)
      PROVE  OwedInv'
    <2>1. CASE TransactStart(t) \/ CloseStart(t)
        BY <1>6, <2>1 DEF TransactStart, CloseStart
    <2>2. CASE TransactReturns(t) \/ TransactGivesUp(t)
        <3>1. Kept'
            BY <1>4, <2>2 DEF TransactReturns, TransactGivesUp
        <3> QED
            BY <1>1, <2>2, <3>1 DEF TransactReturns, TransactGivesUp, network
    <2>3. CASE GoodbyeEnds(t)
        BY <1>2, <1>4, <2>3 DEF GoodbyeEnds, Abort, Shutdown
    <2>4. CASE CloseNow(t)
        <3>1. Kept'
            BY <1>0, <2>4 DEF CloseNow
        <3> QED
            BY <1>2, <2>4, <3>1 DEF CloseNow, Abort, Shutdown
    <2> QED
        BY <1>7, <2>1, <2>2, <2>3, <2>4 DEF Transact, Close
<1>8. ASSUME NEW c \in loops, ReadLoop(c)
      PROVE  OwedInv'
    <2>1. ASSUME NEW exc, LoopStops(c, exc)
          PROVE  OwedInv'
        <3>1. Kept'
            BY <1>0, <2>1 DEF LoopStops
        <3> QED
            BY <1>2, <2>1, <3>1 DEF LoopStops, Shutdown
    <2>2. ASSUME NEW kinds, Reads(c, kinds), UNCHANGED <<wire, writer, issued>>, Kept'
          PROVE  OwedInv'
        <3>1. /\ inbox # <<>> /\ Len(inbox) \in Nat
              /\ Len(inbox') = Len(inbox) - 1
              /\ \A i \in 1..Len(inbox') : inbox'[i] = inbox[i + 1]
            BY <2>2, TailFacts
        <3>2. \A i \in 1..Len(inbox') : i + 1 \in 1..Len(inbox)
            BY <3>1
        <3>3. writer' # 0
            BY <2>2, <3>1 DEF OwedInv
        <3>4. ASSUME NEW i \in 1..Len(inbox'), inbox'[i].kind = "response"
              PROVE  /\ inbox'[i].tok <= issued'
                     /\ \A r \in wire' : r.tok # inbox'[i].tok
                     /\ \A j \in 1..Len(inbox') :
                           inbox'[j].kind = "response" /\ inbox'[j].tok = inbox'[i].tok => j = i
            <4>1. inbox'[i] = inbox[i + 1] /\ i + 1 \in 1..Len(inbox)
                BY <3>1, <3>2
            <4>2. \A j \in 1..Len(inbox') : inbox'[j] = inbox[j + 1] /\ j + 1 \in 1..Len(inbox)
                BY <3>1, <3>2
            <4>3. \A j \in 1..Len(inbox') : j + 1 = i + 1 => j = i
                BY <3>1
            <4> QED
                BY <2>2, <3>4, <4>1, <4>2, <4>3 DEF OwedInv
        <3> QED
            BY <2>2, <3>3, <3>4 DEF OwedInv
    <2>3. CASE DispatchResponse(c)
        <3>1. Kept'
            BY <1>0, <2>3 DEF DispatchResponse, OwedInv, CallType
        <3> QED
            BY <2>2, <2>3, <3>1 DEF DispatchResponse
    <2>4. CASE \/ DispatchKeepalive(c) \/ DispatchReport(c) \/ DispatchConnEvent(c)
               \/ DispatchNotification(c) \/ DispatchUnmatched(c)
        <3>1. UNCHANGED <<fut, got, wire, writer, issued>>
            BY <2>4 DEF DispatchKeepalive, DispatchReport, DispatchConnEvent, DispatchNotification,
                        DispatchUnmatched, object, calls
        <3>2. Kept'
            BY <1>3, <3>1
        <3>3. \E kinds : Reads(c, kinds)
            BY <2>4 DEF DispatchKeepalive, DispatchReport, DispatchConnEvent, DispatchNotification,
                        DispatchUnmatched
        <3> QED
            BY <2>2, <3>1, <3>2, <3>3
    <2> QED
        BY <1>8, <2>1, <2>3, <2>4 DEF ReadLoop, LoopEnds, LoopBreaks
<1>9. CASE Peer
    <2>1. ASSUME NEW m, Send(m), UNCHANGED <<fut, got, writer, issued>>,
                 \/ m.kind # "response" /\ UNCHANGED wire
                 \/ m.kind = "response" /\ \E r \in wire : m.tok = r.tok /\ wire' = wire \ {r}
          PROVE  OwedInv'
        <3>1. /\ Len(inbox) \in Nat /\ Len(inbox') = Len(inbox) + 1
              /\ \A i \in 1..Len(inbox) : inbox'[i] = inbox[i]
              /\ inbox'[Len(inbox) + 1] = m
              /\ 1..Len(inbox') = 1..Len(inbox) \cup {Len(inbox) + 1}
            BY <1>0, <2>1 DEF Send
        <3>2. writer' # 0
            BY <2>1 DEF Send, PeerUp, Inv, TransportInv, OneTransport
        <3>3. wire' \subseteq wire
            BY <2>1
        <3>4. m.kind = "response" =>
                 /\ m.tok <= issued
                 /\ \A r \in wire' : r.tok # m.tok
                 /\ \A i \in 1..Len(inbox) : inbox[i].kind = "response" => inbox[i].tok # m.tok
            <4> SUFFICES ASSUME m.kind = "response"
                         PROVE  /\ m.tok <= issued
                                /\ \A r \in wire' : r.tok # m.tok
                                /\ \A i \in 1..Len(inbox) : inbox[i].kind = "response" => inbox[i].tok # m.tok
                OBVIOUS
            <4>1. PICK r \in wire : m.tok = r.tok /\ wire' = wire \ {r}
                BY <2>1
            <4>2. \A r2 \in wire : r2.tok = r.tok => r2 = r
                BY DEF Inv, WireInv, TypeOK, NetworkType
            <4> QED
                BY <4>1, <4>2 DEF OwedInv
        <3>5. ASSUME NEW i \in 1..Len(inbox'), inbox'[i].kind = "response"
              PROVE  /\ inbox'[i].tok <= issued'
                     /\ \A r \in wire' : r.tok # inbox'[i].tok
                     /\ \A j \in 1..Len(inbox') :
                           inbox'[j].kind = "response" /\ inbox'[j].tok = inbox'[i].tok => j = i
            <4>1. CASE i = Len(inbox) + 1
                BY <2>1, <3>1, <3>4, <3>5, <4>1
            <4>2. CASE i \in 1..Len(inbox)
                BY <2>1, <3>1, <3>3, <3>4, <3>5, <4>2 DEF OwedInv
            <4> QED
                BY <3>1, <4>1, <4>2
        <3>6. \A r \in wire' : r.tok <= issued'
            BY <2>1, <3>3 DEF OwedInv
        <3>7. Kept'
            BY <1>3, <2>1
        <3> QED
            BY <3>2, <3>5, <3>6, <3>7 DEF OwedInv
    <2>2. ASSUME NEW kind \in Chatter, PeerSends(kind)
          PROVE  OwedInv'
        <3>1. kind # "response"
            BY DEF Kinds
        <3> QED
            BY <2>1, <2>2, <3>1 DEF PeerSends, object, calls
    <2>3. ASSUME NEW r \in wire, PeerReplies(r)
          PROVE  OwedInv'
        BY <2>1, <2>3 DEF PeerReplies, object, calls
    <2>4. CASE PeerHangsUp
        BY <2>1, <2>4 DEF PeerHangsUp, object, calls
    <2> QED
        BY <1>9, <2>2, <2>3, <2>4 DEF Peer
<1>10. ASSUME (\E q \in Queues : Take(q)) \/ UNCHANGED vars
       PROVE  OwedInv'
    BY <1>1, <1>3, <1>10 DEF Take, vars, object, calls, network
<1> QED
    BY <1>5, <1>7, <1>8, <1>9, <1>10 DEF Next


\* What a step of the client is to its callers.
Promised == Service!Next \/ UNCHANGED Service!vars

\* Nothing that a caller sees.
LEMMA Unseen ==
    ASSUME UNCHANGED <<writer, conn, issued, fut, tok, got>>, Owed' = Owed
    PROVE  Promised
BY DEF Promised, Service!vars, Service!calls

\* A task leaves transact() with no effect on the others.
LEMMA Returns ==
    ASSUME Inv, OwedInv, NEW t \in Tasks, Leave(t, fut),
           UNCHANGED <<writer, conn, issued>>, Owed' = Owed
    PROVE  Promised
<1>1. CallType
    BY DEF Inv, TypeOK
<1>2. CASE fut[t] = "none"
    <2>1. tok[t] = 0 /\ got[t] = 0
        BY <1>2 DEF Inv, TransactInv, OwedInv
    <2>2. UNCHANGED <<fut, tok, got>>
        BY <1>1, <1>2, <2>1 DEF Leave, CallType
    <2> QED
        BY <2>2, Unseen
<1>3. CASE fut[t] # "none"
    <2>1. Service!Return(t)
        BY <1>3 DEF Leave, Service!Return, Service!Ends
    <2> QED
        BY <2>1 DEF Promised, Service!Next
<1> QED
    BY <1>2, <1>3

\* _shutdown() tells everybody who waits.
LEMMA AllTold ==
    ASSUME Inv
    PROVE  /\ FailRegistered = Service!Told
           /\ writer = 0 => FailRegistered = fut
<1>1. CallType
    BY DEF Inv, TypeOK
<1>2. \A t \in Tasks : FailRegistered[t] = IF fut[t] = "undone" THEN "failed" ELSE fut[t]
    BY ShutdownFailsAll DEF FailRegistered
<1>3. FailRegistered = [t \in Tasks |-> FailRegistered[t]]
    BY DEF FailRegistered
<1>4. FailRegistered = Service!Told
    BY <1>2, <1>3 DEF Service!Told
<1>5. writer = 0 => \A t \in Tasks : FailRegistered[t] = fut[t]
    BY <1>2 DEF Inv, PendingInv
<1> QED
    BY <1>1, <1>3, <1>4, <1>5 DEF CallType

\* The end of a transport, with or without a call that leaves.
LEMMA Ends ==
    ASSUME Inv, OwedInv, writer' = 0, inbox' = <<>>, wire' = {}, UNCHANGED <<conn, issued>>,
           \/ fut' = FailRegistered /\ UNCHANGED <<tok, got>>
           \/ \E t \in Tasks : Leave(t, FailRegistered)
    PROVE  Promised
<1>1. CallType
    BY DEF Inv, TypeOK
<1>2. Owed' = {}
    BY DEF Owed
<1>3. FailRegistered = Service!Told /\ (writer = 0 => FailRegistered = fut)
    BY AllTold
<1>4. CASE writer = 0
    <2>1. Owed' = Owed
        BY <1>2, <1>4 DEF Owed, OwedInv
    <2>2. CASE fut' = FailRegistered /\ UNCHANGED <<tok, got>>
        BY <1>3, <1>4, <2>1, <2>2, Unseen
    <2>3. ASSUME NEW t \in Tasks, Leave(t, FailRegistered)
          PROVE  Promised
        BY <1>3, <1>4, <2>1, <2>3, Returns
    <2> QED
        BY <2>2, <2>3
<1>5. CASE writer # 0
    <2>1. CASE fut' = FailRegistered /\ UNCHANGED <<tok, got>>
        BY <1>2, <1>3, <1>5, <2>1 DEF Promised, Service!Next, Service!Down
    <2>2. ASSUME NEW t \in Tasks, Leave(t, FailRegistered), fut[t] # "none"
          PROVE  Promised
        <3>1. Service!Ends(t, Service!Told)
            BY <1>3, <2>2 DEF Leave, Service!Ends
        <3> QED
            BY <1>2, <1>5, <3>1 DEF Promised, Service!Next, Service!Down
    <2>3. ASSUME NEW t \in Tasks, Leave(t, FailRegistered), fut[t] = "none"
          PROVE  Promised
        <3>1. tok[t] = 0 /\ got[t] = 0
            BY <2>3 DEF Inv, TransactInv, OwedInv
        <3>2. UNCHANGED <<tok, got>>
            BY <1>1, <2>3, <3>1 DEF Leave, CallType
        <3>3. FailRegistered[t] = "none" /\ FailRegistered \in [Tasks -> {"none", "undone", "reply", "failed"}]
            BY <1>1, <2>3, FailRegisteredType DEF FailRegistered
        <3>4. fut' = FailRegistered
            BY <2>3, <3>3 DEF Leave
        <3> QED
            BY <2>1, <3>2, <3>4
    <2> QED
        BY <2>1, <2>2, <2>3
<1> QED
    BY <1>4, <1>5

\* transact() up to its await.
LEMMA Asks ==
    ASSUME Inv, NEW t \in Tasks, pc[t] = "idle", Connected, Issue(t), UNCHANGED <<writer, conn, inbox>>
    PROVE  Promised
<1>1. fut[t] = "none"
    BY DEF Inv, TransactInv, InTransact
<1>2. Owed' \in {Owed, Owed \cup {issued + 1}}
    BY IssueOwed
<1>3. Service!Ask(t)
    BY <1>1, <1>2 DEF Connected, Issue, Service!Ask
<1> QED
    BY <1>3 DEF Promised, Service!Next

\* Who waits for an answer is who is registered under its ID.
LEMMA Awaited ==
    ASSUME Inv, NEW id \in Ids
    PROVE  Service!Waiters(id) = {t \in Tasks : Answers(id, t)}
<1> SUFFICES ASSUME NEW t \in Tasks, fut[t] = "undone"
             PROVE  tok[t] = id <=> pending[id] = tok[t]
    BY DEF Service!Waiters, Answers
<1>1. tok[t] # 0 /\ mid[t] = tok[t] /\ pending[mid[t]] = tok[t]
    BY DEF Inv, TransactInv, PendingInv
<1>2. pending[id] = tok[t] => mid[t] = id
    BY <1>1 DEF Inv, TransactInv, PendingInv
<1> QED
    BY <1>1, <1>2

\* A response: its ID is the request it answers.
LEMMA Response ==
    ASSUME Inv, OwedInv, NEW c, Reads(c, {"response"}), UNCHANGED <<writer, conn, issued, tok, wire>>,
           \/ /\ \A t \in Tasks : ~Answers(Incoming.id, t)
              /\ UNCHANGED <<fut, got>>
           \/ \E t \in Tasks : /\ Answers(Incoming.id, t)
                               /\ fut' = [fut EXCEPT ![t] = "reply"]
                               /\ got' = [got EXCEPT ![t] = Incoming.tok]
    PROVE  Promised
<1> DEFINE n == Incoming.tok
<1>1. /\ n \in Owed /\ Owed' = Owed \ {n}
      /\ Incoming.id \in Ids /\ Incoming.id = n
    <2>1. Incoming.kind = "response" /\ Incoming = inbox[1] /\ 1 \in 1..Len(inbox)
        BY TailFacts
    <2> QED
        BY <2>1, TailOwed DEF Inv, WireInv
<1>2. CallType
    BY DEF Inv, TypeOK
<1>3. Service!Waiters(n) = {t \in Tasks : Answers(n, t)}
    BY <1>1, Awaited
<1>4. /\ fut' = [t \in Tasks |-> IF t \in Service!Waiters(n) THEN "reply" ELSE fut[t]]
      /\ got' = [t \in Tasks |-> IF t \in Service!Waiters(n) THEN n ELSE got[t]]
    <2>1. CASE (\A t \in Tasks : ~Answers(Incoming.id, t)) /\ UNCHANGED <<fut, got>>
        BY <1>1, <1>2, <1>3, <2>1 DEF CallType
    <2>2. ASSUME NEW t \in Tasks, Answers(Incoming.id, t), fut' = [fut EXCEPT ![t] = "reply"],
                 got' = [got EXCEPT ![t] = Incoming.tok]
          PROVE  /\ fut' = [u \in Tasks |-> IF u \in Service!Waiters(n) THEN "reply" ELSE fut[u]]
                 /\ got' = [u \in Tasks |-> IF u \in Service!Waiters(n) THEN n ELSE got[u]]
        <3>1. \A u \in Tasks : Answers(n, u) => u = t
            BY <1>1, <2>2 DEF Answers, Inv, TransactInv
        <3>2. Service!Waiters(n) = {t}
            BY <1>1, <1>3, <2>2, <3>1
        <3> QED
            BY <1>2, <2>2, <3>2 DEF CallType
    <2> QED
        BY <2>1, <2>2
<1>5. Service!Answer(n)
    BY <1>1, <1>4 DEF Service!Answer
<1> QED
    BY <1>1, <1>5 DEF Promised, Service!Next

LEMMA PromiseStep == Inv /\ OwedInv /\ [Next]_vars => Promised
<1> SUFFICES ASSUME Inv, OwedInv, [Next]_vars PROVE Promised
    OBVIOUS
<1>1. ASSUME UNCHANGED <<writer, conn, issued, fut, tok, got, wire, inbox>> PROVE Promised
    <2>1. Owed' = Owed
        BY <1>1 DEF Owed
    <2> QED
        BY <1>1, <2>1, Unseen
<1>2. ASSUME NEW t \in Tasks, Connect(t) PROVE Promised
    <2>1. CASE ConnectStart(t) \/ OpenFails(t) \/ HandshakeAccepted(t)
        BY <1>1, <2>1 DEF ConnectStart, OpenFails, HandshakeAccepted, object, network
    <2>2. CASE OpenSucceeds(t)
        <3>1. writer = 0
            BY <2>2 DEF OpenSucceeds, Inv, ConnectInv
        <3>2. Owed' = Owed
            BY <2>2 DEF OpenSucceeds, Owed
        <3>3. Service!Up
            BY <2>2, <3>1, <3>2 DEF OpenSucceeds, Service!Up, Service!calls
        <3> QED
            BY <3>3 DEF Promised, Service!Next
    <2>3. CASE HandshakeFails(t)
        BY <2>3, Ends DEF HandshakeFails, Abort, Shutdown
    <2> QED
        BY <1>2, <2>1, <2>2, <2>3 DEF Connect
<1>3. ASSUME NEW t \in Tasks, Transact(t) \/ Close(t) PROVE Promised
    <2>1. CASE TransactStart(t) \/ CloseStart(t)
        BY <2>1, Asks DEF TransactStart, CloseStart
    <2>2. CASE TransactReturns(t) \/ TransactGivesUp(t)
        <3>1. Owed' = Owed
            BY <2>2 DEF TransactReturns, TransactGivesUp, network, Owed
        <3> QED
            BY <2>2, <3>1, Returns DEF TransactReturns, TransactGivesUp, network
    <2>3. CASE GoodbyeEnds(t)
        BY <2>3, Ends DEF GoodbyeEnds, Abort, Shutdown
    <2>4. CASE CloseNow(t)
        BY <2>4, Ends DEF CloseNow, Abort, Shutdown
    <2> QED
        BY <1>3, <2>1, <2>2, <2>3, <2>4 DEF Transact, Close
<1>4. ASSUME NEW c \in loops, ReadLoop(c) PROVE Promised
    <2>1. ASSUME NEW exc, LoopStops(c, exc) PROVE Promised
        BY <2>1, Ends DEF LoopStops, Shutdown
    <2>2. CASE DispatchResponse(c) \/ DispatchUnmatched(c)
        BY <2>2, Response DEF DispatchResponse, DispatchUnmatched, calls
    <2>3. ASSUME NEW kinds, Reads(c, kinds), "response" \notin kinds,
                 UNCHANGED <<writer, conn, issued, fut, tok, got, wire>>
          PROVE  Promised
        <3>1. Incoming.kind # "response"
            BY <2>3 DEF Reads
        <3> QED
            BY <2>3, <3>1, TailOwed, Unseen
    <2>4. CASE DispatchKeepalive(c) \/ DispatchReport(c) \/ DispatchConnEvent(c) \/ DispatchNotification(c)
        <3>1. \E kinds : Reads(c, kinds) /\ "response" \notin kinds
            BY <2>4 DEF DispatchKeepalive, DispatchReport, DispatchConnEvent, DispatchNotification, ConnEvents
        <3>2. UNCHANGED <<writer, conn, issued, fut, tok, got, wire>>
            BY <2>4 DEF DispatchKeepalive, DispatchReport, DispatchConnEvent, DispatchNotification,
                        object, calls
        <3> QED
            BY <2>3, <3>1, <3>2
    <2> QED
        BY <1>4, <2>1, <2>2, <2>4 DEF ReadLoop, LoopEnds, LoopBreaks
<1>5. CASE Peer
    <2>1. ASSUME NEW kind \in Chatter, PeerSends(kind) PROVE Promised
        <3>1. kind # "response"
            BY DEF Kinds
        <3> QED
            BY <2>1, <3>1, SendOwed, Unseen DEF PeerSends, object, calls
    <2>2. ASSUME NEW r \in wire, PeerReplies(r) PROVE Promised
        BY <2>2, SendOwed, Unseen DEF PeerReplies, object, calls
    <2>3. CASE PeerHangsUp
        BY <2>3, SendOwed, Unseen DEF PeerHangsUp, object, calls
    <2> QED
        BY <1>5, <2>1, <2>2, <2>3 DEF Peer
<1>6. ASSUME (\E q \in Queues : Take(q)) \/ UNCHANGED vars PROVE Promised
    BY <1>1, <1>6 DEF Take, vars, object, calls, network
<1> QED
    BY <1>2, <1>3, <1>4, <1>5, <1>6 DEF Next

\* LLRPClient implements RequestService: whatever the tasks, the event loop and
\* the reader do, transact() returns the answer to its own request or is told of
\* the end of its connection, and no answer is used twice or for a later request.
THEOREM ServesItsCallers == Spec => Serves
<1>1. Init => OwedInv /\ Service!Init
    <2> SUFFICES ASSUME Init PROVE OwedInv /\ Service!Init
        OBVIOUS
    <2>1. Owed = {}
        BY DEF Init, Owed
    <2> QED
        BY <2>1 DEF Init, OwedInv, Service!Init
<1>2. Inv /\ OwedInv /\ [Next]_vars => OwedInv'
    BY OwedStep
<1>3. Inv /\ OwedInv /\ [Next]_vars => [Service!Next]_Service!vars
    BY PromiseStep DEF Promised
<1> QED
    BY <1>1, <1>2, <1>3, Invariance, PTL DEF Spec, Serves, Service!Spec

=============================================================================
