------------------------- MODULE PacketStreamProofs -------------------------
(***************************************************************************)
(* Proofs about PacketStream, for numbers of any width and packets of any  *)
(* sizes.                                                                  *)
(***************************************************************************)
EXTENDS PacketStream, VarIntProofs

-----------------------------------------------------------------------------
(* Sums.                                                                   *)

Sums(s) ==
  CHOOSE f : f = [n \in 0..Len(s) |-> IF n = 0 THEN 0 ELSE f[n - 1] + s[n]]

LEMMA SumsCountUp ==
  ASSUME NEW s \in Seq(Nat)
  PROVE  /\ Len(s) \in Nat
         /\ Sums(s) \in [0..Len(s) -> Nat]
         /\ Sums(s)[0] = 0
         /\ \A n \in 1..Len(s) : Sums(s)[n] = Sums(s)[n - 1] + s[n]
         /\ Total(s) = Sums(s)[Len(s)]
<1> DEFINE P(f) == f = [n \in 0..Len(s) |-> IF n = 0 THEN 0
                                            ELSE f[n - 1] + s[n]]
           add == [n \in 1..Len(s) |-> [x \in Nat |-> x + s[n]]]
<1>1. Len(s) \in Nat /\ \A n \in 1..Len(s) : s[n] \in Nat
  BY LenProperties, ElementOfSeq
<1>2. PICK f \in [0..Len(s) -> Nat] : CountsUp(f, Len(s), 0, add)
  <2>1. 0 \in Nat /\ add \in [1..Len(s) -> [Nat -> Nat]]
    BY <1>1
  <2> HIDE DEF add
  <2> QED BY <1>1, <2>1, CountingFunction
<1>3. P(f)
  <2>1. ASSUME NEW n \in 0..Len(s)
        PROVE  (IF n = 0 THEN 0 ELSE add[n][f[n - 1]])
                 = IF n = 0 THEN 0 ELSE f[n - 1] + s[n]
    <3>1. n # 0 => n \in 1..Len(s) /\ n - 1 \in 0..Len(s)
      BY <1>1
    <3> QED BY <3>1
  <2> QED BY <1>2, <2>1 DEF CountsUp
<1>4. P(Sums(s))
  <2>1. Sums(s) = CHOOSE g : P(g)
    BY DEF Sums
  <2> HIDE DEF P
  <2> QED BY <1>3, <2>1
<1>5. \A n \in 0..Len(s) : Sums(s)[n] \in Nat
  <2> DEFINE T == {n \in 0..Len(s) : Sums(s)[n] \in Nat}
  <2>1. 0 \in T
    BY <1>1, <1>4
  <2>2. ASSUME NEW n \in 1..Len(s), n - 1 \in T PROVE n \in T
    <3>1. Sums(s)[n] = Sums(s)[n - 1] + s[n]
      BY <1>1, <1>4
    <3> QED BY <1>1, <2>2, <3>1
  <2> HIDE DEF T
  <2>3. 0..Len(s) \subseteq T
    BY <1>1, <2>1, <2>2, InductiveInterval
  <2> QED BY <2>3 DEF T
<1>6. Sums(s) = [n \in 0..Len(s) |-> Sums(s)[n]]
  BY <1>4
<1>7. Total(s) = Sums(s)[Len(s)]
  BY DEF Total, Sums
<1>8. /\ Sums(s)[0] = 0
      /\ \A n \in 1..Len(s) : Sums(s)[n] = Sums(s)[n - 1] + s[n]
  BY <1>1, <1>4
<1> QED BY <1>1, <1>5, <1>6, <1>7, <1>8

LEMMA TotalEmpty == Total(<<>>) = 0
<1>1. <<>> \in Seq(Nat) /\ Len(<<>>) = 0
  OBVIOUS
<1> QED BY <1>1, SumsCountUp

LEMMA TotalType ==
  ASSUME NEW s \in Seq(Nat)
  PROVE  Total(s) \in Nat
BY SumsCountUp

LEMMA TotalAppend ==
  ASSUME NEW s \in Seq(Nat), NEW x \in Nat
  PROVE  Total(Append(s, x)) = Total(s) + x
<1> DEFINE r == Append(s, x)
           l == Len(s)
           T == {n \in 0..l : Sums(r)[n] = Sums(s)[n]}
<1>1. /\ r \in Seq(Nat) /\ Len(r) = l + 1 /\ l \in Nat
      /\ \A n \in 1..l : r[n] = s[n]
      /\ r[l + 1] = x
  BY AppendProperties, LenProperties
<1> HIDE DEF r, l
<1>2. /\ Sums(r)[0] = 0
      /\ \A n \in 1..(l + 1) : Sums(r)[n] = Sums(r)[n - 1] + r[n]
      /\ Total(r) = Sums(r)[l + 1]
  BY <1>1, SumsCountUp
<1>3. /\ Sums(s)[0] = 0
      /\ \A n \in 1..l : Sums(s)[n] = Sums(s)[n - 1] + s[n]
      /\ Total(s) = Sums(s)[l]
  BY SumsCountUp DEF l
<1>4. 0 \in T
  BY <1>1, <1>2, <1>3
<1>5. ASSUME NEW n \in 1..l, n - 1 \in T PROVE n \in T
  <2>1. n \in 1..(l + 1) /\ n \in 0..l
    BY <1>1
  <2> QED BY <1>1, <1>2, <1>3, <1>5, <2>1
<1>6. Sums(r)[l] = Sums(s)[l]
  <2> HIDE DEF T
  <2>1. 0..l \subseteq T
    BY <1>1, <1>4, <1>5, InductiveInterval
  <2> QED BY <1>1, <2>1 DEF T
<1>7. l + 1 \in 1..(l + 1) /\ (l + 1) - 1 = l
  BY <1>1
<1> QED BY <1>1, <1>2, <1>3, <1>6, <1>7 DEF r

LEMMA TotalConcat ==
  ASSUME NEW s \in Seq(Nat), NEW t \in Seq(Nat)
  PROVE  s \o t \in Seq(Nat) /\ Total(s \o t) = Total(s) + Total(t)
<1> DEFINE T == {u \in Seq(Nat) : Total(s \o u) = Total(s) + Total(u)}
<1>1. <<>> \in T
  <2>1. s \o <<>> = s /\ <<>> \in Seq(Nat) /\ Total(s) \in Nat
    BY ConcatEmptySeq, TotalType
  <2> QED BY <2>1, TotalEmpty
<1>2. ASSUME NEW u \in T, NEW x \in Nat PROVE Append(u, x) \in T
  <2>1. /\ s \o u \in Seq(Nat)
        /\ Append(u, x) \in Seq(Nat)
        /\ s \o Append(u, x) = Append(s \o u, x)
    BY ConcatProperties, AppendProperties, AddBack
  <2>2. /\ Total(Append(s \o u, x)) = Total(s \o u) + x
        /\ Total(Append(u, x)) = Total(u) + x
    BY <2>1, TotalAppend
  <2>3. Total(s) \in Nat /\ Total(u) \in Nat
    BY TotalType
  <2>4. Total(s \o Append(u, x)) = Total(s) + Total(Append(u, x))
    BY <2>1, <2>2, <2>3
  <2> QED BY <2>1, <2>4
<1>3. T = Seq(Nat)
  <2> HIDE DEF T
  <2>1. T \in SUBSET Seq(Nat)
    BY DEF T
  <2> QED BY <1>1, <1>2, <2>1, InductiveSetOfSequences
<1> QED BY <1>3, ConcatProperties

LEMMA TotalSingle ==
  ASSUME NEW x \in Nat
  PROVE  <<x>> \in Seq(Nat) /\ Total(<<x>>) = x
<1>1. <<>> \in Seq(Nat) /\ Append(<<>>, x) = <<x>>
  OBVIOUS
<1>2. Total(<<x>>) = 0 + x
  BY <1>1, TotalAppend, TotalEmpty
<1> QED BY <1>2

LEMMA TotalFirst ==
  ASSUME NEW s \in Seq(Nat), s # <<>>
  PROVE  /\ Head(s) \in Nat /\ Tail(s) \in Seq(Nat)
         /\ Total(s) = Head(s) + Total(Tail(s))
<1>1. /\ Head(s) \in Nat /\ Tail(s) \in Seq(Nat)
      /\ <<Head(s)>> \o Tail(s) = s
  BY HeadTailProperties
<1>2. <<Head(s)>> \in Seq(Nat) /\ Total(<<Head(s)>>) = Head(s)
  BY <1>1, TotalSingle
<1> QED BY <1>1, <1>2, TotalConcat

\* The first number is made smaller.
LEMMA TotalReduced ==
  ASSUME NEW s \in Seq(Nat), s # <<>>, NEW x \in Nat
  PROVE  /\ [s EXCEPT ![1] = x] \in Seq(Nat)
         /\ Total([s EXCEPT ![1] = x]) = Total(s) - Head(s) + x
<1> DEFINE r == [s EXCEPT ![1] = x]
<1>1. /\ Len(s) \in Nat /\ Len(s) >= 1 /\ 1 \in DOMAIN s
      /\ DOMAIN s = 1..Len(s)
  BY LenProperties, EmptySeq
<1>2. r \in Seq(Nat) /\ Len(r) = Len(s) /\ Head(r) = x /\ r # <<>>
  BY <1>1, ExceptSeq, EmptySeq
<1>3. Tail(r) = Tail(s)
  BY <1>1, <1>2
<1>4. /\ Total(r) = x + Total(Tail(s))
      /\ Total(s) = Head(s) + Total(Tail(s))
      /\ Tail(s) \in Seq(Nat) /\ Head(s) \in Nat
  BY <1>2, <1>3, TotalFirst
<1>5. Total(Tail(s)) \in Nat
  BY <1>4, TotalType
<1> QED BY <1>2, <1>4, <1>5

LEMMA TotalBytes ==
  ASSUME NEW n \in Nat
  PROVE  Bytes(n) \in Seq(Nat) /\ Total(Bytes(n)) = n
<1> DEFINE T == {k \in Nat : Total(Bytes(k)) = k}
<1>1. \A k \in Nat : Bytes(k) \in Seq(Nat)
  BY DEF Bytes
<1>2. 0 \in T
  <2>1. Bytes(0) = <<>>
    BY DEF Bytes
  <2> QED BY <2>1, TotalEmpty
<1>3. ASSUME NEW k \in T PROVE k + 1 \in T
  <2>1. Bytes(k + 1) = Append(Bytes(k), 1)
    BY DEF Bytes
  <2>2. Total(Append(Bytes(k), 1)) = Total(Bytes(k)) + 1
    BY <1>1, TotalAppend
  <2>3. Total(Bytes(k + 1)) = k + 1
    BY <2>1, <2>2
  <2> QED BY <2>3
<1>4. T = Nat
  <2> HIDE DEF T
  <2>1. T \in SUBSET Nat
    BY DEF T
  <2> QED BY <1>2, <1>3, <2>1, InductiveSet
<1> QED BY <1>1, <1>4

-----------------------------------------------------------------------------
(* The packets: the number announced is what is written behind it.         *)

LEMMA BytesOfSize ==
  ASSUME NEW n \in Bits
  PROVE  /\ n \in Nat /\ sizeVarInt[n] \in Nat
         /\ varInt(n) \in Seq(Nat) /\ Total(varInt(n)) = sizeVarInt[n]
         /\ string(n) \in Seq(Nat) /\ Total(string(n)) = sizeStringRaw(n)
<1>1. n \in Nat /\ sizeVarInt[n] \in Nat
  BY SizeOfVarInt, Widths DEF Bits
<1>2. varInt(n) \in Seq(Nat) /\ Total(varInt(n)) = sizeVarInt[n]
  BY <1>1, TotalBytes DEF varInt
<1>3. Bytes(n) \in Seq(Nat) /\ Total(Bytes(n)) = n
  BY <1>1, TotalBytes
<1> QED BY <1>1, <1>2, <1>3, TotalConcat DEF string, sizeStringRaw

\* A sequence of numbers is added to another.
LEMMA TotalPlus ==
  ASSUME NEW n \in Nat, NEW s \in [1..n -> Nat], NEW t \in [1..n -> Nat]
  PROVE  Total([i \in 1..n |-> s[i] + t[i]]) = Total(s) + Total(t)
<1> DEFINE r == [i \in 1..n |-> s[i] + t[i]]
           T == {k \in 0..n : Sums(r)[k] = Sums(s)[k] + Sums(t)[k]}
<1>1. /\ r \in Seq(Nat) /\ s \in Seq(Nat) /\ t \in Seq(Nat)
      /\ Len(r) = n /\ Len(s) = n /\ Len(t) = n
      /\ \A i \in 1..n : r[i] = s[i] + t[i]
  OBVIOUS
<1> HIDE DEF r
<1>2. /\ Sums(r)[0] = 0 /\ Total(r) = Sums(r)[n]
      /\ \A k \in 1..n : Sums(r)[k] = Sums(r)[k - 1] + r[k]
  BY <1>1, SumsCountUp
<1>3. /\ Sums(s)[0] = 0 /\ Total(s) = Sums(s)[n]
      /\ Sums(s) \in [0..n -> Nat]
      /\ \A k \in 1..n : Sums(s)[k] = Sums(s)[k - 1] + s[k]
  BY <1>1, SumsCountUp
<1>4. /\ Sums(t)[0] = 0 /\ Total(t) = Sums(t)[n]
      /\ Sums(t) \in [0..n -> Nat]
      /\ \A k \in 1..n : Sums(t)[k] = Sums(t)[k - 1] + t[k]
  BY <1>1, SumsCountUp
<1>5. 0 \in T
  <2>1. Sums(r)[0] = 0 /\ Sums(s)[0] = 0 /\ Sums(t)[0] = 0
    BY <1>2, <1>3, <1>4
  <2> QED BY <2>1
<1>6. ASSUME NEW k \in 1..n, k - 1 \in T PROVE k \in T
  <2>1. /\ Sums(r)[k] = Sums(r)[k - 1] + r[k]
        /\ Sums(s)[k] = Sums(s)[k - 1] + s[k]
        /\ Sums(t)[k] = Sums(t)[k - 1] + t[k]
        /\ r[k] = s[k] + t[k]
    BY <1>1, <1>2, <1>3, <1>4
  <2>2. /\ Sums(s)[k - 1] \in Nat /\ Sums(t)[k - 1] \in Nat
        /\ s[k] \in Nat /\ t[k] \in Nat
    BY <1>3, <1>4
  <2> QED BY <1>6, <2>1, <2>2
<1>7. n \in T
  <2> HIDE DEF T
  <2>1. 0..n \subseteq T
    BY <1>5, <1>6, InductiveInterval
  <2> QED BY <2>1
<1> QED BY <1>2, <1>3, <1>4, <1>7 DEF r

\* Sequences put behind each other.
LEMMA TotalFlatten ==
  ASSUME NEW n \in Nat, NEW ss \in [1..n -> Seq(Nat)]
  PROVE  /\ FlattenSeq(ss) \in Seq(Nat)
         /\ Total(FlattenSeq(ss)) = Total([i \in 1..n |-> Total(ss[i])])
<1> DEFINE t == [i \in 1..n |-> Total(ss[i])]
           P(f) == f = [i \in 1..n |-> IF i = 1 THEN ss[i]
                                       ELSE f[i - 1] \o ss[i]]
           flat == CHOOSE f : P(f)
           add == [i \in 1..n |-> [s \in Seq(Nat) |-> s \o ss[i]]]
           T == {k \in 0..n : k # 0 => /\ flat[k] \in Seq(Nat)
                                       /\ Total(flat[k]) = Sums(t)[k]}
<1>1. Len(ss) = n /\ \A i \in 1..n : ss[i] \in Seq(Nat)
  OBVIOUS
<1>2. /\ t \in Seq(Nat) /\ Len(t) = n
      /\ \A i \in 1..n : t[i] = Total(ss[i]) /\ Total(ss[i]) \in Nat
  BY <1>1, TotalType
<1>3. FlattenSeq(ss) = IF n = 0 THEN ss ELSE flat[n]
  BY <1>1 DEF FlattenSeq
<1> HIDE DEF t
<1>4. PICK g \in [0..n -> Seq(Nat)] : CountsUp(g, n, <<>>, add)
  <2>1. <<>> \in Seq(Nat)
    OBVIOUS
  <2>2. \A i \in 1..n : \A s \in Seq(Nat) : s \o ss[i] \in Seq(Nat)
    BY <1>1, ConcatProperties
  <2>3. add \in [1..n -> [Seq(Nat) -> Seq(Nat)]]
    BY <2>2
  <2> HIDE DEF add
  <2> QED BY <2>1, <2>3, CountingFunction
<1>5. \A i \in 1..n : g[i] = g[i - 1] \o ss[i] /\ g[i - 1] \in Seq(Nat)
  <2> SUFFICES ASSUME NEW i \in 1..n
               PROVE  g[i] = g[i - 1] \o ss[i] /\ g[i - 1] \in Seq(Nat)
    OBVIOUS
  <2>1. i \in 0..n /\ i - 1 \in 0..n /\ i # 0
    OBVIOUS
  <2> QED BY <1>4, <2>1 DEF CountsUp
<1>6. g[0] = <<>>
  BY <1>4 DEF CountsUp
<1>7. P([i \in 1..n |-> g[i]])
  <2> DEFINE f == [i \in 1..n |-> g[i]]
  <2>1. ASSUME NEW i \in 1..n
        PROVE  g[i] = IF i = 1 THEN ss[i] ELSE f[i - 1] \o ss[i]
    <3>1. CASE i = 1
      <4>1. g[i] = <<>> \o ss[i]
        <5>1. g[i] = g[i - 1] \o ss[i]
          BY <1>5
        <5>2. i - 1 = 0
          BY <3>1
        <5> QED BY <1>6, <5>1, <5>2
      <4> QED BY <1>1, <3>1, <4>1, ConcatEmptySeq
    <3>2. CASE i # 1
      <4>1. i - 1 \in 1..n
        BY <3>2
      <4> QED BY <1>5, <3>2, <4>1
    <3> QED BY <3>1, <3>2
  <2> QED BY <2>1
<1>8. P(flat)
  <2> HIDE DEF P
  <2> QED BY <1>7
<1> HIDE DEF flat
<1>9. \A i \in 1..n : flat[i] = IF i = 1 THEN ss[i] ELSE flat[i - 1] \o ss[i]
  BY <1>8
<1>10. /\ Sums(t)[0] = 0 /\ Total(t) = Sums(t)[n]
       /\ \A k \in 1..n : Sums(t)[k] = Sums(t)[k - 1] + t[k]
  BY <1>2, SumsCountUp
<1>11. 0 \in T
  OBVIOUS
<1>12. ASSUME NEW k \in 1..n, k - 1 \in T PROVE k \in T
  <2>1. Sums(t)[k] = Sums(t)[k - 1] + Total(ss[k]) /\ Total(ss[k]) \in Nat
    BY <1>2, <1>10
  <2>2. CASE k = 1
    BY <1>1, <1>9, <1>10, <2>1, <2>2
  <2>3. CASE k # 1
    <3>1. flat[k] = flat[k - 1] \o ss[k] /\ ss[k] \in Seq(Nat)
      BY <1>1, <1>9, <2>3
    <3>2. /\ flat[k - 1] \in Seq(Nat)
          /\ Total(flat[k - 1]) = Sums(t)[k - 1]
      <4>1. k - 1 # 0
        BY <2>3
      <4> QED BY <1>12, <4>1
    <3>3. /\ flat[k] \in Seq(Nat)
          /\ Total(flat[k]) = Total(flat[k - 1]) + Total(ss[k])
      BY <3>1, <3>2, TotalConcat
    <3>4. Total(flat[k]) = Sums(t)[k]
      BY <2>1, <3>2, <3>3
    <3> QED BY <3>3, <3>4
  <2> QED BY <2>2, <2>3
<1>13. n \in T
  <2> HIDE DEF T
  <2>1. 0..n \subseteq T
    BY <1>11, <1>12, InductiveInterval
  <2> QED BY <2>1
<1>14. CASE n = 0
  <2>1. ss = <<>> /\ t = <<>>
    BY <1>14 DEF t
  <2> QED BY <1>3, <1>14, <2>1, TotalEmpty DEF t
<1>15. CASE n # 0
  BY <1>3, <1>10, <1>13, <1>15 DEF t
<1> QED BY <1>14, <1>15

-----------------------------------------------------------------------------
\* A call that reads, and what a sequence of them reads.
Call == [how : {"readByte", "recv_all"}, n : Nat]

Counts(c) == [i \in DOMAIN c |-> c[i].n]

OneByOne(c) == \A i \in DOMAIN c : c[i].how = "readByte" => c[i].n = 1

\* The writes s write k bytes; the calls c read k bytes.
Writes(s, k) == s \in Seq(Nat) /\ Total(s) = k
Reads(c, k)  == c \in Seq(Call) /\ OneByOne(c) /\ Total(Counts(c)) = k

LEMMA CountsProperties ==
  ASSUME NEW c \in Seq(Call)
  PROVE  /\ Counts(c) \in Seq(Nat)
         /\ Len(c) \in Nat /\ DOMAIN c = 1..Len(c) /\ Len(Counts(c)) = Len(c)
         /\ \A i \in 1..Len(c) : Counts(c)[i] = c[i].n /\ c[i] \in Call
<1>1. Len(c) \in Nat /\ DOMAIN c = 1..Len(c)
  BY LenProperties
<1>2. \A i \in 1..Len(c) : c[i] \in Call
  BY ElementOfSeq
<1>3. \A i \in 1..Len(c) : c[i].n \in Nat
  BY <1>2 DEF Call
<1> QED BY <1>1, <1>2, <1>3 DEF Counts

LEMMA ReadsNothing == Reads(<<>>, 0)
<1>1. <<>> \in Seq(Call) /\ Counts(<<>>) = <<>>
  BY DEF Counts
<1> QED BY <1>1, TotalEmpty DEF Reads, OneByOne

LEMMA ReadsOneByOne ==
  ASSUME NEW n \in Nat
  PROVE  Reads(readByte(n), n)
<1>1. readByte(n) \in Seq(Call) /\ OneByOne(readByte(n))
  BY DEF readByte, Call, OneByOne
<1>2. Counts(readByte(n)) = Bytes(n)
  BY DEF readByte, Counts, Bytes
<1> QED BY <1>1, <1>2, TotalBytes DEF Reads

LEMMA ReadsAtOnce ==
  ASSUME NEW n \in Nat
  PROVE  Reads(recv_all(n), n)
<1>1. recv_all(n) \in Seq(Call) /\ OneByOne(recv_all(n))
  BY DEF recv_all, Call, OneByOne
<1>2. Counts(recv_all(n)) = <<n>>
  BY DEF recv_all, Counts
<1> QED BY <1>1, <1>2, TotalSingle DEF Reads

LEMMA ReadsConcat ==
  ASSUME NEW c, NEW d, NEW m \in Nat, NEW n \in Nat, Reads(c, m), Reads(d, n)
  PROVE  Reads(c \o d, m + n)
<1>1. c \in Seq(Call) /\ d \in Seq(Call) /\ OneByOne(c) /\ OneByOne(d)
  BY DEF Reads
<1>2. /\ c \o d \in Seq(Call) /\ Len(c \o d) = Len(c) + Len(d)
      /\ \A i \in 1..(Len(c) + Len(d)) :
            (c \o d)[i] = IF i <= Len(c) THEN c[i] ELSE d[i - Len(c)]
  BY <1>1, ConcatProperties
<1>3. /\ Counts(c) \in Seq(Nat) /\ Len(Counts(c)) = Len(c) /\ Len(c) \in Nat
      /\ DOMAIN c = 1..Len(c) /\ \A i \in 1..Len(c) : Counts(c)[i] = c[i].n
  BY <1>1, CountsProperties
<1>4. /\ Counts(d) \in Seq(Nat) /\ Len(Counts(d)) = Len(d) /\ Len(d) \in Nat
      /\ DOMAIN d = 1..Len(d) /\ \A i \in 1..Len(d) : Counts(d)[i] = d[i].n
  BY <1>1, CountsProperties
<1>5. /\ Counts(c \o d) \in Seq(Nat)
      /\ Len(Counts(c \o d)) = Len(c) + Len(d)
      /\ DOMAIN (c \o d) = 1..(Len(c) + Len(d))
      /\ \A i \in 1..(Len(c) + Len(d)) : Counts(c \o d)[i] = (c \o d)[i].n
  BY <1>2, CountsProperties
<1>6. ASSUME NEW i \in 1..(Len(c) + Len(d))
      PROVE  \/ i <= Len(c) /\ i \in 1..Len(c)
             \/ ~(i <= Len(c)) /\ i - Len(c) \in 1..Len(d)
  BY <1>3, <1>4
<1>7. Counts(c \o d) = Counts(c) \o Counts(d)
  <2>1. /\ Counts(c) \o Counts(d) \in Seq(Nat)
        /\ Len(Counts(c) \o Counts(d)) = Len(c) + Len(d)
        /\ \A i \in 1..(Len(c) + Len(d)) :
              (Counts(c) \o Counts(d))[i]
                 = IF i <= Len(c) THEN Counts(c)[i]
                                  ELSE Counts(d)[i - Len(c)]
    <3>1. \A a, b \in Seq(Nat) :
             /\ a \o b \in Seq(Nat) /\ Len(a \o b) = Len(a) + Len(b)
             /\ \A i \in 1..(Len(a) + Len(b)) :
                   (a \o b)[i] = IF i <= Len(a) THEN a[i] ELSE b[i - Len(a)]
      BY ConcatProperties
    <3>2. /\ Counts(c) \o Counts(d) \in Seq(Nat)
          /\ Len(Counts(c) \o Counts(d)) = Len(Counts(c)) + Len(Counts(d))
          /\ \A i \in 1..(Len(Counts(c)) + Len(Counts(d))) :
                (Counts(c) \o Counts(d))[i]
                   = IF i <= Len(Counts(c)) THEN Counts(c)[i]
                     ELSE Counts(d)[i - Len(Counts(c))]
      BY <1>3, <1>4, <3>1
    <3> QED BY <1>3, <1>4, <3>2
  <2>2. ASSUME NEW i \in 1..(Len(c) + Len(d))
        PROVE  Counts(c \o d)[i] = (Counts(c) \o Counts(d))[i]
    BY <1>2, <1>3, <1>4, <1>5, <1>6, <2>1
  <2> QED BY <1>5, <2>1, <2>2, SeqEqual
<1>8. OneByOne(c \o d)
  <2>1. ASSUME NEW i \in 1..(Len(c) + Len(d)), (c \o d)[i].how = "readByte"
        PROVE  (c \o d)[i].n = 1
    <3>1. CASE i <= Len(c) /\ i \in 1..Len(c)
      BY <1>1, <1>2, <1>3, <2>1, <3>1 DEF OneByOne
    <3>2. CASE ~(i <= Len(c)) /\ i - Len(c) \in 1..Len(d)
      BY <1>1, <1>2, <1>4, <2>1, <3>2 DEF OneByOne
    <3> QED BY <1>6, <3>1, <3>2
  <2> QED BY <1>5, <2>1 DEF OneByOne
<1> QED BY <1>2, <1>3, <1>4, <1>7, <1>8, TotalConcat DEF Reads

LEMMA WritesConcat ==
  ASSUME NEW s, NEW t, NEW m, NEW n, Writes(s, m), Writes(t, n)
  PROVE  Writes(s \o t, m + n)
BY TotalConcat DEF Writes

LEMMA WritesOne ==
  ASSUME NEW n \in Nat
  PROVE  Writes(<<n>>, n)
BY TotalSingle DEF Writes

LEMMA WritesTwo ==
  ASSUME NEW m \in Nat, NEW n \in Nat
  PROVE  Writes(<<m, n>>, m + n)
<1>1. <<m>> \o <<n>> = <<m, n>>
  <2>1. /\ <<m>> \in Seq(Nat) /\ <<n>> \in Seq(Nat)
        /\ Len(<<m>>) = 1 /\ Len(<<n>>) = 1
        /\ <<m>>[1] = m /\ <<n>>[1] = n
    OBVIOUS
  <2>2. /\ <<m>> \o <<n>> \in Seq(Nat) /\ Len(<<m>> \o <<n>>) = 2
        /\ (<<m>> \o <<n>>)[1] = m /\ (<<m>> \o <<n>>)[2] = n
    BY <2>1, ConcatProperties
  <2>3. /\ <<m, n>> \in Seq(Nat) /\ Len(<<m, n>>) = 2
        /\ <<m, n>>[1] = m /\ <<m, n>>[2] = n
    OBVIOUS
  <2> DEFINE s == <<m>> \o <<n>>
             t == <<m, n>>
  <2>4. s \in Seq(Nat) /\ t \in Seq(Nat) /\ Len(s) = 2 /\ Len(t) = 2
        /\ s[1] = t[1] /\ s[2] = t[2]
    BY <2>2, <2>3
  <2> HIDE DEF s, t
  <2>5. s = t
    <3>1. \A i \in 1..2 : s[i] = t[i]
      BY <2>4
    <3> QED BY <2>4, <3>1, SeqEqual
  <2> QED BY <2>5 DEF s, t
<1>2. Writes(<<m>> \o <<n>>, m + n)
  BY WritesOne, WritesConcat
<1> QED BY <1>1, <1>2

LEMMA WritesBytes ==
  ASSUME NEW n \in Bits
  PROVE  /\ n \in Nat /\ sizeVarInt[n] \in Nat /\ sizeStringRaw(n) \in Nat
         /\ Writes(varInt(n), sizeVarInt[n])
         /\ Writes(string(n), sizeStringRaw(n))
BY BytesOfSize DEF Writes, sizeStringRaw

-----------------------------------------------------------------------------
(* What is announced by the server is what it writes, and what it reads of *)
(* a packet is what the peer writes behind its length.                     *)

Whole(item) == \E k \in Nat : Writes(item.body, k) /\ Reads(item.calls, k)

LEMMA WrittenWhole ==
  ASSUME NEW number \in Nat, NEW body, Writes(body, number)
  PROVE  Whole(Written(number, body))
BY ReadsAtOnce DEF Whole, Written

LEMMA FromPeerWhole ==
  ASSUME NEW payload, NEW reads, NEW n \in Nat,
         Writes(payload, n), Reads(reads, n)
  PROVE  Whole(FromPeer(payload, reads))
<1>1. Writes(<<1>> \o payload, 1 + n)
  BY WritesOne, WritesConcat
<1>2. Reads(readByte(1) \o reads, 1 + n)
  BY ReadsOneByOne, ReadsConcat
<1> QED BY <1>1, <1>2 DEF Whole, FromPeer

LEMMA NumberWhole == ASSUME NEW who, NEW n PROVE Whole(Number(who, n))
<1>1. Writes(<<>>, 0)
  BY TotalEmpty DEF Writes
<1> QED BY <1>1, ReadsNothing DEF Whole, Number

LEMMA StatusResponseWhole ==
  ASSUME NEW header \in Nat, NEW footer \in Nat, header + footer \in Bits
  PROVE  Whole(StatusResponse(header, footer))
<1> DEFINE l == header + footer
<1>1. sizeVarInt[l] \in Nat /\ Writes(varInt(l), sizeVarInt[l])
  BY WritesBytes
<1>2. Writes(<<1>> \o varInt(l), 1 + sizeVarInt[l])
  BY <1>1, WritesOne, WritesConcat
<1>3. Writes(<<header, footer>>, l)
  BY WritesTwo
<1>4. Writes(<<1>> \o varInt(l) \o <<header, footer>>, 1 + sizeVarInt[l] + l)
  BY <1>2, <1>3, WritesConcat
<1>5. 1 + sizeVarInt[l] + l = 1 + l + sizeVarInt[l] /\ l \in Nat
  BY <1>1
<1> QED BY <1>1, <1>4, <1>5, WrittenWhole DEF StatusResponse

LEMMA LoginSuccessWhole ==
  ASSUME NEW name \in Bits, 0 \in Bits
  PROVE  Whole(LoginSuccess(name))
<1>1. /\ name \in Nat /\ sizeVarInt[name] \in Nat /\ sizeVarInt[0] \in Nat
      /\ Writes(string(name), sizeVarInt[name] + name)
      /\ Writes(varInt(0), sizeVarInt[0])
  BY WritesBytes DEF sizeStringRaw
<1>2. Writes(<<1, 16>>, 17)
  BY WritesTwo
<1>3. Writes(<<1, 16>> \o string(name), 17 + (sizeVarInt[name] + name))
  BY <1>1, <1>2, WritesConcat
<1>4. Writes(<<1, 16>> \o string(name) \o varInt(0),
             17 + (sizeVarInt[name] + name) + sizeVarInt[0])
  BY <1>1, <1>3, WritesConcat
<1>5. 17 + (sizeVarInt[name] + name) + sizeVarInt[0]
        = name + sizeVarInt[name] + 16 + 1 + sizeVarInt[0]
  BY <1>1
<1> QED BY <1>1, <1>4, <1>5, WrittenWhole DEF LoginSuccess

LEMMA FeatureFlagsWhole ==
  ASSUME 1 \in Bits, 7 \in Bits
  PROVE  Whole(FeatureFlags)
<1>1. /\ sizeVarInt[1] \in Nat /\ sizeVarInt[7] \in Nat
      /\ Writes(varInt(1), sizeVarInt[1])
      /\ Writes(string(7), sizeVarInt[7] + 7)
  BY WritesBytes DEF sizeStringRaw
<1>2. Writes(<<1>> \o varInt(1), 1 + sizeVarInt[1])
  BY <1>1, WritesOne, WritesConcat
<1>3. Writes(<<1>> \o varInt(1) \o string(7),
             1 + sizeVarInt[1] + (sizeVarInt[7] + 7))
  BY <1>1, <1>2, WritesConcat
<1>4. 1 + sizeVarInt[1] + (sizeVarInt[7] + 7)
        = 1 + sizeVarInt[1] + sizeVarInt[7] + 7
  BY <1>1
<1> QED BY <1>1, <1>3, <1>4, WrittenWhole DEF FeatureFlags

LEMMA KnownPacksWhole == Whole(KnownPacks)
BY WritesOne, WrittenWhole DEF KnownPacks

\* A field for each element of a sequence.
LEMMA WritesEach ==
  ASSUME NEW n \in Nat, NEW ss \in [1..n -> Seq(Nat)]
  PROVE  Writes(FlattenSeq(ss), Total([i \in 1..n |-> Total(ss[i])]))
BY TotalFlatten DEF Writes

LEMMA RegistryDataWhole ==
  ASSUME NEW id \in Bits, NEW entries \in Seq(Bits), Len(entries) \in Bits
  PROVE  Whole(RegistryData(id, entries))
<1> DEFINE n == Len(entries)
           ss == [i \in 1..n |-> string(entries[i]) \o <<1>>]
           sizes == [i \in 1..n |-> sizeStringRaw(entries[i])]
           ones == [i \in 1..n |-> 1]
<1>1. n \in Nat /\ DOMAIN entries = 1..n /\ \A i \in 1..n : entries[i] \in Bits
  BY LenProperties, ElementOfSeq
<1>2. ASSUME NEW i \in 1..n
      PROVE  /\ sizeStringRaw(entries[i]) \in Nat
             /\ Writes(string(entries[i]) \o <<1>>,
                       sizeStringRaw(entries[i]) + 1)
  BY <1>1, WritesBytes, WritesOne, WritesConcat
<1>3. /\ ss \in [1..n -> Seq(Nat)]
      /\ sizes \in [1..n -> Nat] /\ ones \in [1..n -> Nat]
      /\ \A i \in 1..n : Total(ss[i]) = sizes[i] + ones[i]
  BY <1>2 DEF Writes
<1>4. Total(ones) = n /\ Total(sizes) \in Nat
  <2>1. ones = Bytes(n)
    BY DEF Bytes
  <2>2. sizes \in Seq(Nat)
    BY <1>1, <1>3
  <2> QED BY <1>1, <2>1, <2>2, TotalBytes, TotalType
<1>5. Writes(FlattenSeq(ss), Total(sizes) + n)
  <2> HIDE DEF ss, sizes, ones
  <2>1. [i \in 1..n |-> Total(ss[i])] = [i \in 1..n |-> sizes[i] + ones[i]]
    BY <1>3
  <2> QED BY <1>1, <1>3, <1>4, <2>1, WritesEach, TotalPlus
<1>6. Each(entries, LAMBDA e : string(e) \o <<1>>) = FlattenSeq(ss)
  BY <1>1 DEF Each
<1>7. /\ sizeStringRaw(id) \in Nat /\ sizeVarInt[n] \in Nat
      /\ Writes(string(id), sizeStringRaw(id))
      /\ Writes(varInt(n), sizeVarInt[n])
  BY WritesBytes
<1> HIDE DEF n, ss, sizes, ones
<1>8. Writes(<<1>> \o string(id), 1 + sizeStringRaw(id))
  BY <1>7, WritesOne, WritesConcat
<1>9. Writes(<<1>> \o string(id) \o varInt(n),
             1 + sizeStringRaw(id) + sizeVarInt[n])
  BY <1>7, <1>8, WritesConcat
<1>10. Writes(<<1>> \o string(id) \o varInt(n) \o FlattenSeq(ss),
              1 + sizeStringRaw(id) + sizeVarInt[n] + (Total(sizes) + n))
  BY <1>5, <1>9, WritesConcat
<1>11. 1 + sizeStringRaw(id) + sizeVarInt[n] + (Total(sizes) + n)
         = 1 + sizeStringRaw(id) + sizeVarInt[n] + n + Total(sizes)
  BY <1>1, <1>4, <1>7
<1>12. 1 + sizeStringRaw(id) + sizeVarInt[n] + n + Total(sizes) \in Nat
  BY <1>1, <1>4, <1>7
<1>13. Whole(Written(1 + sizeStringRaw(id) + sizeVarInt[n] + n + Total(sizes),
                     <<1>> \o string(id) \o varInt(n) \o FlattenSeq(ss)))
  BY <1>10, <1>11, <1>12, WrittenWhole
<1>14. sizes = [i \in DOMAIN entries |-> sizeStringRaw(entries[i])]
  BY <1>1 DEF sizes
<1> QED BY <1>6, <1>13, <1>14 DEF RegistryData, n

LEMMA SendWhole ==
  ASSUME NEW fields, NEW n, Writes(fields, n)
  PROVE  Whole(send(fields))
<1>1. fields \in Seq(Nat) /\ 1 + Total(fields) \in Nat
  BY TotalType DEF Writes
<1> QED BY <1>1, WritesOne, WrittenWhole DEF send

LEMMA UpdateTagsWhole ==
  ASSUME NEW registry \in Bits, NEW tags \in Seq(Bits), Len(tags) \in Bits,
         NEW ids \in Seq(Bits), Len(ids) \in Bits, 1 \in Bits
  PROVE  Whole(UpdateTags(registry, tags, ids))
<1> DEFINE m == Len(tags)
           n == Len(ids)
           bs == [i \in 1..n |-> varInt(ids[i])]
           ts == [i \in 1..m |-> string(tags[i]) \o varInt(n)
                                    \o FlattenSeq(bs)]
<1>1. /\ n \in Nat /\ DOMAIN ids = 1..n /\ \A i \in 1..n : ids[i] \in Bits
      /\ m \in Nat /\ DOMAIN tags = 1..m /\ \A i \in 1..m : tags[i] \in Bits
  BY LenProperties, ElementOfSeq
<1>2. Each(ids, LAMBDA b : varInt(b)) = FlattenSeq(bs)
  BY <1>1 DEF Each
<1>3. Each(tags, LAMBDA t : string(t) \o varInt(Len(ids))
                               \o Each(ids, LAMBDA b : varInt(b)))
        = FlattenSeq(ts)
  BY <1>1, <1>2 DEF Each
<1>4. bs \in [1..n -> Seq(Nat)]
  BY <1>1, WritesBytes DEF Writes
<1>5. FlattenSeq(bs) \in Seq(Nat) /\ varInt(n) \in Seq(Nat)
  <2> HIDE DEF bs
  <2> QED BY <1>1, <1>4, WritesEach, WritesBytes DEF Writes
<1>6. ASSUME NEW i \in 1..m
      PROVE  string(tags[i]) \o varInt(n) \o FlattenSeq(bs) \in Seq(Nat)
  <2>1. string(tags[i]) \in Seq(Nat)
    BY <1>1, WritesBytes DEF Writes
  <2> QED BY <1>5, <2>1, ConcatProperties
<1>7. ts \in [1..m -> Seq(Nat)]
  BY <1>6
<1>8. FlattenSeq(ts) \in Seq(Nat)
  <2> HIDE DEF ts
  <2> QED BY <1>1, <1>7, WritesEach DEF Writes
<1>9. /\ varInt(1) \in Seq(Nat) /\ string(registry) \in Seq(Nat)
      /\ varInt(m) \in Seq(Nat)
  BY WritesBytes DEF Writes
<1> HIDE DEF m, ts
<1>10. varInt(1) \o string(registry) \o varInt(m) \o FlattenSeq(ts) \in Seq(Nat)
  BY <1>8, <1>9, ConcatProperties
<1> QED BY <1>3, <1>10, SendWhole DEF UpdateTags, Writes, m

LEMMA PlayerInfoUpdateWhole ==
  ASSUME NEW names \in Seq(Bits), Len(names) \in Bits, 0 \in Bits
  PROVE  Whole(PlayerInfoUpdate(names))
<1> DEFINE m == Len(names)
           ts == [i \in 1..m |-> Bytes(16) \o string(names[i]) \o varInt(0)]
<1>1. m \in Nat /\ DOMAIN names = 1..m /\ \A i \in 1..m : names[i] \in Bits
  BY LenProperties, ElementOfSeq
<1>2. Each(names, LAMBDA n : Bytes(16) \o string(n) \o varInt(0))
        = FlattenSeq(ts)
  BY <1>1 DEF Each
<1>3. ASSUME NEW i \in 1..m
      PROVE  Bytes(16) \o string(names[i]) \o varInt(0) \in Seq(Nat)
  <2>1. Bytes(16) \in Seq(Nat)
    BY TotalBytes
  <2>2. string(names[i]) \in Seq(Nat) /\ varInt(0) \in Seq(Nat)
    BY <1>1, WritesBytes DEF Writes
  <2> QED BY <2>1, <2>2, ConcatProperties
<1>4. ts \in [1..m -> Seq(Nat)]
  BY <1>3
<1>5. FlattenSeq(ts) \in Seq(Nat)
  <2> HIDE DEF ts
  <2> QED BY <1>1, <1>4, WritesEach DEF Writes
<1>6. varInt(m) \in Seq(Nat) /\ <<1>> \in Seq(Nat)
  BY WritesBytes DEF Writes
<1> HIDE DEF m, ts
<1>7. <<1>> \o varInt(m) \o FlattenSeq(ts) \in Seq(Nat)
  BY <1>5, <1>6, ConcatProperties
<1> QED BY <1>2, <1>7, SendWhole DEF PlayerInfoUpdate, Writes, m

-----------------------------------------------------------------------------
(* The packets of the peer.                                                *)

LEMMA HandshakeWhole ==
  ASSUME NEW version \in Bits, NEW address \in Bits, NEW intent \in Bits
  PROVE  Whole(Handshake(version, address, intent))
<1>1. /\ sizeVarInt[version] \in Nat /\ sizeStringRaw(address) \in Nat
      /\ sizeVarInt[intent] \in Nat
      /\ Writes(varInt(version), sizeVarInt[version])
      /\ Writes(string(address), sizeStringRaw(address))
      /\ Writes(varInt(intent), sizeVarInt[intent])
  BY WritesBytes
<1> DEFINE n == sizeVarInt[version] + sizeStringRaw(address) + 2
                  + sizeVarInt[intent]
<1>2. Writes(varInt(version) \o string(address),
             sizeVarInt[version] + sizeStringRaw(address))
  BY <1>1, WritesConcat
<1>3. Writes(varInt(version) \o string(address) \o <<2>>,
             sizeVarInt[version] + sizeStringRaw(address) + 2)
  BY <1>2, WritesOne, WritesConcat
<1>4. Writes(varInt(version) \o string(address) \o <<2>> \o varInt(intent), n)
  BY <1>1, <1>3, WritesConcat
<1>5. n \in Nat
  BY <1>1
<1>6. Reads(readByte(n), n)
  BY <1>5, ReadsOneByOne
<1> QED BY <1>4, <1>5, <1>6, FromPeerWhole DEF Handshake

LEMMA LoginStartWhole ==
  ASSUME NEW name \in Bits
  PROVE  Whole(LoginStart(name))
<1>1. /\ sizeStringRaw(name) \in Nat
      /\ Writes(string(name), sizeStringRaw(name))
  BY WritesBytes
<1>2. Writes(string(name) \o <<16>>, sizeStringRaw(name) + 16)
  BY <1>1, WritesOne, WritesConcat
<1>3. Reads(readByte(sizeStringRaw(name)) \o recv_all(16),
            sizeStringRaw(name) + 16)
  BY <1>1, ReadsOneByOne, ReadsAtOnce, ReadsConcat
<1>4. sizeStringRaw(name) + 16 \in Nat
  BY <1>1
<1> QED BY <1>2, <1>3, <1>4, FromPeerWhole DEF LoginStart

LEMMA IgnoredWhole ==
  ASSUME NEW data \in Nat
  PROVE  Whole(Ignored(data))
<1>1. length(<<data>>) - 1 = data
  BY TotalSingle DEF length
<1>2. Writes(<<data>>, data) /\ Reads(recv_all(data), data)
  BY WritesOne, ReadsAtOnce
<1> QED BY <1>1, <1>2, FromPeerWhole DEF Ignored

LEMMA ClientInformationWhole ==
  ASSUME NEW locale \in Bits, NEW rest \in Nat
  PROVE  Whole(ClientInformation(locale, rest))
<1> DEFINE payload == string(locale) \o <<1, rest>>
           s == sizeStringRaw(locale)
<1>1. /\ locale \in Nat /\ sizeVarInt[locale] \in Nat
      /\ s \in Nat /\ s = sizeVarInt[locale] + locale
      /\ Writes(string(locale), s)
  BY WritesBytes DEF sizeStringRaw
<1>2. Writes(payload, s + (1 + rest))
  BY <1>1, WritesTwo, WritesConcat
<1> HIDE DEF payload, s
<1>3. length(payload) - 1 - locale - sizeVarInt[locale] - 1 = rest
  <2>1. Total(payload) = s + (1 + rest)
    BY <1>2 DEF Writes
  <2>2. length(payload) = 1 + Total(payload)
    BY DEF length
  <2>3. length(payload) = 1 + (sizeVarInt[locale] + locale + (1 + rest))
    BY <1>1, <2>1, <2>2
  <2> QED BY <1>1, <2>3
<1> DEFINE left == length(payload) - 1 - locale - sizeVarInt[locale] - 1
<1>4. left = rest
  BY <1>3 DEF left
<1> HIDE DEF left
<1>5. Reads(readByte(s) \o readByte(1), s + 1)
  BY <1>1, ReadsOneByOne, ReadsConcat
<1>6. Reads(readByte(s) \o readByte(1) \o recv_all(left), s + 1 + rest)
  <2>1. Reads(recv_all(left), rest)
    BY <1>4, ReadsAtOnce
  <2> QED BY <1>1, <1>5, <2>1, ReadsConcat
<1>7. s + 1 + rest = s + (1 + rest) /\ s + 1 + rest \in Nat
  BY <1>1
<1>8. Whole(FromPeer(payload, readByte(s) \o readByte(1) \o recv_all(left)))
  BY <1>2, <1>6, <1>7, FromPeerWhole
<1> QED BY <1>8 DEF ClientInformation, payload, s, left

-----------------------------------------------------------------------------
LEMMA ItemsWhole == \A item \in Items : Whole(item)
<1>1. /\ \A n \in Bits : n \in Nat
      /\ 0 \in Bits /\ 1 \in Bits /\ 2 \in Bits /\ 7 \in Bits
  BY SizesAssumption, Widths DEF Bits
<1>2. ASSUME NEW item, \E who \in {"server", "peer"}, n \in Int32 :
                           item = Number(who, n)
      PROVE  Whole(item)
  BY <1>2, NumberWhole
<1>3. Whole(FeatureFlags) /\ Whole(KnownPacks)
  BY <1>1, FeatureFlagsWhole, KnownPacksWhole
<1>4. ASSUME NEW n \in Sizes
      PROVE  /\ Whole(LoginSuccess(n)) /\ Whole(LoginStart(n))
             /\ Whole(Ignored(n))
  BY <1>1, SizesAssumption, LoginSuccessWhole, LoginStartWhole, IgnoredWhole
<1>5. ASSUME NEW m \in Sizes, NEW n \in Sizes
      PROVE  /\ Whole(StatusResponse(m, n)) /\ Whole(Handshake(m, n, 1))
             /\ Whole(ClientInformation(m, n))
             /\ Whole(PlayerInfoUpdate(<<m, n>>))
             /\ Whole(RegistryData(m, <<n, n>>))
             /\ Whole(UpdateTags(m, <<n>>, <<0, m>>))
  <2>1. /\ m \in Bits /\ n \in Bits /\ m + n \in Bits
        /\ m \in Nat /\ n \in Nat
    BY <1>1, SizesAssumption
  <2>2. /\ <<m, n>> \in Seq(Bits) /\ Len(<<m, n>>) = 2
        /\ <<n, n>> \in Seq(Bits) /\ Len(<<n, n>>) = 2
        /\ <<n>> \in Seq(Bits) /\ Len(<<n>>) = 1
        /\ <<0, m>> \in Seq(Bits) /\ Len(<<0, m>>) = 2
    BY <1>1, <2>1
  <2>3. Whole(StatusResponse(m, n))
    BY <2>1, StatusResponseWhole
  <2>4. Whole(Handshake(m, n, 1))
    BY <1>1, <2>1, HandshakeWhole
  <2>5. Whole(ClientInformation(m, n))
    BY <2>1, ClientInformationWhole
  <2>6. Whole(PlayerInfoUpdate(<<m, n>>))
    BY <1>1, <2>2, PlayerInfoUpdateWhole
  <2>7. Whole(RegistryData(m, <<n, n>>))
    BY <1>1, <2>1, <2>2, RegistryDataWhole
  <2>8. Whole(UpdateTags(m, <<n>>, <<0, m>>))
    BY <1>1, <2>1, <2>2, UpdateTagsWhole
  <2> QED BY <2>3, <2>4, <2>5, <2>6, <2>7, <2>8
<1> SUFFICES ASSUME NEW item \in Items PROVE Whole(item)
  OBVIOUS
<1>6. \/ \E who \in {"server", "peer"}, n \in Int32 : item = Number(who, n)
      \/ item \in {FeatureFlags, KnownPacks}
      \/ \E n \in Sizes : item \in {LoginSuccess(n), LoginStart(n), Ignored(n)}
      \/ \E m, n \in Sizes :
            item \in {StatusResponse(m, n), Handshake(m, n, 1),
                      ClientInformation(m, n), PlayerInfoUpdate(<<m, n>>),
                      RegistryData(m, <<n, n>>), UpdateTags(m, <<n>>, <<0, m>>)}
  BY DEF Items
<1>7. CASE item \in {FeatureFlags, KnownPacks}
  BY <1>3, <1>7
<1>8. CASE \E n \in Sizes : item \in {LoginSuccess(n), LoginStart(n), Ignored(n)}
  BY <1>4, <1>8
<1>9. CASE \E m, n \in Sizes :
             item \in {StatusResponse(m, n), Handshake(m, n, 1),
                       ClientInformation(m, n), PlayerInfoUpdate(<<m, n>>),
                       RegistryData(m, <<n, n>>), UpdateTags(m, <<n>>, <<0, m>>)}
  BY <1>5, <1>9
<1> QED BY <1>2, <1>6, <1>7, <1>8, <1>9

-----------------------------------------------------------------------------
(* The invariant: the number in front goes its own way, and while the      *)
(* connection stands, what is to be read is what is there or to be         *)
(* written.  That readByte takes one byte is part of it: ReadOne does not  *)
(* look at its count.                                                      *)

StreamInv ==
  /\ NumberInv
  /\ writes \in Seq(Nat)
  /\ socket \in Nat
  /\ calls \in Seq(Call)
  /\ OneByOne(calls)
  /\ conn \in {"up", "closed", "noticed"}
  /\ short \in BOOLEAN
  /\ conn = "up" => Total(Counts(calls)) = socket + Total(writes)

LEMMA InitStream == StreamInit => StreamInv
<1> SUFFICES ASSUME StreamInit PROVE StreamInv
  OBVIOUS
<1>1. PICK item \in Items : /\ Init
                            /\ writes = item.body /\ calls = item.calls
                            /\ socket = 0 /\ conn = "up" /\ short = FALSE
  BY DEF StreamInit
<1>2. PICK k \in Nat : Writes(writes, k) /\ Reads(calls, k)
  BY <1>1, ItemsWhole DEF Whole
<1>3. NumberInv
  BY <1>1, InitNumber
<1>4. /\ writes \in Seq(Nat) /\ calls \in Seq(Call) /\ OneByOne(calls)
      /\ Total(Counts(calls)) = socket + Total(writes)
  BY <1>1, <1>2 DEF Writes, Reads
<1>5. short \in BOOLEAN
  BY <1>1
<1> QED BY <1>1, <1>3, <1>4, <1>5 DEF StreamInv

\* A call is done with.
LEMMA NextCall ==
  ASSUME NEW c \in Seq(Call), c # <<>>, OneByOne(c)
  PROVE  /\ Head(c) \in Call /\ Tail(c) \in Seq(Call) /\ OneByOne(Tail(c))
         /\ Head(c).how = "readByte" => Head(c).n = 1
         /\ Total(Counts(Tail(c))) \in Nat
         /\ Total(Counts(c)) = Head(c).n + Total(Counts(Tail(c)))
<1>1. /\ Head(c) \in Call /\ Tail(c) \in Seq(Call) /\ Head(c) = c[1]
      /\ Len(c) \in Nat /\ Len(c) >= 1 /\ DOMAIN c = 1..Len(c)
      /\ Len(Tail(c)) = Len(c) - 1
      /\ \A i \in 1..(Len(c) - 1) : Tail(c)[i] = c[i + 1]
  BY HeadTailProperties, LenProperties, EmptySeq
<1>2. DOMAIN Tail(c) = 1..(Len(c) - 1)
  BY <1>1, LenProperties
<1>3. OneByOne(Tail(c))
  <2>1. ASSUME NEW i \in 1..(Len(c) - 1) PROVE i + 1 \in 1..Len(c)
    BY <1>1
  <2> QED BY <1>1, <1>2, <2>1 DEF OneByOne
<1>4. Head(c).how = "readByte" => Head(c).n = 1
  BY <1>1 DEF OneByOne
<1>5. /\ Counts(c) \in Seq(Nat) /\ Len(Counts(c)) = Len(c)
      /\ \A i \in 1..Len(c) : Counts(c)[i] = c[i].n
  BY CountsProperties
<1>6. /\ Counts(c) # <<>> /\ Head(Counts(c)) = Head(c).n
      /\ Tail(Counts(c)) \in Seq(Nat)
      /\ Len(Tail(Counts(c))) = Len(c) - 1
      /\ \A i \in 1..(Len(c) - 1) : Tail(Counts(c))[i] = Counts(c)[i + 1]
  <2>1. Counts(c) # <<>>
    BY <1>1, <1>5, EmptySeq
  <2>2. 1 \in 1..Len(c)
    BY <1>1
  <2>3. /\ Head(Counts(c)) = Counts(c)[1]
        /\ Tail(Counts(c)) \in Seq(Nat)
        /\ Len(Tail(Counts(c))) = Len(Counts(c)) - 1
        /\ \A i \in 1..(Len(Counts(c)) - 1) :
              Tail(Counts(c))[i] = Counts(c)[i + 1]
    BY <1>5, <2>1, HeadTailProperties
  <2> QED BY <1>1, <1>5, <2>1, <2>2, <2>3
<1>7. /\ Counts(Tail(c)) \in Seq(Nat) /\ Len(Counts(Tail(c))) = Len(c) - 1
      /\ \A i \in 1..(Len(c) - 1) : Counts(Tail(c))[i] = Tail(c)[i].n
  <2>1. Tail(c) \in Seq(Call)
    BY <1>1
  <2> QED BY <1>1, <2>1, CountsProperties, Zenon
<1>8. Tail(Counts(c)) = Counts(Tail(c))
  <2> DEFINE a == Tail(Counts(c))
             b == Counts(Tail(c))
  <2>1. ASSUME NEW i \in 1..(Len(c) - 1) PROVE a[i] = b[i]
    <3>1. i + 1 \in 1..Len(c)
      BY <1>1
    <3> QED BY <1>1, <1>5, <1>6, <1>7, <3>1
  <2>2. /\ a \in Seq(Nat) /\ b \in Seq(Nat)
        /\ Len(a) = Len(c) - 1 /\ Len(b) = Len(c) - 1
    BY <1>6, <1>7
  <2> HIDE DEF a, b
  <2>3. a = b
    BY <2>1, <2>2, SeqEqual
  <2> QED BY <2>3 DEF a, b
<1>9. Total(Counts(c)) = Head(Counts(c)) + Total(Tail(Counts(c)))
  BY <1>5, <1>6, TotalFirst
<1> QED BY <1>1, <1>3, <1>4, <1>6, <1>7, <1>8, <1>9, TotalType

\* A part of what a call asks for has come.
LEMMA LessToRead ==
  ASSUME NEW c \in Seq(Call), c # <<>>, OneByOne(c),
         Head(c).how = "recv_all", NEW x \in Nat
  PROVE  /\ [c EXCEPT ![1].n = x] \in Seq(Call)
         /\ OneByOne([c EXCEPT ![1].n = x])
         /\ Total(Counts([c EXCEPT ![1].n = x]))
              = Total(Counts(c)) - Head(c).n + x
<1> DEFINE e == [c[1] EXCEPT !.n = x]
           d == [c EXCEPT ![1] = e]
<1>1. /\ Head(c) = c[1] /\ c[1] \in Call
      /\ Len(c) \in Nat /\ Len(c) >= 1 /\ DOMAIN c = 1..Len(c)
  BY HeadTailProperties, LenProperties, EmptySeq
<1>2. e \in Call /\ e.how = "recv_all" /\ e.n = x
  BY <1>1 DEF Call
<1> HIDE DEF e
<1>3. /\ d \in Seq(Call) /\ Len(d) = Len(c) /\ DOMAIN d = 1..Len(c)
      /\ \A i \in 1..Len(c) : d[i] = IF i = 1 THEN e ELSE c[i]
  BY <1>1, <1>2
<1>4. [c EXCEPT ![1].n = x] = d
  BY DEF e
<1> HIDE DEF d
<1>5. OneByOne(d)
  BY <1>1, <1>2, <1>3 DEF OneByOne
<1>6. /\ Counts(c) \in Seq(Nat) /\ Len(Counts(c)) = Len(c)
      /\ \A i \in 1..Len(c) : Counts(c)[i] = c[i].n
  BY CountsProperties
<1>7. /\ Counts(d) \in Seq(Nat) /\ Len(Counts(d)) = Len(c)
      /\ \A i \in 1..Len(c) : Counts(d)[i] = d[i].n
  BY <1>3, CountsProperties
<1> DEFINE s == Counts(c)
           r == [s EXCEPT ![1] = x]
<1>8. /\ r \in Seq(Nat) /\ Len(r) = Len(c)
      /\ \A i \in 1..Len(c) : r[i] = IF i = 1 THEN x ELSE c[i].n
      /\ s # <<>> /\ s \in Seq(Nat) /\ Head(s) = Head(c).n
  <2>1. s \in Seq(Nat) /\ Len(s) = Len(c) /\ \A i \in 1..Len(c) : s[i] = c[i].n
    BY <1>6
  <2> HIDE DEF s
  <2>2. s # <<>> /\ Head(s) = s[1] /\ DOMAIN s = 1..Len(c) /\ 1 \in 1..Len(c)
    BY <1>1, <2>1, HeadTailProperties, EmptySeq, LenProperties
  <2>3. r \in Seq(Nat) /\ Len(r) = Len(c)
    BY <1>1, <2>1, <2>2, ExceptSeq
  <2>4. \A i \in 1..Len(c) : r[i] = IF i = 1 THEN x ELSE c[i].n
    BY <2>1, <2>2
  <2> QED BY <1>1, <2>1, <2>2, <2>3, <2>4
<1> HIDE DEF r
<1>9. Counts(d) = r
  <2> DEFINE a == Counts(d)
  <2>1. /\ a \in Seq(Nat) /\ Len(a) = Len(c)
        /\ \A i \in 1..Len(c) : a[i] = r[i]
    <3>1. a \in Seq(Nat) /\ Len(a) = Len(c)
      BY <1>7
    <3>2. \A i \in 1..Len(c) : a[i] = d[i].n
      BY <1>7
    <3>3. ASSUME NEW i \in 1..Len(c) PROVE d[i].n = r[i]
      <4>1. CASE i = 1
        BY <1>2, <1>3, <1>8, <4>1
      <4>2. CASE i # 1
        BY <1>3, <1>8, <4>2
      <4> QED BY <4>1, <4>2
    <3> QED BY <3>1, <3>2, <3>3
  <2> HIDE DEF a
  <2>2. a = r
    BY <1>8, <2>1, SeqEqual
  <2> QED BY <2>2 DEF a
<1>10. Total(r) = Total(s) - Head(s) + x
  <2> HIDE DEF s
  <2> QED BY <1>8, TotalReduced DEF r
<1> QED BY <1>3, <1>4, <1>5, <1>8, <1>9, <1>10

-----------------------------------------------------------------------------
(* Every step preserves the invariant.                                     *)

LEMMA LengthStream ==
  StreamInv /\ (WriteLength \/ ReadLength \/ UNCHANGED allVars) => StreamInv'
<1> SUFFICES ASSUME StreamInv, WriteLength \/ ReadLength \/ UNCHANGED allVars
             PROVE  StreamInv'
  OBVIOUS
<1>1. UNCHANGED streamVars /\ [WriteNumber \/ ReadByte]_vars
  BY DEF WriteLength, ReadLength, allVars
<1>2. NumberInv'
  BY <1>1, NextNumber DEF StreamInv
<1> QED BY <1>1, <1>2 DEF StreamInv, streamVars, OneByOne, Counts

\* The steps below leave the number alone.
LEMMA NumberKept == StreamInv /\ UNCHANGED vars => NumberInv'
BY NextNumber DEF StreamInv

LEMMA SendPartStream == StreamInv /\ SendPart => StreamInv'
<1> SUFFICES ASSUME StreamInv, SendPart PROVE StreamInv'
  OBVIOUS
<1>1. PICK k \in 1..Head(writes) :
         /\ socket' = socket + k
         /\ writes' = IF k = Head(writes) THEN Tail(writes)
                      ELSE [writes EXCEPT ![1] = @ - k]
  BY DEF SendPart
<1>2. /\ writes # <<>> /\ UNCHANGED <<calls, conn, short>>
      /\ UNCHANGED vars
  BY DEF SendPart
<1>3. /\ writes \in Seq(Nat) /\ socket \in Nat
      /\ Head(writes) \in Nat /\ Tail(writes) \in Seq(Nat)
      /\ Total(writes) = Head(writes) + Total(Tail(writes))
      /\ Total(Tail(writes)) \in Nat
  BY <1>2, TotalFirst, TotalType DEF StreamInv
<1>4. writes' \in Seq(Nat) /\ Total(writes') = Total(writes) - k
  <2>1. CASE k = Head(writes)
    BY <1>1, <1>3, <2>1
  <2>2. CASE k # Head(writes)
    <3> DEFINE x == Head(writes) - k
    <3>1. x \in Nat /\ writes' = [writes EXCEPT ![1] = x]
      BY <1>1, <1>2, <1>3, <2>2
    <3> HIDE DEF x
    <3>2. /\ writes' \in Seq(Nat)
          /\ Total(writes') = Total(writes) - Head(writes) + x
      BY <1>2, <1>3, <3>1, TotalReduced
    <3> QED BY <1>1, <1>3, <3>2 DEF x
  <2> QED BY <2>1, <2>2
<1>5. socket' \in Nat
  BY <1>1, <1>3
<1>6. conn' = "up" => Total(Counts(calls')) = socket' + Total(writes')
  BY <1>1, <1>2, <1>3, <1>4 DEF StreamInv
<1>7. NumberInv'
  BY <1>2, NumberKept
<1> QED BY <1>2, <1>4, <1>5, <1>6, <1>7 DEF StreamInv, OneByOne, Counts

LEMMA SkipWriteStream == StreamInv /\ SkipWrite => StreamInv'
<1> SUFFICES ASSUME StreamInv, SkipWrite PROVE StreamInv'
  OBVIOUS
<1>1. /\ writes # <<>> /\ Head(writes) = 0 /\ writes' = Tail(writes)
      /\ UNCHANGED <<socket, calls, conn, short>> /\ UNCHANGED vars
  BY DEF SkipWrite
<1>2. /\ writes' \in Seq(Nat) /\ Total(writes) = 0 + Total(writes')
      /\ Total(writes') \in Nat
  BY <1>1, TotalFirst, TotalType DEF StreamInv
<1>3. conn' = "up" => Total(Counts(calls')) = socket' + Total(writes')
  BY <1>1, <1>2 DEF StreamInv
<1>4. NumberInv'
  BY <1>1, NumberKept
<1> QED BY <1>1, <1>2, <1>3, <1>4 DEF StreamInv, OneByOne, Counts

LEMMA ClosedStream == StreamInv /\ (PeerCloses \/ Throw) => StreamInv'
<1> SUFFICES ASSUME StreamInv, PeerCloses \/ Throw PROVE StreamInv'
  OBVIOUS
<1>1. /\ UNCHANGED vars /\ UNCHANGED <<writes, socket, calls, short>>
      /\ conn' \in {"closed", "noticed"}
  BY DEF PeerCloses, Throw
<1>2. NumberInv'
  BY <1>1, NumberKept
<1> QED BY <1>1, <1>2 DEF StreamInv, OneByOne, Counts

LEMMA ReadOneStream == StreamInv /\ ReadOne => StreamInv'
<1> SUFFICES ASSUME StreamInv, ReadOne PROVE StreamInv'
  OBVIOUS
<1>1. /\ calls # <<>> /\ Head(calls).how = "readByte" /\ UNCHANGED vars
      /\ socket > 0 /\ socket' = socket - 1 /\ calls' = Tail(calls)
      /\ UNCHANGED <<writes, conn, short>>
  BY DEF ReadOne, Calls
<1>2. /\ calls' \in Seq(Call) /\ OneByOne(calls')
      /\ Total(Counts(calls)) = 1 + Total(Counts(calls'))
      /\ Total(Counts(calls')) \in Nat
  BY <1>1, NextCall DEF StreamInv
<1>3. socket \in Nat /\ socket' \in Nat /\ Total(writes) \in Nat
  BY <1>1, TotalType DEF StreamInv
<1>4. conn' = "up" => Total(Counts(calls')) = socket' + Total(writes')
  BY <1>1, <1>2, <1>3 DEF StreamInv
<1>5. NumberInv'
  BY <1>1, NumberKept
<1>6. OneByOne(calls)'
  BY <1>2 DEF OneByOne
<1>7. (conn = "up" => Total(Counts(calls)) = socket + Total(writes))'
  BY <1>4 DEF Counts
<1> QED BY <1>1, <1>2, <1>3, <1>5, <1>6, <1>7 DEF StreamInv

LEMMA RecvPartStream == StreamInv /\ RecvPart => StreamInv'
<1> SUFFICES ASSUME StreamInv, RecvPart PROVE StreamInv'
  OBVIOUS
<1>1. PICK k \in 1..socket : /\ k <= Head(calls).n
                             /\ socket' = socket - k
                             /\ calls' = [calls EXCEPT ![1].n = @ - k]
  BY DEF RecvPart
<1>2. /\ calls # <<>> /\ Head(calls).how = "recv_all" /\ UNCHANGED vars
      /\ UNCHANGED <<writes, conn, short>>
  BY DEF RecvPart, Calls
<1>3. /\ calls \in Seq(Call) /\ OneByOne(calls)
      /\ socket \in Nat /\ Total(writes) \in Nat
      /\ Head(calls) = calls[1] /\ Head(calls).n \in Nat
      /\ Total(Counts(calls)) \in Nat
  <2>1. /\ calls \in Seq(Call) /\ OneByOne(calls)
        /\ socket \in Nat /\ Total(writes) \in Nat
    BY TotalType DEF StreamInv
  <2>2. Head(calls) = calls[1] /\ Head(calls) \in Call
    BY <1>2, <2>1, HeadTailProperties
  <2>3. Total(Counts(calls)) \in Nat
    BY <2>1, CountsProperties, TotalType
  <2> QED BY <2>1, <2>2, <2>3 DEF Call
<1> DEFINE x == Head(calls).n - k
<1>4. x \in Nat /\ calls' = [calls EXCEPT ![1].n = x]
  <2>1. x \in Nat
    BY <1>1, <1>3
  <2>2. x = calls[1].n - k
    BY <1>3
  <2> QED BY <1>1, <2>1, <2>2
<1> HIDE DEF x
<1>5. /\ calls' \in Seq(Call) /\ OneByOne(calls')
      /\ Total(Counts(calls')) = Total(Counts(calls)) - Head(calls).n + x
  BY <1>2, <1>3, <1>4, LessToRead
<1>6. Total(Counts(calls')) = Total(Counts(calls)) - k
  BY <1>3, <1>5 DEF x
<1>7. conn' = "up" => Total(Counts(calls')) = socket' + Total(writes')
  BY <1>1, <1>2, <1>3, <1>6 DEF StreamInv
<1>8. NumberInv'
  BY <1>2, NumberKept
<1>9. OneByOne(calls)'
  BY <1>5 DEF OneByOne
<1>10. (conn = "up" => Total(Counts(calls)) = socket + Total(writes))'
  BY <1>7 DEF Counts
<1>11. socket' \in Nat
  BY <1>1, <1>3
<1> QED BY <1>2, <1>5, <1>8, <1>9, <1>10, <1>11 DEF StreamInv

LEMMA RecvReturnsStream == StreamInv /\ RecvReturns => StreamInv'
<1> SUFFICES ASSUME StreamInv, RecvReturns PROVE StreamInv'
  OBVIOUS
<1>1. /\ calls # <<>> /\ UNCHANGED vars /\ calls' = Tail(calls)
      /\ UNCHANGED <<writes, socket, conn>>
      /\ Head(calls).n = 0 \/ conn = "closed"
  BY DEF RecvReturns, Calls
<1>2. short' \in BOOLEAN
  BY DEF RecvReturns
<1>3. /\ calls' \in Seq(Call) /\ OneByOne(calls')
      /\ Total(Counts(calls)) = Head(calls).n + Total(Counts(calls'))
      /\ Total(Counts(calls')) \in Nat
  BY <1>1, NextCall DEF StreamInv
<1>4. conn' = "up" => Total(Counts(calls')) = socket' + Total(writes')
  BY <1>1, <1>3 DEF StreamInv
<1>5. NumberInv'
  BY <1>1, NumberKept
<1>6. OneByOne(calls)'
  BY <1>3 DEF OneByOne
<1>7. (conn = "up" => Total(Counts(calls)) = socket + Total(writes))'
  BY <1>4 DEF Counts
<1> QED BY <1>1, <1>2, <1>3, <1>5, <1>6, <1>7 DEF StreamInv

LEMMA NextStream == StreamInv /\ [StreamNext]_allVars => StreamInv'
BY LengthStream, SendPartStream, SkipWriteStream, ClosedStream, ReadOneStream,
   RecvPartStream, RecvReturnsStream DEF StreamNext, WriteStep, ReadStep

LEMMA StreamInvariant == StreamSpec => []StreamInv
BY InitStream, NextStream, PTL DEF StreamSpec

\* The type of every variable: what is left to write and to read in
\* packetHandler.cpp and Packet.cpp are counts.
THEOREM StreamTyped == StreamSpec => []StreamTypeOK
<1>1. StreamInv => StreamTypeOK
  <2>1. Call \subseteq [how : {"readByte", "recv_all"}, n : Int]
    BY DEF Call
  <2>2. ASSUME StreamInv
        PROVE  calls \in Seq([how : {"readByte", "recv_all"}, n : Int])
    <3> DEFINE R == [how : {"readByte", "recv_all"}, n : Int]
    <3>1. calls \in Seq(Call) /\ Len(calls) \in Nat
      BY <2>2, LenProperties DEF StreamInv
    <3>2. /\ calls = [i \in 1..Len(calls) |-> calls[i]]
          /\ \A i \in 1..Len(calls) : calls[i] \in Call
      BY <3>1, ElementOfSeq
    <3>3. Call \subseteq R
      BY <2>1
    <3> HIDE DEF R
    <3>4. calls \in Seq(R)
      BY <3>1, <3>2, <3>3
    <3> QED BY <3>4 DEF R
  <2> QED BY <2>2, NumberTyped DEF StreamInv, StreamTypeOK
<1> QED BY <1>1, StreamInvariant, PTL

\* writeVarIntRaw and readVarIntRaw (TVarInt.cpp) are inverse to each other,
\* whatever the width of the number and of its segments, and sizeVarInt counts
\* the bytes: a number that has been written is read as the same number, and
\* the reader's limit on bytes is not met.
THEOREM NumbersArriveIntact == StreamSpec => []ArrivesIntact
BY NumberArrives, StreamInvariant, PTL DEF StreamInv

\* The lengths computed by hand in packetHandler.cpp, and those of Packet::send,
\* are those of what is written, and the reads of handlePacket add up to the
\* length announced, whatever the sizes of the strings and payloads.
THEOREM PacketBoundariesMeet == StreamSpec => []BoundariesMeet
<1>1. StreamInv => BoundariesMeet
  <2> SUFFICES ASSUME StreamInv, conn = "up"
               PROVE  /\ Total([i \in DOMAIN calls |-> calls[i].n])
                           = socket + Total(writes)
                      /\ \A i \in DOMAIN calls : calls[i].n >= 0
    BY DEF BoundariesMeet
  <2>1. calls \in Seq(Call) /\ Total(Counts(calls)) = socket + Total(writes)
    BY DEF StreamInv
  <2>2. \A i \in DOMAIN calls : calls[i].n \in Nat
    BY <2>1, CountsProperties DEF Call
  <2> QED BY <2>1, <2>2 DEF Counts
<1> QED BY <1>1, StreamInvariant, PTL

-----------------------------------------------------------------------------
LEMMA InitShort == StreamInit => ShortReadIsLast
  BY DEF StreamInit, ShortReadIsLast

\* A short count leaves nothing to read, and nothing is written any more once
\* the connection is closed.
LEMMA NextShort ==
  ShortReadIsLast /\ [StreamNext]_allVars => ShortReadIsLast'
<1> SUFFICES ASSUME ShortReadIsLast, [StreamNext]_allVars
             PROVE  ShortReadIsLast'
  OBVIOUS
<1> USE DEF ShortReadIsLast, Calls
<1>1. CASE WriteLength \/ ReadLength \/ SkipWrite \/ UNCHANGED allVars
  BY <1>1 DEF WriteLength, ReadLength, SkipWrite, allVars, streamVars
<1>2. CASE SendPart
  BY <1>2 DEF SendPart
<1>3. CASE PeerCloses \/ Throw
  BY <1>3 DEF PeerCloses, Throw
<1>4. CASE ReadOne
  BY <1>4 DEF ReadOne
<1>5. CASE RecvPart
  <2>1. short' = short /\ conn' = conn /\ socket # 0
    BY <1>5 DEF RecvPart
  <2> QED BY <2>1
<1>6. CASE RecvReturns
  <2>1. /\ socket' = socket /\ conn' = conn
        /\ short' <=> short \/ Head(calls).n > 0
        /\ Head(calls).n = 0 \/ (socket = 0 /\ conn = "closed")
    BY <1>6 DEF RecvReturns
  <2> QED BY <2>1
<1> QED BY <1>1, <1>2, <1>3, <1>4, <1>5, <1>6 DEF StreamNext, WriteStep, ReadStep

\* Whoever takes a short count of recv_all for a full one (packetHandler.cpp:72)
\* reads nothing on that connection afterwards.
THEOREM NothingAfterShort == StreamSpec => []ShortReadIsLast
  BY InitShort, NextShort, PTL DEF StreamSpec
=============================================================================
