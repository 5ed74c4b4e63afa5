--------------------------- MODULE SequenceLemmas ---------------------------
(***************************************************************************)
(* What the proofs need of numbers and sequences: induction, the existence *)
(* of functions defined by recursion, a vector from which elements are     *)
(* erased, and a queue that is filled at one end and emptied at the other  *)
(* into a record of what left it.                                          *)
(***************************************************************************)
EXTENDS SequencesExt, SequenceTheorems, WellFoundedInduction, TLAPS

-----------------------------------------------------------------------------
\* Every set of natural numbers with an element has a least one.
LEMMA LeastNumber ==
  ASSUME NEW T \in SUBSET Nat, T # {}
  PROVE  \E x \in T : \A y \in T : x <= y
<1>1. PICK x \in T : \A y \in T : <<y, x>> \notin OpToRel(<, Nat)
  BY NatLessThanWellFounded, WFMin
<1>2. \A y \in T : ~(y < x)
  BY <1>1 DEF OpToRel
<1> QED BY <1>2

\* Induction over the numbers, the property being a set of them.  (The library
\* has it for a property that is an operator.)
LEMMA InductiveSet ==
  ASSUME NEW T \in SUBSET Nat, 0 \in T, \A n \in T : n + 1 \in T
  PROVE  T = Nat
<1> SUFFICES ASSUME Nat \ T # {} PROVE FALSE
  OBVIOUS
<1>1. PICK x \in Nat \ T : \A y \in Nat \ T : x <= y
  BY LeastNumber
<1>2. x - 1 \in Nat /\ x - 1 \in T
  BY <1>1
<1> QED BY <1>1, <1>2

\* Induction over the numbers up to a bound.
LEMMA InductiveInterval ==
  ASSUME NEW m \in Nat, NEW T, 0 \in T,
         \A n \in 1..m : n - 1 \in T => n \in T
  PROVE  0..m \subseteq T
<1> DEFINE N == {n \in Nat : n <= m => n \in T}
<1>1. 0 \in N
  OBVIOUS
<1>2. ASSUME NEW n \in N PROVE n + 1 \in N
  <2>1. n + 1 <= m => n + 1 \in 1..m /\ (n + 1) - 1 = n
    OBVIOUS
  <2> QED BY <2>1
<1>3. N = Nat
  <2> HIDE DEF N
  <2>1. N \in SUBSET Nat
    BY DEF N
  <2> QED BY <1>1, <1>2, <2>1, InductiveSet
<1> QED BY <1>3

\* Induction over sequences, the property being a set of them.
LEMMA InductiveSetOfSequences ==
  ASSUME NEW S, NEW T \in SUBSET Seq(S), <<>> \in T,
         \A s \in T : \A x \in S : Append(s, x) \in T
  PROVE  T = Seq(S)
<1> DEFINE N == {n \in Nat : \A s \in Seq(S) : Len(s) = n => s \in T}
<1>1. 0 \in N
  BY EmptySeq
<1>2. ASSUME NEW n \in N PROVE n + 1 \in N
  <2> SUFFICES ASSUME NEW s \in Seq(S), Len(s) = n + 1 PROVE s \in T
    OBVIOUS
  <2>1. s # <<>>
    BY EmptySeq
  <2>2. PICK t \in Seq(S), x \in S : s = Append(t, x)
    BY <2>1, SequenceEmptyOrAppend
  <2>3. Len(t) = n
    BY <2>2, AppendProperties, LenProperties
  <2> QED BY <2>2, <2>3
<1>3. N = Nat
  <2> HIDE DEF N
  <2>1. N \in SUBSET Nat
    BY DEF N
  <2> QED BY <1>1, <1>2, <2>1, InductiveSet
<1>4. ASSUME NEW s \in Seq(S) PROVE s \in T
  <2>1. Len(s) \in N
    BY <1>3, LenProperties
  <2> QED BY <2>1
<1> QED BY <1>4

-----------------------------------------------------------------------------
\* g is defined on S by recursion: the value of b is first[b] at the bottom,
\* and is computed from that of the smaller number down[b] elsewhere.
Recursive(g, S, base, first, step, down) ==
  g = [b \in S |-> IF b \in base THEN first[b] ELSE step[b][g[down[b]]]]

\* Such a function exists.  (For the prover a recursive definition chooses a
\* function that satisfies its equation, if there is one.)
LEMMA RecursiveFunction ==
  ASSUME NEW m \in Nat, NEW S \in SUBSET (0..m), NEW base \in SUBSET S,
         NEW V, V # {},
         NEW first \in [base -> V], NEW step \in [S -> [V -> V]],
         NEW down \in [S -> Int],
         \A b \in S \ base : down[b] \in S /\ down[b] < b
  PROVE  \E g \in [S -> V] : Recursive(g, S, base, first, step, down)
<1> DEFINE Val(g, b) == IF b \in base THEN first[b] ELSE step[b][g[down[b]]]
           Below(n, g) == \A b \in S : b < n => g[b] = Val(g, b)
           T == {n \in Nat : \E g \in [S -> V] : Below(n, g)}
<1>1. 0 \in T
  <2>1. PICK v \in V : TRUE
    OBVIOUS
  <2>2. [b \in S |-> v] \in [S -> V] /\ \A b \in S : ~(b < 0)
    BY <2>1
  <2> QED BY <2>2
<1>2. ASSUME NEW n \in T PROVE n + 1 \in T
  <2>1. PICK g \in [S -> V] : Below(n, g)
    OBVIOUS
  <2> DEFINE h == [b \in S |-> IF b = n THEN Val(g, b) ELSE g[b]]
  <2>2. \A b \in S : Val(g, b) \in V /\ g[b] \in V
    OBVIOUS
  <2>3. h \in [S -> V]
    <3> HIDE DEF Val
    <3> QED BY <2>2
  <2>4. ASSUME NEW b \in S, b < n + 1 PROVE h[b] = Val(h, b)
    <3>1. b \notin base => h[down[b]] = g[down[b]]
      BY <2>4
    <3>2. Val(h, b) = Val(g, b)
      BY <3>1
    <3>3. b # n => b < n
      BY <2>4
    <3>4. h[b] = IF b = n THEN Val(g, b) ELSE g[b]
      OBVIOUS
    <3>5. b < n => g[b] = Val(g, b)
      BY <2>1
    <3> HIDE DEF Val, h
    <3> QED BY <3>2, <3>3, <3>4, <3>5
  <2>5. Below(n + 1, h)
    BY <2>4
  <2> HIDE DEF h, Below
  <2> QED BY <2>3, <2>5
<1>3. T = Nat
  <2> HIDE DEF T
  <2>1. T \in SUBSET Nat
    BY DEF T
  <2> QED BY <1>1, <1>2, <2>1, InductiveSet
<1>4. PICK g \in [S -> V] : Below(m + 1, g)
  <2>1. m + 1 \in T
    BY <1>3
  <2> QED BY <2>1
<1>5. \A b \in S : g[b] = Val(g, b)
  BY <1>4
<1>6. g = [b \in S |-> g[b]]
  OBVIOUS
<1> QED BY <1>5, <1>6 DEF Recursive

\* g counts up from v.
CountsUp(g, m, v, step) ==
  g = [n \in 0..m |-> IF n = 0 THEN v ELSE step[n][g[n - 1]]]

\* The case of a function that counts up from 0.
LEMMA CountingFunction ==
  ASSUME NEW m \in Nat, NEW V, NEW v \in V, NEW step \in [1..m -> [V -> V]]
  PROVE  \E g \in [0..m -> V] : CountsUp(g, m, v, step)
<1> DEFINE D == 0..m
           B == {0}
           first == [n \in B |-> v]
           up == [n \in D |-> IF n = 0 THEN [w \in V |-> v] ELSE step[n]]
           down == [n \in D |-> n - 1]
<1>1. /\ D \in SUBSET (0..m) /\ B \in SUBSET D /\ V # {}
      /\ first \in [B -> V] /\ down \in [D -> Int]
      /\ \A b \in D \ B : down[b] \in D /\ down[b] < b
  OBVIOUS
<1>2. up \in [D -> [V -> V]]
  <2>1. ASSUME NEW n \in D
        PROVE  (IF n = 0 THEN [w \in V |-> v] ELSE step[n]) \in [V -> V]
    <3>1. n # 0 => n \in 1..m
      OBVIOUS
    <3> QED BY <3>1
  <2> QED BY <2>1
<1>3. PICK g \in [D -> V] : Recursive(g, D, B, first, up, down)
  <2> HIDE DEF D, B, first, up, down
  <2> QED BY <1>1, <1>2, RecursiveFunction
<1>4. ASSUME NEW n \in D
      PROVE  g[n] = IF n = 0 THEN v ELSE step[n][g[n - 1]]
  BY <1>3 DEF Recursive
<1>5. g = [n \in D |-> g[n]]
  OBVIOUS
<1> QED BY <1>4, <1>5 DEF CountsUp

-----------------------------------------------------------------------------

\* What erasing one element of a vector leaves.
LEMMA RemoveAtProperties ==
  ASSUME NEW S, NEW s \in Seq(S), NEW i \in 1..Len(s)
  PROVE  /\ RemoveAt(s, i) \in Seq(S)
         /\ Len(RemoveAt(s, i)) = Len(s) - 1
         /\ \A j \in 1..(Len(s) - 1) :
               RemoveAt(s, i)[j] = IF j < i THEN s[j] ELSE s[j + 1]
<1> DEFINE a == SubSeq(s, 1, i - 1)
           b == SubSeq(s, i + 1, Len(s))
<1>1. a \in Seq(S) /\ Len(a) = i - 1 /\ \A j \in 1..(i - 1) : a[j] = s[j]
  BY SubSeqProperties
<1>2. /\ b \in Seq(S)
      /\ Len(b) = Len(s) - i
      /\ \A j \in 1..(Len(s) - i) : b[j] = s[i + j]
  BY SubSeqProperties
<1>3. RemoveAt(s, i) = a \o b
  BY DEF RemoveAt
<1> HIDE DEF a, b
<1>4. a \o b \in Seq(S) /\ Len(a \o b) = Len(s) - 1
  <2>1. a \o b \in Seq(S) /\ Len(a \o b) = Len(a) + Len(b)
    BY <1>1, <1>2, ConcatProperties
  <2>2. Len(s) \in Nat
    BY LenProperties
  <2> QED BY <1>1, <1>2, <2>1, <2>2
<1>5. ASSUME NEW j \in 1..(Len(s) - 1)
      PROVE  (a \o b)[j] = IF j < i THEN s[j] ELSE s[j + 1]
  <2>1. (a \o b)[j] = IF j <= Len(a) THEN a[j] ELSE b[j - Len(a)]
    BY <1>1, <1>2, ConcatProperties
  <2>2. CASE j < i
    BY <1>1, <2>1, <2>2
  <2>3. CASE ~(j < i)
    <3>1. j - Len(a) \in 1..(Len(s) - i) /\ ~(j <= Len(a))
      BY <1>1, <2>3
    <3>2. b[j - Len(a)] = s[i + (j - Len(a))]
      BY <1>2, <3>1
    <3> QED BY <1>1, <2>1, <2>3, <3>1, <3>2
  <2> QED BY <2>2, <2>3
<1> QED BY <1>3, <1>4, <1>5

\* Of a vector without repetitions just that element goes.
LEMMA ToSetRemoveAt ==
  ASSUME NEW S, NEW s \in Seq(S), NEW i \in 1..Len(s),
         \A j, k \in 1..Len(s) : s[j] = s[k] => j = k
  PROVE  ToSet(RemoveAt(s, i)) = ToSet(s) \ {s[i]}
<1> DEFINE r == RemoveAt(s, i)
<1>1. /\ Len(s) \in Nat
      /\ DOMAIN s = 1..Len(s)
  BY LenProperties
<1>2. /\ r \in Seq(S)
      /\ Len(r) = Len(s) - 1
      /\ \A j \in 1..(Len(s) - 1) : r[j] = IF j < i THEN s[j] ELSE s[j + 1]
  BY RemoveAtProperties
<1>3. DOMAIN r = 1..(Len(s) - 1)
  BY <1>2, LenProperties
<1> HIDE DEF r
<1>4. ASSUME NEW x \in ToSet(r) PROVE x \in ToSet(s) \ {s[i]}
  <2>1. PICK j \in 1..(Len(s) - 1) : x = r[j]
    BY <1>3 DEF ToSet
  <2>2. PICK k \in 1..Len(s) : k # i /\ x = s[k]
    <3>1. CASE j < i
      BY <1>1, <1>2, <2>1, <3>1
    <3>2. CASE ~(j < i)
      BY <1>1, <1>2, <2>1, <3>2
    <3> QED BY <3>1, <3>2
  <2> QED BY <1>1, <2>2 DEF ToSet
<1>5. ASSUME NEW x \in ToSet(s) \ {s[i]} PROVE x \in ToSet(r)
  <2>1. PICK k \in 1..Len(s) : x = s[k]
    BY <1>1 DEF ToSet
  <2>2. k # i
    BY <2>1
  <2>3. PICK j \in 1..(Len(s) - 1) : x = r[j]
    <3>1. CASE k < i
      BY <1>1, <1>2, <2>1, <3>1
    <3>2. CASE k > i
      <4>1. k - 1 \in 1..(Len(s) - 1) /\ ~(k - 1 < i) /\ (k - 1) + 1 = k
        BY <1>1, <3>2
      <4> QED BY <1>2, <2>1, <4>1
    <3> QED BY <1>1, <2>2, <3>1, <3>2
  <2> QED BY <1>3, <2>3 DEF ToSet
<1> QED BY <1>4, <1>5 DEF r

-----------------------------------------------------------------------------
\* No element comes twice.
NoRepeat(s) == \A j \in DOMAIN s : \A i \in 1..(j - 1) : s[i] # s[j]

\* The elements come in the order of their ranks.
Increasing(rank, s) ==
  \A j \in DOMAIN s : \A i \in 1..(j - 1) : rank[s[i]] < rank[s[j]]

\* A queue of which the front is moved to the record.
LEMMA MoveFront ==
  ASSUME NEW S, NEW s \in Seq(S), NEW t \in Seq(S), t # <<>>
  PROVE  Append(s, Head(t)) \o Tail(t) = s \o t
<1>1. /\ Head(t) \in S /\ Tail(t) \in Seq(S) /\ <<Head(t)>> \in Seq(S)
      /\ <<Head(t)>> \o Tail(t) = t
  BY HeadTailProperties
<1>2. Append(s, Head(t)) = s \o <<Head(t)>>
  BY <1>1, AppendIsConcat
<1>3. (s \o <<Head(t)>>) \o Tail(t) = s \o (<<Head(t)>> \o Tail(t))
  BY <1>1, ConcatAssociative
<1> QED BY <1>1, <1>2, <1>3

\* A queue to which an element is added.
LEMMA AddBack ==
  ASSUME NEW S, NEW s \in Seq(S), NEW t \in Seq(S), NEW e \in S
  PROVE  s \o Append(t, e) = Append(s \o t, e)
<1>1. s \o t \in Seq(S) /\ <<e>> \in Seq(S)
  BY ConcatProperties
<1>2. Append(t, e) = t \o <<e>> /\ Append(s \o t, e) = (s \o t) \o <<e>>
  BY <1>1, AppendIsConcat
<1>3. (s \o t) \o <<e>> = s \o (t \o <<e>>)
  BY <1>1, ConcatAssociative
<1> QED BY <1>2, <1>3

LEMMA AppendNoRepeat ==
  ASSUME NEW S, NEW s \in Seq(S), NEW e \in S
  PROVE  /\ ToSet(Append(s, e)) = ToSet(s) \cup {e}
         /\ NoRepeat(s) /\ e \notin ToSet(s) => NoRepeat(Append(s, e))
<1> DEFINE r == Append(s, e)
<1>1. /\ Len(s) \in Nat /\ DOMAIN s = 1..Len(s)
      /\ DOMAIN r = 1..(Len(s) + 1)
      /\ \A i \in 1..Len(s) : r[i] = s[i]
      /\ r[Len(s) + 1] = e
  BY LenProperties, AppendProperties
<1> HIDE DEF r
<1>2. ToSet(r) = ToSet(s) \cup {e}
  BY <1>1 DEF ToSet
<1>3. ASSUME NoRepeat(s), e \notin ToSet(s) PROVE NoRepeat(r)
  <2> SUFFICES ASSUME NEW j \in 1..(Len(s) + 1), NEW i \in 1..(j - 1)
               PROVE  r[i] # r[j]
    BY <1>1 DEF NoRepeat
  <2>1. i \in 1..Len(s) /\ r[i] = s[i]
    BY <1>1
  <2>2. CASE j = Len(s) + 1
    BY <1>1, <1>3, <2>1, <2>2 DEF ToSet
  <2>3. CASE j # Len(s) + 1
    BY <1>1, <1>3, <2>1, <2>3 DEF NoRepeat
  <2> QED BY <2>2, <2>3
<1> QED BY <1>2, <1>3 DEF r

LEMMA AppendIncreasing ==
  ASSUME NEW S, NEW s \in Seq(S), NEW e \in S, NEW rank,
         Increasing(rank, s), \A x \in ToSet(s) : rank[x] < rank[e]
  PROVE  Increasing(rank, Append(s, e))
<1> DEFINE r == Append(s, e)
<1>1. /\ Len(s) \in Nat /\ DOMAIN s = 1..Len(s)
      /\ DOMAIN r = 1..(Len(s) + 1)
      /\ \A i \in 1..Len(s) : r[i] = s[i]
      /\ r[Len(s) + 1] = e
  BY LenProperties, AppendProperties
<1> HIDE DEF r
<1> SUFFICES ASSUME NEW j \in 1..(Len(s) + 1), NEW i \in 1..(j - 1)
             PROVE  rank[r[i]] < rank[r[j]]
  BY <1>1 DEF Increasing, r
<1>2. i \in 1..Len(s) /\ r[i] = s[i] /\ s[i] \in ToSet(s)
  BY <1>1 DEF ToSet
<1>3. CASE j = Len(s) + 1
  BY <1>1, <1>2, <1>3
<1>4. CASE j # Len(s) + 1
  BY <1>1, <1>2, <1>4 DEF Increasing
<1> QED BY <1>3, <1>4

\* Only the ranks of the elements count.
LEMMA IncreasingByElements ==
  ASSUME NEW s, NEW m \in Nat, DOMAIN s = 1..m, NEW rank, NEW other,
         Increasing(rank, s),
         \A x, y \in ToSet(s) : rank[x] < rank[y] => other[x] < other[y]
  PROVE  Increasing(other, s)
<1>1. \A i \in 1..m : s[i] \in ToSet(s)
  BY DEF ToSet
<1>2. \A j \in 1..m : \A i \in 1..(j - 1) : i \in 1..m
  OBVIOUS
<1> QED BY <1>1, <1>2 DEF Increasing

\* A queue of which the front is lost.
LEMMA LoseFront ==
  ASSUME NEW S, NEW s \in Seq(S), NEW t \in Seq(S), t # <<>>
  PROVE  /\ ToSet(s \o Tail(t)) \subseteq ToSet(s \o t)
         /\ NoRepeat(s \o t) => NoRepeat(s \o Tail(t))
         /\ \A rank : Increasing(rank, s \o t)
                       => Increasing(rank, s \o Tail(t))
<1> DEFINE a == s \o t
           b == s \o Tail(t)
           F(i) == IF i <= Len(s) THEN i ELSE i + 1
<1>1. /\ Len(s) \in Nat /\ Len(t) \in Nat \ {0}
      /\ Tail(t) \in Seq(S) /\ Len(Tail(t)) = Len(t) - 1
      /\ \A i \in 1..(Len(t) - 1) : Tail(t)[i] = t[i + 1]
  BY LenProperties, HeadTailProperties, EmptySeq
<1>2. /\ DOMAIN a = 1..(Len(s) + Len(t))
      /\ \A i \in 1..(Len(s) + Len(t)) :
            a[i] = IF i <= Len(s) THEN s[i] ELSE t[i - Len(s)]
  BY ConcatProperties, LenProperties
<1>3. /\ DOMAIN b = 1..(Len(s) + Len(t) - 1)
      /\ \A i \in 1..(Len(s) + Len(t) - 1) :
            b[i] = IF i <= Len(s) THEN s[i] ELSE Tail(t)[i - Len(s)]
  BY <1>1, ConcatProperties, LenProperties
<1> HIDE DEF a, b
<1>4. ASSUME NEW i \in DOMAIN b
      PROVE  F(i) \in DOMAIN a /\ b[i] = a[F(i)]
  <2>1. CASE i <= Len(s)
    BY <1>1, <1>2, <1>3, <2>1
  <2>2. CASE ~(i <= Len(s))
    <3>1. i \in 1..(Len(s) + Len(t) - 1) /\ i - Len(s) \in 1..(Len(t) - 1)
      BY <1>1, <1>3, <2>2
    <3>2. b[i] = t[(i - Len(s)) + 1]
      BY <1>1, <1>3, <2>2, <3>1
    <3>3. /\ i + 1 \in 1..(Len(s) + Len(t)) /\ ~(i + 1 <= Len(s))
          /\ (i + 1) - Len(s) = (i - Len(s)) + 1
      BY <1>1, <2>2, <3>1
    <3> QED BY <1>2, <2>2, <3>2, <3>3
  <2> QED BY <2>1, <2>2
<1>5. ToSet(b) \subseteq ToSet(a)
  BY <1>4 DEF ToSet
<1>6. ASSUME NEW j \in DOMAIN b, NEW i \in 1..(j - 1)
      PROVE  /\ F(j) \in DOMAIN a /\ F(i) \in 1..(F(j) - 1)
             /\ b[j] = a[F(j)] /\ b[i] = a[F(i)]
  <2>1. i \in DOMAIN b /\ j \in Int /\ i \in Int /\ i < j
    BY <1>1, <1>3
  <2>2. F(j) \in DOMAIN a /\ F(i) \in 1..(F(j) - 1)
    <3>1. F(j) \in DOMAIN a /\ F(i) \in DOMAIN a
      BY <1>4, <2>1
    <3> QED BY <1>1, <1>2, <2>1, <3>1
  <2> QED BY <1>4, <2>1, <2>2
<1> HIDE DEF F
<1>7. NoRepeat(a) => NoRepeat(b)
  BY <1>6 DEF NoRepeat
<1>8. ASSUME NEW rank, Increasing(rank, a) PROVE Increasing(rank, b)
  BY <1>6, <1>8 DEF Increasing
<1> QED BY <1>5, <1>7, <1>8 DEF a, b
=============================================================================
