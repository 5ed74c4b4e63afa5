---------------------------- MODULE VarIntProofs ----------------------------
(***************************************************************************)
(* Proofs about VarInt, for numbers and segments of any width.             *)
(***************************************************************************)
EXTENDS VarInt, SequenceLemmas

-----------------------------------------------------------------------------
(* Powers of two.                                                          *)

Powers(n) == CHOOSE p : p = [k \in 0..n |-> IF k = 0 THEN 1 ELSE 2 * p[k - 1]]

LEMMA PowersCountUp ==
  ASSUME NEW n \in Nat
  PROVE  /\ Powers(n) \in [0..n -> Nat]
         /\ Powers(n)[0] = 1
         /\ \A k \in 1..n : Powers(n)[k] = 2 * Powers(n)[k - 1]
         /\ Power(n) = Powers(n)[n]
<1> DEFINE P(p) == p = [k \in 0..n |-> IF k = 0 THEN 1 ELSE 2 * p[k - 1]]
           double == [k \in 1..n |-> [x \in Nat |-> 2 * x]]
<1>1. PICK p \in [0..n -> Nat] : CountsUp(p, n, 1, double)
  <2>1. 1 \in Nat /\ double \in [1..n -> [Nat -> Nat]]
    OBVIOUS
  <2> HIDE DEF double
  <2> QED BY <2>1, CountingFunction
<1>2. P(p)
  <2>1. ASSUME NEW k \in 0..n
        PROVE  (IF k = 0 THEN 1 ELSE double[k][p[k - 1]])
                 = IF k = 0 THEN 1 ELSE 2 * p[k - 1]
    <3>1. k # 0 => k \in 1..n /\ p[k - 1] \in Nat
      OBVIOUS
    <3> QED BY <3>1
  <2> QED BY <1>1, <2>1 DEF CountsUp
<1>3. P(Powers(n))
  <2>1. Powers(n) = CHOOSE q : P(q)
    BY DEF Powers
  <2> HIDE DEF P
  <2> QED BY <1>2, <2>1
<1>4. \A k \in 0..n : Powers(n)[k] \in Nat
  <2> DEFINE T == {k \in 0..n : Powers(n)[k] \in Nat}
  <2>1. 0 \in T
    BY <1>3
  <2>2. ASSUME NEW k \in 1..n, k - 1 \in T PROVE k \in T
    <3>1. Powers(n)[k] = 2 * Powers(n)[k - 1]
      BY <1>3
    <3> QED BY <2>2, <3>1
  <2> HIDE DEF T
  <2>3. 0..n \subseteq T
    BY <2>1, <2>2, InductiveInterval
  <2> QED BY <2>3 DEF T
<1>5. Powers(n) = [k \in 0..n |-> Powers(n)[k]]
  BY <1>3
<1>6. Powers(n) \in [0..n -> Nat]
  BY <1>4, <1>5
<1>7. Power(n) = Powers(n)[n]
  BY DEF Power, Powers
<1> QED BY <1>3, <1>6, <1>7

LEMMA PowerZero == Power(0) = 1
  BY PowersCountUp

LEMMA PowerNext ==
  ASSUME NEW n \in Nat
  PROVE  Power(n) \in Nat /\ Power(n + 1) = 2 * Power(n)
<1> DEFINE T == {k \in 0..n : Powers(n)[k] = Powers(n + 1)[k]}
<1>1. n + 1 \in Nat /\ 0..n \subseteq 0..(n + 1) /\ (n + 1) - 1 = n
  OBVIOUS
<1>2. 0 \in T
  <2>1. Powers(n)[0] = 1 /\ Powers(n + 1)[0] = 1
    BY <1>1, PowersCountUp
  <2> QED BY <2>1
<1>3. ASSUME NEW k \in 1..n, k - 1 \in T PROVE k \in T
  <2>1. k \in 1..(n + 1)
    OBVIOUS
  <2>2. Powers(n)[k] = 2 * Powers(n)[k - 1]
    BY PowersCountUp
  <2>3. Powers(n + 1)[k] = 2 * Powers(n + 1)[k - 1]
    BY <1>1, <2>1, PowersCountUp
  <2> QED BY <1>3, <2>2, <2>3
<1>4. Powers(n)[n] = Powers(n + 1)[n]
  <2> HIDE DEF T
  <2>1. 0..n \subseteq T
    BY <1>2, <1>3, InductiveInterval
  <2> QED BY <2>1 DEF T
<1>5. Powers(n + 1)[n + 1] = 2 * Powers(n + 1)[n]
  <2>1. n + 1 \in 1..(n + 1)
    OBVIOUS
  <2> QED BY <1>1, <2>1, PowersCountUp
<1>6. Power(n) = Powers(n)[n] /\ Power(n) \in Nat
  BY PowersCountUp
<1>7. Power(n + 1) = Powers(n + 1)[n + 1]
  BY <1>1, PowersCountUp
<1> QED BY <1>4, <1>5, <1>6, <1>7

\* Shifting by m and by n bits is shifting by m + n bits.
LEMMA PowerSum ==
  ASSUME NEW m \in Nat, NEW n \in Nat
  PROVE  /\ Power(m + n) = Power(m) * Power(n)
         /\ Power(n) \in Nat \ {0}
<1> DEFINE T == {k \in Nat : /\ Power(m + k) = Power(m) * Power(k)
                             /\ Power(k) >= 1}
<1>1. 0 \in T
  BY PowerZero, PowerNext
<1>2. ASSUME NEW k \in T PROVE k + 1 \in T
  <2>1. /\ k \in Nat /\ m + k \in Nat
        /\ m + (k + 1) = (m + k) + 1
    OBVIOUS
  <2>2. Power(m + (k + 1)) = 2 * Power(m + k)
    BY <2>1, PowerNext
  <2>3. Power(k + 1) = 2 * Power(k) /\ Power(k) \in Nat /\ Power(m) \in Nat
    BY <2>1, PowerNext
  <2> QED BY <2>2, <2>3
<1>3. T = Nat
  <2> HIDE DEF T
  <2>1. T \in SUBSET Nat
    BY DEF T
  <2> QED BY <1>1, <1>2, <2>1, InductiveSet
<1>4. n \in T
  BY <1>3
<1>5. Power(n) \in Nat
  BY PowerNext
<1> QED BY <1>4, <1>5

\* More bits, more numbers.
LEMMA PowerMonotonic ==
  ASSUME NEW m \in Nat, NEW n \in Nat, m <= n
  PROVE  Power(m) <= Power(n)
<1>1. n - m \in Nat /\ m + (n - m) = n
  OBVIOUS
<1>2. Power(n) = Power(m) * Power(n - m) /\ Power(n - m) \in Nat \ {0}
  BY <1>1, PowerSum
<1>3. Power(m) \in Nat
  BY PowerNext
<1>4. ASSUME NEW a \in Nat, NEW b \in Nat \ {0} PROVE a <= a * b
  OBVIOUS
<1> QED BY <1>2, <1>3, <1>4

\* The widths: a number has at least one segment, and half of the numbers are
\* negative.
LEMMA Widths ==
  /\ Power(Segment) \in Nat /\ Power(Segment) >= 2
  /\ Power(Width - 1) \in Nat \ {0}
  /\ Power(Width) = 2 * Power(Width - 1)
  /\ Power(Segment) <= Power(Width)
<1>1. /\ Width - 1 \in Nat /\ (Width - 1) + 1 = Width
      /\ Segment - 1 \in Nat /\ (Segment - 1) + 1 = Segment
      /\ Segment \in Nat /\ Width \in Nat /\ Segment <= Width
  BY VarIntAssumption
<1>2. Power(Width - 1) \in Nat \ {0} /\ Power(Segment - 1) \in Nat \ {0}
  BY <1>1, PowerSum
<1>3. Power(Width) = 2 * Power(Width - 1)
  BY <1>1, PowerNext
<1>4. Power(Segment) = 2 * Power(Segment - 1)
  BY <1>1, PowerNext
<1>5. Power(Segment) <= Power(Width)
  BY <1>1, PowerMonotonic
<1> QED BY <1>2, <1>3, <1>4, <1>5

-----------------------------------------------------------------------------
(* Segments.                                                               *)

\* What is left of a number after one of its segments, of a negative one too.
LEMMA Cut ==
  ASSUME NEW b \in Nat, b >= 2, NEW n \in Int
  PROVE  /\ n = b * (n \div b) + (n % b)
         /\ n % b \in 0..(b - 1)
         /\ n \div b \in Int
         /\ n >= 0 => n \div b \in 0..n
         /\ n >= b => n \div b < n /\ n \div b >= 1
         /\ n < 0 => n \div b < 0 /\ n \div b >= n
<1>1. b \in Nat \ {0}
  OBVIOUS
<1>2. /\ n = b * (n \div b) + (n % b)
      /\ n % b \in 0..(b - 1)
      /\ n \div b \in Int
  BY <1>1
<1>3. n < 0 => n \div b < 0 /\ n \div b >= n
  BY <1>1
<1>4. n >= 0 => n \div b \in 0..n
  BY <1>1, <1>2
<1>5. n >= b => n \div b < n /\ n \div b >= 1
  BY <1>2, <1>4
<1> QED BY <1>2, <1>3, <1>4, <1>5

\* The number of segments of a number, and of what is left of it.
LEMMA SizeOfVarInt ==
  ASSUME NEW n \in Bits
  PROVE  /\ sizeVarInt[n] \in Nat \ {0}
         /\ n \in Segments => sizeVarInt[n] = 1
         /\ n \notin Segments =>
               /\ n \div Power(Segment) \in Bits
               /\ sizeVarInt[n] = 1 + sizeVarInt[n \div Power(Segment)]
<1> DEFINE b == Power(Segment)
           P(g) == g = [k \in Bits |-> IF k \in Segments THEN 1
                                       ELSE 1 + g[k \div b]]
           one == [k \in Segments |-> 1]
           add == [k \in Bits |-> [x \in Nat \ {0} |-> 1 + x]]
           down == [k \in Bits |-> k \div b]
           m == Power(Width) - 1
<1>1. b \in Nat /\ b >= 2 /\ m \in Nat /\ b <= m + 1
  BY Widths
<1>2. Bits = 0..m /\ Segments = 0..(b - 1)
  BY DEF Bits, Segments
<1> HIDE DEF b, m
<1>3. \A k \in Bits \ Segments : k \div b \in Bits /\ k \div b < k
  <2> SUFFICES ASSUME NEW k \in Bits \ Segments
               PROVE  k \div b \in Bits /\ k \div b < k
    OBVIOUS
  <2>1. k \in 0..m /\ k >= b
    BY <1>1, <1>2
  <2>2. k \in Int /\ k >= 0
    BY <1>1, <2>1
  <2>3. k \div b \in 0..k /\ k \div b < k
    BY <1>1, <2>1, <2>2, Cut
  <2> QED BY <1>1, <1>2, <2>1, <2>3
<1>4. PICK g \in [Bits -> Nat \ {0}] :
           Recursive(g, Bits, Segments, one, add, down)
  <2>1. /\ m \in Nat /\ Bits \in SUBSET (0..m)
        /\ Segments \in SUBSET Bits
        /\ Nat \ {0} # {}
    BY <1>1, <1>2
  <2>2. one \in [Segments -> Nat \ {0}]
    OBVIOUS
  <2>3. add \in [Bits -> [Nat \ {0} -> Nat \ {0}]]
    OBVIOUS
  <2>4. \A k \in Bits : k \div b \in Int
    BY <1>1, <1>2, Cut
  <2>5. down \in [Bits -> Int] /\ \A k \in Bits : down[k] = k \div b
    BY <2>4
  <2> HIDE DEF one, add, down
  <2>6. \A k \in Bits \ Segments : down[k] \in Bits /\ down[k] < k
    BY <1>3, <2>5
  <2> QED BY <2>1, <2>2, <2>3, <2>5, <2>6, RecursiveFunction
<1>5. P(g)
  <2>1. ASSUME NEW k \in Bits
        PROVE  (IF k \in Segments THEN one[k] ELSE add[k][g[down[k]]])
                 = IF k \in Segments THEN 1 ELSE 1 + g[k \div b]
    <3>1. k \notin Segments => g[k \div b] \in Nat \ {0}
      BY <1>3
    <3> QED BY <3>1
  <2> QED BY <1>4, <2>1 DEF Recursive
<1>6. P(sizeVarInt)
  <2>1. sizeVarInt = CHOOSE h : P(h)
    BY DEF sizeVarInt, b
  <2> HIDE DEF P
  <2> QED BY <1>5, <2>1
<1>7. \A k \in Bits : sizeVarInt[k] \in Nat \ {0}
  <2> DEFINE T == {k \in Nat : \A j \in 0..k : j \in Bits =>
                                  sizeVarInt[j] \in Nat \ {0}}
  <2>1. 0 \in T
    <3>1. 0 \in Segments
      BY <1>1, <1>2
    <3> QED BY <1>6, <3>1
  <2>2. ASSUME NEW k \in T PROVE k + 1 \in T
    <3> SUFFICES ASSUME k + 1 \in Bits
                 PROVE  sizeVarInt[k + 1] \in Nat \ {0}
      OBVIOUS
    <3>1. CASE k + 1 \in Segments
      BY <1>6, <3>1
    <3>2. CASE k + 1 \notin Segments
      <4>1. (k + 1) \div b \in Bits /\ (k + 1) \div b \in 0..k
        BY <1>2, <1>3, <3>2
      <4>2. sizeVarInt[(k + 1) \div b] \in Nat \ {0}
        BY <4>1
      <4> QED BY <1>6, <3>2, <4>2
    <3> QED BY <3>1, <3>2
  <2>3. T = Nat
    <3> HIDE DEF T
    <3>1. T \in SUBSET Nat
      BY DEF T
    <3> QED BY <2>1, <2>2, <3>1, InductiveSet
  <2>4. ASSUME NEW k \in Bits PROVE sizeVarInt[k] \in Nat \ {0}
    <3>1. k \in Nat /\ k \in 0..k
      BY <1>1, <1>2
    <3>2. k \in T
      BY <2>3, <3>1
    <3> QED BY <3>1, <3>2
  <2> QED BY <2>4
<1> QED BY <1>3, <1>6, <1>7 DEF b

-----------------------------------------------------------------------------
(* The inductive invariant.                                                *)

\* The number as it is on the wire.
OnWire == given % Power(Width)

\* q is what was left of the number before each of the bytes.
Remainders(q) ==
  /\ q \in Seq(Nat)
  /\ q # <<>>
  /\ q[1] = OnWire
  /\ \A i \in 1..(Len(q) - 1) :
        /\ q[i] \notin Segments
        /\ q[i + 1] = q[i] \div Power(Segment)
        /\ bytes[i] = [bits |-> q[i] % Power(Segment), more |-> TRUE]

\* A negative number of the server is shifted for ever.
Endless == mode = "write" /\ content \in Int32 /\ content < 0

\* Some bytes are written, content is left, and its segments are to come.
Writing(q) ==
  /\ mode = "write"
  /\ content \in Bits
  /\ Len(bytes) = Len(q) - 1
  /\ q[Len(q)] = content
  /\ sizeVarInt[OnWire] = Len(bytes) + sizeVarInt[content]

\* All bytes are written.
Complete(q) ==
  /\ content \in Segments
  /\ Len(bytes) = Len(q)
  /\ q[Len(q)] = content
  /\ bytes[Len(q)] = [bits |-> content, more |-> FALSE]
  /\ sizeVarInt[OnWire] = Len(bytes)

\* k bytes are read: what was left of the number then is to be shifted back.
Reading(q, k) ==
  /\ mode = "read"
  /\ k \in 0..(Len(q) - 1)
  /\ position = Segment * k
  /\ OnWire = value + Power(position) * q[k + 1]

NumberInv ==
  /\ writer \in {"server", "peer"}
  /\ given \in Int32
  /\ bytes \in Seq(Byte)
  /\ value \in Bits
  /\ position \in Nat
  /\ \/ value = 0 /\ position = 0 /\ Endless
     \/ \E q : /\ Remainders(q)
               /\ \/ value = 0 /\ position = 0 /\ Writing(q)
                  \/ Complete(q) /\ mode = "done" /\ value = OnWire
                  \/ Complete(q) /\ \E k : Reading(q, k)

LEMMA OnWireInBits == given \in Int32 => OnWire \in Bits /\ Signed(OnWire) = given
<1> SUFFICES ASSUME given \in Int32
             PROVE  OnWire \in Bits /\ Signed(OnWire) = given
  OBVIOUS
<1> DEFINE h == Power(Width - 1)
<1>1. h \in Nat \ {0} /\ Power(Width) = 2 * h
  BY Widths
<1> HIDE DEF h
<1>2. given \in -h..(h - 1)
  BY DEF Int32, h
<1>3. OnWire = given % (2 * h) /\ Bits = 0..((2 * h) - 1)
  BY <1>1 DEF OnWire, Bits
<1>4. Signed(OnWire) = IF OnWire < h THEN OnWire ELSE OnWire - (2 * h)
  BY <1>1 DEF Signed, h
<1>5. CASE given >= 0
  <2>1. given \in Nat /\ given < h
    BY <1>1, <1>2, <1>5
  <2>2. OnWire = given
    BY <1>1, <1>3, <2>1
  <2> QED BY <1>1, <1>3, <1>4, <2>1, <2>2
<1>6. CASE given < 0
  <2>1. OnWire = given + (2 * h)
    BY <1>1, <1>2, <1>3, <1>6
  <2> QED BY <1>1, <1>2, <1>3, <1>4, <1>6, <2>1
<1> QED BY <1>2, <1>5, <1>6, <1>1

LEMMA InitNumber == Init => NumberInv
<1> SUFFICES ASSUME Init PROVE NumberInv
  OBVIOUS
<1> USE DEF Init
<1>1. /\ writer \in {"server", "peer"} /\ given \in Int32
      /\ bytes = <<>> /\ value = 0 /\ position = 0 /\ mode = "write"
      /\ content = IF writer = "server" THEN given ELSE OnWire
  BY DEF OnWire
<1>2. OnWire \in Bits /\ 0 \in Bits
  BY <1>1, OnWireInBits, Widths DEF Bits
<1>3. bytes \in Seq(Byte) /\ Len(bytes) = 0
  BY <1>1
<1>4. CASE writer = "server" /\ given < 0
  BY <1>1, <1>2, <1>3, <1>4 DEF NumberInv, Endless
<1>5. CASE ~(writer = "server" /\ given < 0)
  <2>1. content = OnWire
    <3>1. CASE writer = "server"
      <4>1. given \in Nat /\ given < Power(Width) /\ Power(Width) \in Nat \ {0}
        BY <1>1, <1>5, <3>1, Widths DEF Int32
      <4>2. OnWire = given
        BY <4>1 DEF OnWire
      <4> QED BY <1>1, <3>1, <4>2
    <3> QED BY <1>1, <3>1
  <2> DEFINE q == <<OnWire>>
  <2>2. OnWire \in Nat
    BY <1>2, Widths DEF Bits
  <2>3. q \in Seq(Nat) /\ q # <<>> /\ Len(q) = 1 /\ q[1] = OnWire
    BY <2>2
  <2> HIDE DEF q
  <2>4. Remainders(q)
    BY <2>3 DEF Remainders
  <2>5. sizeVarInt[OnWire] \in Nat
    BY <1>2, SizeOfVarInt
  <2>6. Writing(q)
    BY <1>1, <1>2, <1>3, <2>1, <2>3, <2>5 DEF Writing
  <2> QED BY <1>1, <1>2, <1>3, <2>4, <2>6 DEF NumberInv
<1> QED BY <1>4, <1>5

\* The last byte completes them.
LEMMA WriteLastNumber == NumberInv /\ WriteLast => NumberInv'
<1> SUFFICES ASSUME NumberInv, WriteLast PROVE NumberInv'
  OBVIOUS
<1> DEFINE byte == [bits |-> content, more |-> FALSE]
<1>1. /\ mode = "write" /\ mode' = "read" /\ content \in Segments
      /\ bytes' = Append(bytes, byte)
      /\ UNCHANGED <<writer, given, content, value, position>>
  BY DEF WriteLast
<1>2. ~Endless
  BY <1>1, Widths DEF Endless, Segments
<1>3. PICK q : Remainders(q) /\ value = 0 /\ position = 0 /\ Writing(q)
  BY <1>1, <1>2 DEF NumberInv, Reading
<1>4. byte \in Byte /\ bytes \in Seq(Byte)
  BY <1>1 DEF Byte, NumberInv
<1> HIDE DEF byte
<1>5. /\ bytes' \in Seq(Byte) /\ Len(bytes') = Len(bytes) + 1
      /\ \A i \in 1..Len(bytes) : bytes'[i] = bytes[i]
      /\ bytes'[Len(bytes) + 1] = byte
  BY <1>1, <1>4, AppendProperties
<1>6. /\ Len(q) \in Nat /\ Len(q) >= 1 /\ Len(bytes) = Len(q) - 1
      /\ q[1] = OnWire /\ q[Len(q)] = content /\ content \in Bits
  BY <1>3, LenProperties, EmptySeq DEF Remainders, Writing
<1>7. Remainders(q)'
  BY <1>1, <1>3, <1>5, <1>6 DEF Remainders, OnWire
<1>8. Complete(q)'
  <2>1. sizeVarInt[content] = 1
    BY <1>1, <1>6, SizeOfVarInt
  <2>2. sizeVarInt[OnWire] = Len(bytes) + 1
    BY <1>3, <2>1 DEF Writing
  <2> QED BY <1>1, <1>5, <1>6, <2>2 DEF Complete, OnWire, byte
<1>9. Reading(q, 0)'
  <2>1. 0 \in 0..(Len(q) - 1) /\ Segment * 0 = 0 /\ 0 + 1 = 1
    BY <1>6, VarIntAssumption
  <2>2. OnWire \in Nat
    BY <1>3, <1>6 DEF Remainders
  <2>3. OnWire' = OnWire /\ value' = 0 /\ position' = 0
    BY <1>1, <1>3 DEF OnWire
  <2>4. OnWire = 0 + Power(0) * q[1]
    BY <1>6, <2>2, PowerZero
  <2> QED BY <1>1, <2>1, <2>3, <2>4 DEF Reading
<1> QED BY <1>1, <1>5, <1>7, <1>8, <1>9 DEF NumberInv

\* One more segment is written, and one less is left.
LEMMA WriteSegmentNumber == NumberInv /\ WriteSegment => NumberInv'
<1> SUFFICES ASSUME NumberInv, WriteSegment PROVE NumberInv'
  OBVIOUS
<1> DEFINE b == Power(Segment)
           byte == [bits |-> content % b, more |-> TRUE]
<1>1. /\ mode = "write" /\ mode' = "write" /\ content \notin Segments
      /\ bytes' = Append(bytes, byte) /\ content' = content \div b
      /\ UNCHANGED <<writer, given, value, position>>
  BY DEF WriteSegment
<1>2. b \in Nat /\ b >= 2 /\ Segments = 0..(b - 1)
  BY Widths DEF Segments
<1>3. content \in Int
  <2>1. Endless \/ content \in Bits
    BY <1>1 DEF NumberInv, Reading, Writing
  <2> QED BY <2>1, Widths DEF Endless, Int32, Bits
<1> HIDE DEF b
<1>4. /\ content % b \in 0..(b - 1)
      /\ content \div b \in Int
      /\ content < 0 => content \div b < 0 /\ content \div b >= content
  BY <1>2, <1>3, Cut
<1>5. byte \in Byte /\ bytes \in Seq(Byte)
  BY <1>2, <1>4 DEF Byte, NumberInv
<1> HIDE DEF byte
<1>6. /\ bytes' \in Seq(Byte) /\ Len(bytes') = Len(bytes) + 1
      /\ \A i \in 1..Len(bytes) : bytes'[i] = bytes[i]
      /\ bytes'[Len(bytes) + 1] = byte
  BY <1>1, <1>5, AppendProperties
<1>7. CASE value = 0 /\ position = 0 /\ Endless
  <2>1. Endless'
    BY <1>1, <1>3, <1>4, <1>7, Widths DEF Endless, Int32
  <2> QED BY <1>1, <1>6, <1>7, <2>1 DEF NumberInv
<1>8. ASSUME NEW q, Remainders(q), value = 0, position = 0, Writing(q)
      PROVE  NumberInv'
  <2> PICK r : r = Append(q, content')
    OBVIOUS
  <2>1. /\ q \in Seq(Nat) /\ Len(q) \in Nat /\ Len(q) >= 1
        /\ Len(bytes) = Len(q) - 1
        /\ q[1] = OnWire /\ q[Len(q)] = content /\ content \in Bits
    BY <1>8, LenProperties, EmptySeq DEF Remainders, Writing
  <2>2. /\ content' \in Bits
        /\ sizeVarInt[content] = 1 + sizeVarInt[content']
        /\ sizeVarInt[content'] \in Nat
    BY <1>1, <2>1, SizeOfVarInt DEF b
  <2>3. content' \in Nat
    BY <2>2, Widths DEF Bits
  <2>4. /\ r \in Seq(Nat) /\ r # <<>> /\ Len(r) = Len(q) + 1
        /\ \A i \in 1..Len(q) : r[i] = q[i]
        /\ r[Len(q) + 1] = content'
    BY <2>1, <2>3, AppendProperties
  <2>5. Remainders(r)'
    <3>1. r[1] = OnWire'
      BY <1>1, <2>1, <2>4 DEF OnWire
    <3>2. ASSUME NEW i \in 1..(Len(r) - 1)
          PROVE  /\ r[i] \notin Segments
                 /\ r[i + 1] = r[i] \div b
                 /\ bytes'[i] = [bits |-> r[i] % b, more |-> TRUE]
      <4>1. CASE i = Len(q)
        <5>1. r[i] = content /\ r[i + 1] = content' /\ i = Len(bytes) + 1
          BY <2>1, <2>4, <4>1
        <5> QED BY <1>1, <1>6, <5>1 DEF byte
      <4>2. CASE i # Len(q)
        <5>1. /\ i \in 1..(Len(q) - 1) /\ i \in 1..Len(q)
              /\ i + 1 \in 1..Len(q) /\ i \in 1..Len(bytes)
          BY <2>1, <2>4, <4>2
        <5> QED BY <1>6, <1>8, <2>4, <5>1 DEF Remainders, b
      <4> QED BY <4>1, <4>2
    <3> QED BY <2>4, <3>1, <3>2 DEF Remainders, b
  <2>6. Writing(r)'
    <3>1. sizeVarInt[OnWire] = Len(bytes) + sizeVarInt[content]
      BY <1>8 DEF Writing
    <3> QED BY <1>1, <1>6, <2>1, <2>2, <2>4, <3>1 DEF Writing, OnWire
  <2> QED BY <1>1, <1>6, <1>8, <2>5, <2>6 DEF NumberInv
<1> QED BY <1>1, <1>7, <1>8 DEF NumberInv, Reading

\* A segment is shifted into its place, and so is what follows it.
LEMMA Reassemble ==
  ASSUME NEW b \in Nat, b >= 2, NEW p \in Nat \ {0}, NEW v \in Nat, NEW n \in Nat
  PROVE  /\ n % b \in Nat /\ n \div b \in Nat
         /\ v + p * n = (v + (n % b) * p) + (p * b) * (n \div b)
         /\ v + (n % b) * p \in 0..(v + p * n)
         /\ n >= b => p * b <= v + p * n
<1> DEFINE r == n % b
           m == n \div b
<1>1. r \in Nat /\ m \in Nat /\ n = b * m + r
  BY Cut
<1> HIDE DEF r, m
<1>2. v + p * n = (v + r * p) + (p * b) * m
  BY <1>1
<1>3. r * p \in Nat /\ p * b \in Nat /\ (p * b) * m \in Nat
  <2>1. ASSUME NEW x \in Nat, NEW y \in Nat PROVE x * y \in Nat
    OBVIOUS
  <2> QED BY <1>1, <2>1
<1>4. v + r * p \in 0..(v + p * n)
  BY <1>2, <1>3
<1>5. n >= b => p * b <= v + p * n
  <2>1. ASSUME NEW x \in Nat, NEW y \in Nat, x <= y PROVE p * x <= p * y
    BY <2>1
  <2>2. p * n \in Nat
    OBVIOUS
  <2> QED BY <1>3, <2>1, <2>2
<1> QED BY <1>1, <1>2, <1>4, <1>5 DEF r, m

\* The next byte read, and the place its bits go to.
LEMMA ReadByteNumber == NumberInv /\ ReadByte => NumberInv'
<1> SUFFICES ASSUME NumberInv, ReadByte PROVE NumberInv'
  OBVIOUS
<1> DEFINE b == Power(Segment)
           w == Power(Width)
           p == Power(position)
<1>1. /\ mode = "read"
      /\ value' = (value + NextByte.bits * p) % w
      /\ position' = position + Segment
      /\ UNCHANGED <<writer, given, content, bytes>>
  BY DEF ReadByte
<1>2. /\ ~NextByte.more => mode' = "done"
      /\ NextByte.more /\ ~(position + Segment >= Width) => mode' = "read"
  BY DEF ReadByte
<1>3. /\ b \in Nat /\ b >= 2 /\ Segments = 0..(b - 1)
      /\ w \in Nat \ {0} /\ Bits = 0..(w - 1)
  BY Widths DEF Segments, Bits
<1>4. Segment \in Nat \ {0} /\ Width \in Nat /\ position \in Nat
  BY VarIntAssumption DEF NumberInv
<1>5. p \in Nat \ {0} /\ Power(position + Segment) = p * b
  BY <1>4, PowerSum
<1>6. PICK q, k : Remainders(q) /\ Complete(q) /\ Reading(q, k)
  BY <1>1 DEF NumberInv, Endless, Writing
<1>7. /\ q \in Seq(Nat) /\ Len(q) \in Nat
      /\ k \in Nat /\ k + 1 \in 1..Len(q)
      /\ position = Segment * k
      /\ OnWire = value + p * q[k + 1]
      /\ OnWire' = OnWire
  BY <1>1, <1>6, LenProperties DEF Remainders, Reading, OnWire
<1> HIDE DEF b, w, p
<1>8. NextByte = bytes[k + 1]
  <2>1. position \div Segment = k
    BY <1>4, <1>7
  <2> QED BY <2>1 DEF NextByte
<1>9. q[k + 1] \in Nat /\ value \in Nat /\ OnWire \in 0..(w - 1)
  <2>1. q[k + 1] \in Nat
    BY <1>7, ElementOfSeq
  <2>2. OnWire \in Bits /\ value \in Bits
    BY OnWireInBits DEF NumberInv
  <2> QED BY <1>3, <2>1, <2>2
<1>10. Remainders(q)' /\ Complete(q)'
  BY <1>1, <1>6, <1>7 DEF Remainders, Complete
<1>11. ASSUME NEW x \in 0..(w - 1) PROVE x % w = x
  BY <1>3
<1>12. /\ (writer \in {"server", "peer"} /\ given \in Int32)'
       /\ (bytes \in Seq(Byte) /\ position \in Nat)'
  BY <1>1, <1>4 DEF NumberInv, Int32
<1>13. CASE k + 1 = Len(q)
  <2>1. NextByte = [bits |-> q[k + 1], more |-> FALSE]
    BY <1>6, <1>8, <1>13 DEF Complete
  <2>2. value' = OnWire
    <3>1. value + q[k + 1] * p = OnWire
      BY <1>5, <1>7, <1>9
    <3> QED BY <1>1, <1>9, <1>11, <2>1, <3>1
  <2>3. mode' = "done" /\ value' = OnWire' /\ value' \in Bits
    BY <1>2, <1>3, <1>7, <1>9, <2>1, <2>2
  <2> QED BY <1>10, <1>12, <2>3 DEF NumberInv
<1>14. CASE k + 1 < Len(q)
  <2> DEFINE n == q[k + 1]
             r == n % b
             m == n \div b
  <2>1. /\ n \notin Segments /\ n \in Nat
        /\ q[k + 2] = m
        /\ NextByte = [bits |-> r, more |-> TRUE]
    <3>1. k + 1 \in 1..(Len(q) - 1) /\ (k + 1) + 1 = k + 2
      BY <1>7, <1>14
    <3> QED BY <1>6, <1>8, <1>9, <3>1 DEF Remainders, b
  <2>2. /\ r \in Nat /\ m \in Nat
        /\ OnWire = (value + r * p) + (p * b) * m
        /\ value + r * p \in 0..OnWire
        /\ n >= b => p * b <= OnWire
    <3> HIDE DEF n
    <3>1. n \in Nat /\ OnWire = value + p * n
      BY <1>7, <1>9 DEF n
    <3>2. /\ n % b \in Nat /\ n \div b \in Nat
          /\ value + p * n = (value + (n % b) * p) + (p * b) * (n \div b)
          /\ value + (n % b) * p \in 0..(value + p * n)
          /\ n >= b => p * b <= value + p * n
      BY <1>3, <1>5, <1>9, <3>1, Reassemble
    <3> QED BY <3>1, <3>2
  <2>3. n >= b
    BY <1>3, <2>1
  <2> HIDE DEF n, m, r
  <2>4. value' = value + r * p /\ value' \in Bits
    <3>1. value + r * p \in 0..(w - 1)
      BY <1>3, <1>9, <2>2
    <3> QED BY <1>1, <1>3, <1>11, <2>1, <3>1
  <2>5. position + Segment < Width
    <3>1. p * b < w
      BY <1>3, <1>5, <1>9, <2>2, <2>3
    <3>2. Power(position + Segment) < Power(Width)
      BY <1>5, <3>1 DEF w
    <3>3. /\ position + Segment \in Nat
          /\ Power(Width) \in Nat /\ Power(position + Segment) \in Nat
      BY <1>4, PowerNext
    <3> QED BY <1>4, <3>2, <3>3, PowerMonotonic
  <2>6. mode' = "read"
    BY <1>2, <1>4, <2>1, <2>5
  <2>7. Reading(q, k + 1)'
    <3>1. k + 1 \in 0..(Len(q) - 1) /\ (k + 1) + 1 = k + 2
      BY <1>7, <1>14
    <3>2. position' = Segment * (k + 1)
      BY <1>1, <1>4, <1>7
    <3>3. Power(position') = p * b
      BY <1>1, <1>5
    <3>4. OnWire' = value' + Power(position') * q[(k + 1) + 1]
      BY <1>7, <2>1, <2>2, <2>4, <3>1, <3>3
    <3> QED BY <2>6, <3>1, <3>2, <3>4 DEF Reading
  <2> QED BY <1>10, <1>12, <2>4, <2>7 DEF NumberInv
<1> QED BY <1>7, <1>13, <1>14

-----------------------------------------------------------------------------
\* Every step of the encoding and decoding preserves the invariant.
LEMMA NextNumber == NumberInv /\ [WriteNumber \/ ReadByte]_vars => NumberInv'
<1> SUFFICES ASSUME NumberInv, [WriteNumber \/ ReadByte]_vars PROVE NumberInv'
  OBVIOUS
<1>1. CASE UNCHANGED vars
  BY <1>1 DEF NumberInv, vars, Endless, Remainders, Writing, Complete, Reading,
              OnWire
<1> QED BY <1>1, WriteLastNumber, WriteSegmentNumber, ReadByteNumber
        DEF WriteNumber

LEMMA NumberTyped == NumberInv => TypeOK
<1> SUFFICES ASSUME NumberInv PROVE TypeOK
  OBVIOUS
<1>1. Segments \subseteq Bits
  BY Widths DEF Segments, Bits
<1>2. \/ Endless
      \/ \E q : Writing(q)
      \/ \E q : Complete(q) /\ (mode = "done" \/ \E k : Reading(q, k))
  BY DEF NumberInv
<1>3. content \in Int32 \cup Bits
  BY <1>1, <1>2 DEF Endless, Writing, Complete
<1>4. mode \in {"write", "read", "done", "threw"}
  BY <1>2 DEF Endless, Writing, Reading
<1> QED BY <1>3, <1>4 DEF TypeOK, NumberInv

LEMMA NumberArrives == NumberInv => ArrivesIntact
<1> SUFFICES ASSUME NumberInv PROVE ArrivesIntact
  OBVIOUS
<1>1. mode # "threw"
  BY DEF NumberInv, Endless, Writing, Reading
<1>2. ASSUME mode = "done"
      PROVE  Signed(value) = given /\ Len(bytes) = sizeVarInt[OnWire]
  <2>1. PICK q : Complete(q) /\ value = OnWire
    BY <1>2 DEF NumberInv, Endless, Writing, Reading
  <2> QED BY <2>1, OnWireInBits DEF Complete, NumberInv
<1> QED BY <1>1, <1>2 DEF ArrivesIntact, OnWire
=============================================================================
