--------------------------- MODULE Packet_proofs ---------------------------
(***************************************************************************)
(* Proofs about Packet for every payload, every index and every checksum   *)
(* whose step loses nothing: what is encoded is decoded, a packet holds its*)
(* delimiter at the end only, and one wrong byte that spares the frame is  *)
(* caught.                                                                 *)
(***************************************************************************)
EXTENDS Packet, SequenceTheorems, FiniteSetTheorems, WellFoundedInduction, TLAPS

-----------------------------------------------------------------------------
(* Numbers. *)

\* A set of numbers that is not empty has a least one.
LEMMA LeastNumber ==
    ASSUME NEW T, T \subseteq Nat, T # {}
    PROVE  \E x \in T : \A y \in T : x <= y
  <1>1. PICK x \in T : \A y \in T : <<y, x>> \notin OpToRel(<, Nat)
    BY WFMin, NatLessThanWellFounded
  <1>2. \A y \in T : ~(y < x)
    BY <1>1 DEF OpToRel
  <1> QED
    BY <1>2

\* It is Min of the set.
LEMMA MinIsLeast ==
    ASSUME NEW T, T \subseteq Nat, T # {}
    PROVE  Min(T) \in T /\ \A y \in T : Min(T) <= y
  BY LeastNumber DEF Min

-----------------------------------------------------------------------------
(* The checksum. It is a recursive function; the proofs go by the least number *)
(* of bytes for which they would fail. *)

\* Two checksums before a byte, and two bytes, lead to different checksums.
LEMMA StepKeepsApart ==
    ASSUME NEW x \in Byte, NEW a \in Byte, NEW b \in Byte, a # b
    PROVE  CrcByte(a, x) # CrcByte(b, x) /\ CrcByte(x, a) # CrcByte(x, b)
  <1> DEFINE f == [c \in Byte |-> CrcByte(c, x)]
             g == [c \in Byte |-> CrcByte(x, c)]
  <1>1. IsFiniteSet(Byte)
    <2>1. 0 \in Int /\ 255 \in Int
      OBVIOUS
    <2> QED
      BY <2>1, FS_Interval DEF Byte
  <1>2. {CrcByte(c, x) : c \in Byte} = Byte /\ {CrcByte(x, c) : c \in Byte} = Byte
    BY PacketAssumption
  <1>3. f \in Surjection(Byte, Byte) /\ g \in Surjection(Byte, Byte)
    BY <1>2 DEF Surjection
  <1>4. f \in Injection(Byte, Byte) /\ g \in Injection(Byte, Byte)
    BY <1>1, <1>3, FS_SurjSameCardinalityImpliesInj
  <1> QED
    BY <1>4 DEF Injection, IsInjective

LEMMA ByteIsInt == \A b \in Byte : b \in Int
  BY DEF Byte

LEMMA StepType == \A c, b \in Byte : CrcByte(c, b) \in Byte
  BY PacketAssumption

\* What the equation of crc8_smbus says of crc, for the first n bytes.
CrcEquation(crc, data, n) ==
    crc = [k \in 0 .. n |-> IF k = 0 THEN 0 ELSE CrcByte(crc[k - 1], data[k])]

\* There is a function that satisfies it.
LEMMA CrcExists ==
    ASSUME NEW data, NEW n \in Nat
    PROVE  \E crc : CrcEquation(crc, data, n)
  <1> DEFINE T == {k \in Nat : ~ \E crc : CrcEquation(crc, data, k)}
  <1> SUFFICES ASSUME T # {} PROVE FALSE
    OBVIOUS
  <1>1. PICK x \in T : \A y \in T : x <= y
    BY LeastNumber
  <1>2. x # 0
    <2>1. CrcEquation([k \in 0 .. 0 |-> 0], data, 0)
      BY DEF CrcEquation
    <2> QED
      BY <2>1
  <1>3. x - 1 \in Nat /\ x - 1 \notin T
    BY <1>1, <1>2
  <1>4. PICK g : CrcEquation(g, data, x - 1)
    BY <1>3
  <1> DEFINE h == [k \in 0 .. x |-> IF k = x THEN CrcByte(g[x - 1], data[x]) ELSE g[k]]
  <1>5. ASSUME NEW k \in 0 .. x
        PROVE  h[k] = IF k = 0 THEN 0 ELSE CrcByte(h[k - 1], data[k])
    <2>1. CASE k = x
      BY <1>2, <2>1
    <2>2. CASE k # x
      <3>1. k \in 0 .. x - 1 /\ (k # 0 => k - 1 \in 0 .. x - 1 /\ k - 1 # x)
        BY <2>2
      <3>2. g[k] = IF k = 0 THEN 0 ELSE CrcByte(g[k - 1], data[k])
        BY <1>4, <3>1 DEF CrcEquation
      <3>3. k # 0 => h[k - 1] = g[k - 1]
        BY <3>1
      <3> QED
        BY <2>2, <3>2, <3>3
    <2> QED
      BY <2>1, <2>2
  <1>6. CrcEquation(h, data, x)
    <2> HIDE DEF h
    <2>1. h = [k \in 0 .. x |-> h[k]]
      BY DEF h
    <2> QED
      BY <1>5, <2>1 DEF CrcEquation
  <1> QED
    BY <1>6

\* So the checksum is the last value of one, which are all checksums.
LEMMA CrcIsLast ==
    ASSUME NEW data \in Seq(Byte)
    PROVE  \E crc \in [0 .. Len(data) -> Byte] :
             /\ crc8_smbus(data) = crc[Len(data)]
             /\ crc[0] = 0
             /\ \A k \in 1 .. Len(data) : crc[k] = CrcByte(crc[k - 1], data[k])
  <1> DEFINE n == Len(data)
             crc == CHOOSE c : CrcEquation(c, data, n)
  <1>1. CrcEquation(crc, data, n)
    BY CrcExists
  <1>2. crc8_smbus(data) = crc[n]
    BY DEF crc8_smbus, CrcEquation
  <1> HIDE DEF crc
  <1>3. /\ DOMAIN crc = 0 .. n /\ crc = [k \in 0 .. n |-> crc[k]] /\ crc[0] = 0
        /\ \A k \in 1 .. n : crc[k] = CrcByte(crc[k - 1], data[k])
    BY <1>1 DEF CrcEquation
  <1>4. \A k \in 0 .. n : crc[k] \in Byte
    <2> DEFINE T == {k \in 0 .. n : crc[k] \notin Byte}
    <2> SUFFICES ASSUME T # {} PROVE FALSE
      OBVIOUS
    <2>0. T \subseteq Nat
      OBVIOUS
    <2>1. PICK x \in T : \A y \in T : x <= y
      <3> HIDE DEF T
      <3> QED
        BY <2>0, LeastNumber
    <2>2. x # 0
      BY <1>3 DEF Byte
    <2>3. x - 1 \in 0 .. n /\ crc[x - 1] \in Byte /\ data[x] \in Byte
      BY <2>1, <2>2
    <2> QED
      BY <1>3, <2>1, <2>2, <2>3, StepType
  <1> QED
    BY <1>2, <1>3, <1>4

LEMMA CrcType == ASSUME NEW data \in Seq(Byte) PROVE crc8_smbus(data) \in Byte
  BY CrcIsLast

\* One wrong byte changes the checksum.
LEMMA OneWrongByteChangesCrc ==
    ASSUME NEW d \in Seq(Byte), NEW e \in Seq(Byte), Len(d) = Len(e),
           NEW w \in 1 .. Len(d), d[w] # e[w],
           \A k \in 1 .. Len(d) : k # w => d[k] = e[k]
    PROVE  crc8_smbus(d) # crc8_smbus(e)
  <1> DEFINE n == Len(d)
  <1>1. PICK c \in [0 .. n -> Byte] :
          /\ crc8_smbus(d) = c[n] /\ c[0] = 0
          /\ \A k \in 1 .. n : c[k] = CrcByte(c[k - 1], d[k])
    BY CrcIsLast
  <1>2. PICK b \in [0 .. n -> Byte] :
          /\ crc8_smbus(e) = b[n] /\ b[0] = 0
          /\ \A k \in 1 .. n : b[k] = CrcByte(b[k - 1], e[k])
    <2>1. n = Len(e)
      OBVIOUS
    <2> HIDE DEF n
    <2> QED
      BY <2>1, CrcIsLast
  <1>3. n \in Nat /\ \A k \in 1 .. n : d[k] \in Byte /\ e[k] \in Byte
    OBVIOUS
  <1>4. \A k \in 0 .. w - 1 : c[k] = b[k]
    <2> DEFINE T == {k \in 0 .. w - 1 : c[k] # b[k]}
    <2> SUFFICES ASSUME T # {} PROVE FALSE
      OBVIOUS
    <2>0. T \subseteq Nat
      OBVIOUS
    <2>1. PICK x \in T : \A y \in T : x <= y
      <3> HIDE DEF T
      <3> QED
        BY <2>0, LeastNumber
    <2>2. x # 0 /\ x \in 1 .. n /\ x # w
      BY <1>1, <1>2, <2>1
    <2>3. c[x - 1] = b[x - 1] /\ d[x] = e[x]
      BY <2>1, <2>2
    <2> QED
      BY <1>1, <1>2, <2>1, <2>2, <2>3
  <1>5. \A k \in w .. n : c[k] # b[k]
    <2> DEFINE T == {k \in w .. n : c[k] = b[k]}
    <2> SUFFICES ASSUME T # {} PROVE FALSE
      OBVIOUS
    <2>0. T \subseteq Nat
      OBVIOUS
    <2>1. PICK x \in T : \A y \in T : x <= y
      <3> HIDE DEF T
      <3> QED
        BY <2>0, LeastNumber
    <2>2. x \in 1 .. n /\ x - 1 \in 0 .. n /\ c[x - 1] \in Byte /\ b[x - 1] \in Byte
      BY <2>1
    <2>3. CASE x = w
      <3>1. c[x - 1] = b[x - 1] /\ d[x] # e[x]
        BY <1>4, <2>3
      <3> QED
        BY <1>1, <1>2, <1>3, <2>1, <2>2, <3>1, StepKeepsApart
    <2>4. CASE x # w
      <3>1. c[x - 1] # b[x - 1] /\ d[x] = e[x]
        BY <2>1, <2>2, <2>4
      <3> QED
        BY <1>1, <1>2, <1>3, <2>1, <2>2, <3>1, StepKeepsApart
    <2> QED
      BY <2>3, <2>4
  <1> QED
    BY <1>1, <1>2, <1>3, <1>5

-----------------------------------------------------------------------------
(* COBS. *)

\* A code leads to the next one, or behind the end; everything else is as it was.
LEMMA EncodeProperties ==
    ASSUME NEW r \in Seq(Byte), Len(r) <= 252, NEW k \in 1 .. Len(r) + 1
    PROVE  /\ CobsEncode(r)[k] \in Byte \ {0}
           /\ ~IsCode(r, k) => CobsEncode(r)[k] = r[k - 1]
           /\ IsCode(r, k) =>
                /\ k + CobsEncode(r)[k] \in k + 1 .. Len(r) + 2
                /\ \/ k + CobsEncode(r)[k] = Len(r) + 2
                   \/ IsCode(r, k + CobsEncode(r)[k])
                /\ \A j \in k + 1 .. k + CobsEncode(r)[k] - 1 : ~IsCode(r, j)
  <1> DEFINE n == Len(r)
             T == {j \in Stops(r) : j >= k}
             m == Min(T)
  <1>1. n \in Nat /\ Stops(r) = {j \in 1 .. n : r[j] = 0} \cup {n + 1}
    BY DEF Stops
  <1>2. m \in T /\ \A j \in T : m <= j
    <2>1. n + 1 \in T /\ T \subseteq Nat
      BY <1>1
    <2> HIDE DEF T
    <2> QED
      BY <2>1, MinIsLeast
  <1>3. CobsEncode(r)[k] = IF IsCode(r, k) THEN m + 1 - k ELSE r[k - 1]
    BY DEF CobsEncode
  <1> HIDE DEF m
  <1>4. m \in k .. n + 1 /\ (m = n + 1 \/ r[m] = 0)
    BY <1>1, <1>2
  <1>5. CASE IsCode(r, k)
    <2>1. CobsEncode(r)[k] = m + 1 - k
      BY <1>3, <1>5
    <2>2. k + CobsEncode(r)[k] = m + 1
      BY <1>1, <1>4, <2>1
    <2>3. m = n + 1 \/ IsCode(r, m + 1)
      BY <1>1, <1>4 DEF IsCode
    <2>4. \A j \in k + 1 .. m : ~IsCode(r, j)
      <3>1. SUFFICES ASSUME NEW j \in k + 1 .. m, IsCode(r, j) PROVE FALSE
        OBVIOUS
      <3>2. j - 1 \in 1 .. n /\ j - 1 >= k /\ r[j - 1] = 0
        BY <1>1, <1>4, <3>1 DEF IsCode
      <3>3. j - 1 \in T
        BY <1>1, <3>2
      <3> QED
        BY <1>2, <1>4, <3>1, <3>3
    <2>5. CobsEncode(r)[k] \in Byte \ {0}
      BY <1>1, <1>4, <2>1 DEF Byte
    <2>6. m + 1 \in k + 1 .. Len(r) + 2 /\ (m + 1 = Len(r) + 2 \/ IsCode(r, m + 1))
      BY <1>1, <1>4, <2>3
    <2>7. m + 1 - 1 = m
      BY <1>1, <1>4
    <2>8. k + CobsEncode(r)[k] \in k + 1 .. Len(r) + 2
      BY <2>2, <2>6
    <2>9. k + CobsEncode(r)[k] = Len(r) + 2 \/ IsCode(r, k + CobsEncode(r)[k])
      BY <2>2, <2>6
    <2>10. ASSUME NEW j \in k + 1 .. k + CobsEncode(r)[k] - 1 PROVE ~IsCode(r, j)
      <3>1. j \in k + 1 .. m
        <4>1. CobsEncode(r)[k] \in Int /\ m \in Int /\ k \in Int
          BY <1>1, <1>4, <2>5, ByteIsInt
        <4> HIDE DEF n, T
        <4> QED
          BY <2>2, <4>1
      <3> QED
        BY <2>4, <3>1
    <2> QED
      BY <1>5, <2>5, <2>8, <2>9, <2>10
  <1>6. CASE ~IsCode(r, k)
    <2>1. k # 1 /\ r[k - 1] # 0 /\ k - 1 \in 1 .. n
      BY <1>1, <1>6 DEF IsCode
    <2> QED
      BY <1>3, <1>6, <2>1
  <1> QED
    BY <1>5, <1>6

LEMMA EncodeType ==
    ASSUME NEW r \in Seq(Byte), Len(r) <= 252
    PROVE  /\ CobsEncode(r) \in Seq(Byte \ {0})
           /\ Len(CobsEncode(r)) = Len(r) + 1
  <1>1. CobsEncode(r) = [k \in 1 .. Len(r) + 1 |-> CobsEncode(r)[k]]
    BY DEF CobsEncode
  <1>2. \A k \in 1 .. Len(r) + 1 : CobsEncode(r)[k] \in Byte \ {0}
    BY EncodeProperties
  <1>3. CobsEncode(r) \in [1 .. Len(r) + 1 -> Byte \ {0}]
    BY <1>1, <1>2
  <1> QED
    BY <1>3

\* What the equation of CobsDecode says of reached.
ReachedEquation(reached, bytes) ==
    reached = [i \in 1 .. Len(bytes) + 1 |->
                 i = 1 \/ \E j \in 1 .. i - 1 : j + bytes[j] = i /\ reached[j]]

\* It has one solution.
LEMMA ReachedIsUnique ==
    ASSUME NEW bytes \in Seq(Byte), NEW f, NEW g,
           ReachedEquation(f, bytes), ReachedEquation(g, bytes)
    PROVE  f = g
  <1> DEFINE n == Len(bytes)
             T == {i \in 1 .. n + 1 : f[i] # g[i]}
  <1>1. /\ f = [i \in 1 .. n + 1 |-> f[i]] /\ g = [i \in 1 .. n + 1 |-> g[i]]
        /\ \A i \in 1 .. n + 1 :
             /\ f[i] = (i = 1 \/ \E j \in 1 .. i - 1 : j + bytes[j] = i /\ f[j])
             /\ g[i] = (i = 1 \/ \E j \in 1 .. i - 1 : j + bytes[j] = i /\ g[j])
    BY DEF ReachedEquation
  <1>2. SUFFICES ASSUME T # {} PROVE FALSE
    BY <1>1
  <1>3. PICK x \in T : \A y \in T : x <= y
    <2>1. T \subseteq Nat
      OBVIOUS
    <2> HIDE DEF T
    <2> QED
      BY <1>2, <2>1, LeastNumber
  <1>4. n \in Nat /\ x \in 1 .. n + 1 /\ \A j \in 1 .. x - 1 : f[j] = g[j]
    BY <1>3
  <1> QED
    BY <1>1, <1>3, <1>4

\* While the codes are as they were sent, the decoder gets to them, to the end, and
\* nowhere else.
LEMMA ReachedAreCodes ==
    ASSUME NEW r \in Seq(Byte), Len(r) <= 252,
           NEW s \in Seq(Byte), Len(s) = Len(r) + 1,
           \A k \in 1 .. Len(r) + 1 : IsCode(r, k) => s[k] = CobsEncode(r)[k]
    PROVE  ReachedEquation([i \in 1 .. Len(r) + 2 |-> i = Len(r) + 2 \/ IsCode(r, i)], s)
  <1> DEFINE n == Len(r)
             g == [i \in 1 .. n + 2 |-> i = n + 2 \/ IsCode(r, i)]
  <1>g. \A i \in 1 .. n + 2 : g[i] <=> i = n + 2 \/ IsCode(r, i)
    BY Zenon
  <1>h. g = [i \in 1 .. n + 2 |-> i = n + 2 \/ IsCode(r, i)]
    OBVIOUS
  <1> HIDE DEF g
  <1>1. n \in Nat
    OBVIOUS
  <1>2. ASSUME NEW k \in 1 .. n + 1, IsCode(r, k)
        PROVE  /\ k + s[k] \in k + 1 .. n + 2
               /\ g[k + s[k]]
               /\ \A j \in k + 1 .. k + s[k] - 1 : ~IsCode(r, j)
    <2>1. s[k] = CobsEncode(r)[k]
      BY <1>2
    <2>2. /\ k + s[k] \in k + 1 .. n + 2
          /\ k + s[k] = n + 2 \/ IsCode(r, k + s[k])
          /\ \A j \in k + 1 .. k + s[k] - 1 : ~IsCode(r, j)
      <3> DEFINE x == CobsEncode(r)[k]
      <3>1. /\ k + x \in k + 1 .. n + 2
            /\ k + x = n + 2 \/ IsCode(r, k + x)
            /\ \A j \in k + 1 .. k + x - 1 : ~IsCode(r, j)
        BY <1>2, EncodeProperties
      <3> HIDE DEF x
      <3>2. s[k] = x
        BY <2>1 DEF x
      <3> QED
        BY <3>1, <3>2, Zenon
    <2>3. k + s[k] \in 1 .. n + 2
      BY <1>1, <2>2
    <2> QED
      BY <1>g, <2>2, <2>3
  <1>3. ASSUME NEW i \in 1 .. n + 2
        PROVE  g[i] <=> i = 1 \/ \E j \in 1 .. i - 1 : j + s[j] = i /\ g[j]
    <2>1. ASSUME NEW j \in 1 .. i - 1, j + s[j] = i, g[j] PROVE g[i]
      <3>1. j \in 1 .. n + 1 /\ IsCode(r, j)
        BY <1>g, <1>1, <2>1
      <3> QED
        BY <1>2, <2>1, <3>1
    <2>2. ASSUME g[i], i # 1 PROVE \E j \in 1 .. i - 1 : j + s[j] = i /\ g[j]
      <3> DEFINE T == {d \in 1 .. i - 1 : IsCode(r, i - d)}
      <3>1. T \subseteq Nat /\ i - 1 \in T
        <4>1. i - (i - 1) = 1 /\ i - 1 \in 1 .. i - 1
          BY <1>1, <2>2
        <4> QED
          BY <4>1 DEF IsCode
      <3>2. PICK d \in T : \A y \in T : d <= y
        <4> HIDE DEF T
        <4> QED
          BY <3>1, LeastNumber
      <3>3. i - d \in 1 .. n + 1 /\ IsCode(r, i - d) /\ i - d <= i - 1
        BY <1>1, <3>2
      <3>4. \A j \in i - d + 1 .. i - 1 : ~IsCode(r, j)
        <4>1. SUFFICES ASSUME NEW j \in i - d + 1 .. i - 1, IsCode(r, j) PROVE FALSE
          OBVIOUS
        <4>2. i - j \in 1 .. i - 1 /\ i - (i - j) = j /\ i - j < d
          BY <1>1, <3>2, <4>1
        <4>3. i - j \in T
          BY <4>1, <4>2
        <4>4. d <= i - j /\ d \in Int
          <5>1. d \in Int
            BY <3>2
          <5> HIDE DEF T
          <5> QED
            BY <3>2, <4>3, <5>1
        <4> QED
          BY <4>2, <4>4
      <3>5. i - d + s[i - d] = i
        <4> DEFINE p == i - d
                   q == p + s[p]
        <4>2. p \in 1 .. n + 1 /\ p <= i - 1 /\ IsCode(r, p)
          BY <3>3
        <4> HIDE DEF p
        <4>1. q \in p + 1 .. n + 2 /\ g[q]
          BY <1>1, <1>2, <4>2
        <4>5. i \in p + 1 .. q - 1 => ~IsCode(r, i)
          <5>1. s[p] \in Int
            BY <1>1, <4>2, ByteIsInt
          <5> QED
            BY <1>1, <1>2, <4>2, <5>1
        <4> HIDE DEF q
        <4>3. CASE q < i
          <5>1. q \in p + 1 .. i - 1 /\ q # n + 2
            BY <1>1, <4>1, <4>2, <4>3
          <5>2. IsCode(r, q)
            BY <1>g, <1>1, <4>1, <4>2, <5>1
          <5> QED
            BY <3>4, <5>1, <5>2 DEF p
        <4>4. CASE q > i
          <5>1. i \in p + 1 .. q - 1 /\ i # n + 2
            BY <1>1, <4>1, <4>2, <4>4
          <5> QED
            BY <1>g, <2>2, <4>5, <5>1
        <4> QED
          BY <4>1, <4>2, <4>3, <4>4 DEF p, q
      <3>6. g[i - d] /\ i - d \in 1 .. i - 1
        BY <1>g, <1>1, <3>3
      <3> QED
        BY <3>5, <3>6
    <2>3. g[1]
      BY <1>g, <1>1 DEF IsCode
    <2> QED
      BY <2>1, <2>2, <2>3
  <1>4. Len(s) + 1 = n + 2
    BY <1>1
  <1>5. g = [i \in 1 .. n + 2 |-> i = 1 \/ \E j \in 1 .. i - 1 : j + s[j] = i /\ g[j]]
    <2>1. \A i \in 1 .. n + 2 :
            (i = n + 2 \/ IsCode(r, i))
              <=> (i = 1 \/ \E j \in 1 .. i - 1 : j + s[j] = i /\ g[j])
      BY <1>g, <1>3
    <2> QED
      BY <1>h, <2>1, Zenon
  <1>6. ReachedEquation(g, s)
    BY <1>4, <1>5 DEF ReachedEquation
  <1> QED
    BY <1>h, <1>6

\* Then only what stands between the codes may be wrong in what is decoded.
LEMMA DecodeBetweenCodes ==
    ASSUME NEW r \in Seq(Byte), Len(r) <= 252,
           NEW s \in Seq(Byte), Len(s) = Len(r) + 1,
           \A k \in 1 .. Len(r) + 1 : IsCode(r, k) => s[k] = CobsEncode(r)[k]
    PROVE  CobsDecode(s) = [k \in 1 .. Len(r) |-> IF r[k] = 0 THEN 0 ELSE s[k + 1]]
  <1> DEFINE n == Len(r)
             g == [i \in 1 .. n + 2 |-> i = n + 2 \/ IsCode(r, i)]
             f == CHOOSE x : ReachedEquation(x, s)
  <1>1. ReachedEquation(g, s)
    BY ReachedAreCodes
  <1>2. ReachedEquation(f, s)
    BY <1>1
  <1>3. f = g
    <2> HIDE DEF f, g
    <2> QED
      BY <1>1, <1>2, ReachedIsUnique
  <1>4. CobsDecode(s) =
          IF f[Len(s) + 1]
          THEN [k \in 1 .. Len(s) - 1 |-> IF f[k + 1] THEN 0 ELSE s[k + 1]]
          ELSE Failed
    BY DEF CobsDecode, ReachedEquation
  <1> HIDE DEF f
  <1>5. n \in Nat /\ Len(s) + 1 = n + 2 /\ Len(s) - 1 = n
    OBVIOUS
  <1>6. \A i \in 1 .. n + 2 : f[i] <=> i = n + 2 \/ IsCode(r, i)
    <2>1. \A i \in 1 .. n + 2 : g[i] <=> i = n + 2 \/ IsCode(r, i)
      BY Zenon
    <2> HIDE DEF g
    <2> QED
      BY <1>3, <2>1
  <1>7. \A k \in 1 .. n : f[k + 1] <=> r[k] = 0
    BY <1>5, <1>6 DEF IsCode
  <1>8. f[n + 2]
    BY <1>5, <1>6
  <1> QED
    BY <1>4, <1>5, <1>7, <1>8

-----------------------------------------------------------------------------
(* Packets. *)

LEMMA UnstuffedProperties ==
    ASSUME NEW index \in Byte, NEW data \in Seq(Byte), Len(data) >= 1, Len(data) <= 250
    PROVE  LET u == Unstuffed(index, data)
           IN /\ u \in Seq(Byte) /\ Len(u) = Len(data) + 2 /\ u[1] = index
              /\ \A k \in 1 .. Len(data) : u[k + 1] = data[k]
              /\ u[Len(data) + 2] = crc8_smbus(data)
  <1> DEFINE c == crc8_smbus(data)
             front == <<index>> \o data
             u == front \o <<c>>
  <1>1. c \in Byte
    BY CrcType
  <1> HIDE DEF c
  <1>2. <<index>> \in Seq(Byte) /\ <<c>> \in Seq(Byte) /\ Len(<<index>>) = 1 /\ Len(<<c>>) = 1
    BY <1>1
  <1>3. /\ front \in Seq(Byte) /\ Len(front) = Len(data) + 1
        /\ front[1] = index /\ \A k \in 1 .. Len(data) : front[k + 1] = data[k]
    BY <1>2
  <1> HIDE DEF front
  <1>4. /\ u \in Seq(Byte) /\ Len(u) = Len(data) + 2 /\ u[1] = index
        /\ \A k \in 1 .. Len(data) : u[k + 1] = data[k]
        /\ u[Len(data) + 2] = c
    BY <1>2, <1>3
  <1>5. Unstuffed(index, data) = u
    BY DEF Unstuffed, c, front
  <1> QED
    BY <1>4, <1>5 DEF c

\* What lies before the first delimiter is the chunk.
LEMMA ChunkIsFront ==
    ASSUME NEW l \in Seq(Byte), NEW n \in Nat, Len(l) = n + 1, l[n + 1] = 0,
           \A k \in 1 .. n : l[k] # 0
    PROVE  /\ Chunk(l) = SubSeq(l, 1, n)
           /\ Chunk(l) \in Seq(Byte) /\ Len(Chunk(l)) = n
           /\ \A k \in 1 .. n : Chunk(l)[k] = l[k]
  <1> DEFINE Z == {k \in DOMAIN l : l[k] = 0}
  <1>1. Z = {n + 1}
    OBVIOUS
  <1>2. Min({n + 1}) = n + 1
    BY MinIsLeast
  <1>3. Chunk(l) = SubSeq(l, 1, n)
    <2>1. Chunk(l) = IF Z = {} THEN l ELSE SubSeq(l, 1, Min(Z) - 1)
      BY DEF Chunk
    <2> HIDE DEF Z
    <2>2. Z # {} /\ Min(Z) - 1 = n
      BY <1>1, <1>2
    <2> QED
      BY <2>1, <2>2
  <1>4. \A k \in 1 .. n : l[k] \in Byte
    OBVIOUS
  <1> QED
    BY <1>3, <1>4, SubSeqProperties

LEMMA EncodeIs ==
    ASSUME NEW index \in Byte, NEW data \in Seq(Byte), Len(data) >= 1, Len(data) <= 250
    PROVE  LET u == Unstuffed(index, data)
               e == CobsEncode(u)
           IN /\ encode(index, data) \in Seq(Byte)
              /\ Len(encode(index, data)) = Len(u) + 2
              /\ encode(index, data)[Len(u) + 2] = 0
              /\ \A k \in 1 .. Len(u) + 1 : /\ encode(index, data)[k] = e[k]
                                            /\ e[k] \in Byte \ {0}
  <1> DEFINE u == Unstuffed(index, data)
             e == CobsEncode(u)
  <1>1. u \in Seq(Byte) /\ Len(u) = Len(data) + 2 /\ Len(u) <= 252
    BY UnstuffedProperties
  <1> HIDE DEF u
  <1>2. e \in Seq(Byte \ {0}) /\ Len(e) = Len(u) + 1
    BY <1>1, EncodeType
  <1> HIDE DEF e
  <1>3. encode(index, data) = e \o <<0>>
    BY DEF encode, e, u
  <1>4. 0 \in Byte
    BY DEF Byte
  <1>5. e \in Seq(Byte) /\ <<0>> \in Seq(Byte)
    BY <1>2, <1>4
  <1> QED
    BY <1>1, <1>2, <1>3, <1>5 DEF e, u

LEMMA LongerThanFailed ==
    ASSUME NEW u \in Seq(Byte), Len(u) >= 3
    PROVE  Len(Failed) # Len(u)
  <1>1. Len(u) # 1
    OBVIOUS
  <1> DEFINE x == -1
  <1> HIDE DEF x
  <1>2. Failed = <<x>>
    BY DEF Failed, x
  <1>3. Len(Failed) = 1
    BY <1>2
  <1> QED
    BY <1>1, <1>3, Zenon

\* The middle of an unstuffed chunk is the data.
LEMMA MiddleIsData ==
    ASSUME NEW v \in Seq(Byte), NEW d \in Seq(Byte), Len(v) = Len(d) + 2,
           \A k \in 1 .. Len(d) : v[k + 1] = d[k]
    PROVE  SubSeq(v, 2, Len(v) - 1) = d
  <1> DEFINE m == SubSeq(v, 2, Len(v) - 1)
  <1>1. Len(d) \in Nat /\ Len(v) - 1 = Len(d) + 1
    OBVIOUS
  <1>2. m \in Seq(Byte) /\ Len(m) = Len(d)
    BY <1>1
  <1>3. \A k \in 1 .. Len(d) : m[k] = v[k + 1]
    BY <1>1
  <1> HIDE DEF m
  <1> QED
    BY <1>2, <1>3 DEF m

\* What decode() makes of a line whose frame was spared.
Between(u, l) == [k \in 1 .. Len(u) |-> IF u[k] = 0 THEN 0 ELSE l[k + 1]]

LEMMA DecodeOfSpared ==
    ASSUME NEW u \in Seq(Byte), Len(u) >= 3, Len(u) <= 252,
           NEW l \in Seq(Byte), Len(l) = Len(u) + 2, l[Len(u) + 2] = 0,
           \A k \in 1 .. Len(u) + 1 :
             l[k] # 0 /\ (IsCode(u, k) => l[k] = CobsEncode(u)[k])
    PROVE  LET v == Between(u, l)
               data == SubSeq(v, 2, Len(u) - 1)
           IN /\ Len(Chunk(l)) = Len(u) + 1
              /\ decode(l) = IF v[Len(u)] # crc8_smbus(data) THEN None
                             ELSE [index |-> v[1], data |-> data]
  <1> DEFINE n == Len(u)
             v == Between(u, l)
             c == Chunk(l)
  <1>1. n \in Nat /\ n >= 3 /\ n <= 252 /\ Len(l) = (n + 1) + 1 /\ l[(n + 1) + 1] = 0
    OBVIOUS
  <1>2. /\ c \in Seq(Byte) /\ Len(c) = n + 1
        /\ \A k \in 1 .. n + 1 : c[k] = l[k]
    BY <1>1, ChunkIsFront
  <1> HIDE DEF c
  <1>3. CobsDecode(c) = [k \in 1 .. n |-> IF u[k] = 0 THEN 0 ELSE c[k + 1]]
    <2>1. \A k \in 1 .. n + 1 : IsCode(u, k) => c[k] = CobsEncode(u)[k]
      BY <1>2
    <2>2. Len(u) <= 252
      OBVIOUS
    <2> QED
      BY <1>2, <2>1, <2>2, DecodeBetweenCodes
  <1>4. CobsDecode(c) = v
    <2>1. \A k \in 1 .. n : c[k + 1] = l[k + 1]
      BY <1>2
    <2> QED
      BY <1>3, <2>1 DEF Between
  <1>5. Len(v) = n /\ v # Failed
    <2>1. Len(v) = n
      BY DEF Between
    <2>2. Len(Failed) # n
      BY LongerThanFailed
    <2> HIDE DEF v, n
    <2> QED
      BY <2>1, <2>2
  <1> HIDE DEF v
  <1>6. ~TooShort(v)
    BY <1>1, <1>5 DEF TooShort
  <1>7. decode(l) = IF v[n] # crc8_smbus(SubSeq(v, 2, n - 1)) THEN None
                    ELSE [index |-> v[1], data |-> SubSeq(v, 2, n - 1)]
    BY <1>4, <1>5, <1>6 DEF decode, c
  <1> QED
    BY <1>2, <1>7 DEF v, c

-----------------------------------------------------------------------------
(* The packet that is sent, the line that may have damaged it, and what is *)
(* received.                                                              *)

Sent == encode(message.index, message.data)

\* The line holds what was sent, but for the one byte that it has damaged.
LineInv ==
    /\ line \in Seq(Byte) /\ Len(line) = Len(Sent)
    /\ damaged = 0 => line = Sent
    /\ damaged = 1 => \E w \in 1 .. Len(Sent) :
                        /\ line[w] # Sent[w]
                        /\ \A k \in 1 .. Len(Sent) : k # w => line[k] = Sent[k]

PacketInv ==
    /\ message \in [index : Indices, data : Payloads]
    /\ phase \in {"encode", "line", "done"}
    /\ damaged \in Nat
    /\ phase = "encode" => damaged = 0
    /\ phase # "encode" => LineInv
    /\ phase = "done" => received = decode(line) /\ \E k \in 1 .. Len(line) : line[k] = 0

\* What PacketAssumption says of a message.
LEMMA MessageType ==
    ASSUME message \in [index : Indices, data : Payloads]
    PROVE  /\ message.index \in Byte /\ message.data \in Seq(Byte)
           /\ Len(message.data) >= 1 /\ Len(message.data) <= 250
           /\ message = [index |-> message.index, data |-> message.data]
  BY PacketAssumption

LEMMA SentType ==
    ASSUME message \in [index : Indices, data : Payloads]
    PROVE  LET u == Unstuffed(message.index, message.data)
           IN /\ u \in Seq(Byte) /\ Len(u) >= 3 /\ Len(u) <= 252
              /\ Len(u) = Len(message.data) + 2
              /\ Sent \in Seq(Byte) /\ Len(Sent) = Len(u) + 2 /\ Sent[Len(u) + 2] = 0
              /\ \A k \in 1 .. Len(u) + 1 :
                   /\ Sent[k] = CobsEncode(u)[k]
                   /\ Sent[k] \in Byte \ {0}
  <1>1. /\ message.index \in Byte /\ message.data \in Seq(Byte)
        /\ Len(message.data) >= 1 /\ Len(message.data) <= 250
    BY MessageType
  <1> DEFINE u == Unstuffed(message.index, message.data)
  <1>2. u \in Seq(Byte) /\ Len(u) = Len(message.data) + 2
    BY <1>1, UnstuffedProperties
  <1>3. /\ Sent \in Seq(Byte) /\ Len(Sent) = Len(u) + 2 /\ Sent[Len(u) + 2] = 0
        /\ \A k \in 1 .. Len(u) + 1 :
             Sent[k] = CobsEncode(u)[k] /\ CobsEncode(u)[k] \in Byte \ {0}
    BY <1>1, EncodeIs DEF Sent
  <1> HIDE DEF u
  <1>4. Len(u) >= 3 /\ Len(u) <= 252
    BY <1>1, <1>2
  <1> QED
    BY <1>2, <1>3, <1>4 DEF u

LEMMA PacketInvNext == PacketInv /\ [Next]_vars => PacketInv'
  <1> SUFFICES ASSUME PacketInv, [Next]_vars PROVE PacketInv'
    OBVIOUS
  <1>1. CASE Send
    <2>1. /\ message' = message /\ damaged' = damaged /\ damaged = 0
          /\ line' = Sent /\ phase' = "line" /\ Sent' = Sent
      BY <1>1 DEF Send, PacketInv, Sent
    <2>2. Sent \in Seq(Byte)
      BY SentType DEF PacketInv
    <2> QED
      BY <2>1, <2>2 DEF PacketInv, LineInv
  <1>2. ASSUME NEW w \in DOMAIN line, NEW byte \in Byte \ {line[w]}, Damage(w, byte)
        PROVE  PacketInv'
    <2>1. /\ message' = message /\ damaged' = damaged + 1 /\ phase = "line"
          /\ phase' = "line" /\ line' = [line EXCEPT ![w] = byte] /\ Sent' = Sent
      BY <1>2 DEF Damage, Sent
    <2>2. LineInv /\ damaged \in Nat
      BY <2>1 DEF PacketInv
    <2>3. w \in 1 .. Len(line) /\ line \in Seq(Byte) /\ Len(line) = Len(Sent)
      BY <2>2 DEF LineInv
    <2>4. /\ line' \in Seq(Byte) /\ Len(line') = Len(line) /\ line'[w] = byte
          /\ \A k \in 1 .. Len(line) : k # w => line'[k] = line[k]
      BY <1>2, <2>1, <2>3
    <2>5. damaged' = 1 => line = Sent
      BY <2>1, <2>2 DEF LineInv
    <2>6. LineInv'
      BY <2>1, <2>2, <2>3, <2>4, <2>5 DEF LineInv
    <2> QED
      BY <2>1, <2>2, <2>6 DEF PacketInv
  <1>3. CASE Receive
    <2>1. /\ phase = "line" /\ phase' = "done" /\ received' = decode(line)
          /\ UNCHANGED <<message, line, damaged>> /\ Sent' = Sent
          /\ \E k \in 1 .. Len(line) : line[k] = 0
      BY <1>3 DEF Receive, Sent, Contains
    <2>2. LineInv'
      BY <2>1 DEF PacketInv, LineInv
    <2> QED
      BY <2>1, <2>2 DEF PacketInv
  <1>4. CASE UNCHANGED vars
    BY <1>4 DEF vars, PacketInv, LineInv, Sent
  <1> QED
    BY <1>1, <1>2, <1>3, <1>4 DEF Next

LEMMA PacketInvHolds == Spec => []PacketInv
  <1>1. Init => PacketInv
    BY DEF Init, PacketInv
  <1> QED
    BY <1>1, PacketInvNext, PTL DEF Spec

-----------------------------------------------------------------------------
(* The theorems. *)

\* encode() puts the delimiter at the end of every packet and nowhere else.
THEOREM PacketDelimiter == Spec => []DelimiterEndsPacket
  <1>1. PacketInv => DelimiterEndsPacket
    <2> SUFFICES ASSUME PacketInv, phase = "line", damaged = 0, NEW k \in DOMAIN line
                 PROVE  line[k] = 0 <=> k = Len(line)
      BY DEF DelimiterEndsPacket
    <2> DEFINE n == Len(Unstuffed(message.index, message.data))
    <2>1. /\ n >= 3 /\ Len(Sent) = n + 2 /\ Sent[n + 2] = 0
          /\ \A i \in 1 .. n + 1 : Sent[i] \in Byte \ {0}
      BY SentType DEF PacketInv
    <2>2. n \in Nat
      BY SentType DEF PacketInv
    <2> HIDE DEF n
    <2>3. line = Sent /\ k \in 1 .. n + 2
      <3>1. LineInv
        BY DEF PacketInv
      <3> QED
        BY <2>1, <3>1 DEF LineInv
    <2> QED
      BY <2>1, <2>2, <2>3
  <1> QED
    BY <1>1, PacketInvHolds, PTL

\* On a line that does no damage decode() gives back what encode() was given, and
\* decode_in_place() reports all of it as used.
THEOREM PacketRoundTrip == Spec => []RoundTrip
  <1>1. PacketInv => RoundTrip
    <2> SUFFICES ASSUME PacketInv, phase = "done", damaged = 0
                 PROVE  received = message /\ Used(line) = Len(line)
      BY DEF RoundTrip
    <2> DEFINE u == Unstuffed(message.index, message.data)
               n == Len(u)
               v == Between(u, line)
    <2>1. message \in [index : Indices, data : Payloads]
      BY DEF PacketInv
    <2>2. /\ message.index \in Byte /\ message.data \in Seq(Byte)
          /\ Len(message.data) >= 1 /\ Len(message.data) <= 250
          /\ message = [index |-> message.index, data |-> message.data]
      BY <2>1, MessageType
    <2>3. /\ u[1] = message.index /\ u[n] = crc8_smbus(message.data)
          /\ \A k \in 1 .. Len(message.data) : u[k + 1] = message.data[k]
      BY <2>2, UnstuffedProperties
    <2>4. /\ u \in Seq(Byte) /\ n >= 3 /\ n <= 252 /\ n = Len(message.data) + 2
          /\ Sent \in Seq(Byte) /\ Len(Sent) = n + 2 /\ Sent[n + 2] = 0
          /\ \A k \in 1 .. n + 1 :
               Sent[k] = CobsEncode(u)[k] /\ Sent[k] \in Byte \ {0}
      BY <2>1, SentType
    <2>5. line = Sent /\ received = decode(Sent)
      BY DEF PacketInv, LineInv
    <2> HIDE DEF u
    <2>6. v = u
      <3>1. ASSUME NEW k \in 1 .. n, u[k] # 0 PROVE Sent[k + 1] = u[k]
        <4>1. k + 1 \in 1 .. n + 1 /\ k + 1 - 1 = k /\ ~IsCode(u, k + 1)
          BY <3>1 DEF IsCode
        <4>2. CobsEncode(u)[k + 1] = u[k]
          BY <2>4, <4>1, EncodeProperties
        <4> QED
          BY <2>4, <4>1, <4>2
      <3>2. u = [k \in 1 .. n |-> u[k]]
        BY <2>4
      <3> QED
        BY <2>5, <3>1, <3>2 DEF Between
    <2> DEFINE data == SubSeq(v, 2, n - 1)
    <2>7. /\ Len(Chunk(Sent)) = n + 1
          /\ decode(Sent) = IF v[n] # crc8_smbus(data) THEN None
                            ELSE [index |-> v[1], data |-> data]
      BY <2>4, <2>5, DecodeOfSpared
    <2>8. data = message.data
      <3>1. SubSeq(u, 2, n - 1) = message.data
        BY <2>2, <2>3, <2>4, MiddleIsData
      <3> QED
        BY <2>6, <3>1
    <2> HIDE DEF v, data
    <2>9. received = message
      BY <2>2, <2>3, <2>5, <2>6, <2>7, <2>8
    <2>10. Used(line) = Len(line)
      BY <2>4, <2>5, <2>7 DEF Used
    <2> QED
      BY <2>9, <2>10
  <1> QED
    BY <1>1, PacketInvHolds, PTL

\* A wrong byte that spares the codes and makes no delimiter is either caught by
\* the checksum or the index.
THEOREM PacketOneWrongByte == Spec => []OneWrongByteIsCaught
  <1>1. PacketInv => OneWrongByteIsCaught
    <2> SUFFICES ASSUME PacketInv, phase = "done", damaged = 1, FrameSpared
                 PROVE  \/ received = None
                        \/ /\ received.data = message.data
                           /\ received.index # message.index
      BY DEF OneWrongByteIsCaught
    <2> DEFINE d == message.data
               u == Unstuffed(message.index, d)
               n == Len(u)
               v == Between(u, line)
               e == SubSeq(v, 2, n - 1)
    <2>1. message \in [index : Indices, data : Payloads]
      BY DEF PacketInv
    <2>2. message.index \in Byte /\ d \in Seq(Byte) /\ Len(d) >= 1 /\ Len(d) <= 250
      BY <2>1, MessageType
    <2>3. /\ u[1] = message.index /\ u[n] = crc8_smbus(d)
          /\ \A k \in 1 .. Len(d) : u[k + 1] = d[k]
      BY <2>2, UnstuffedProperties
    <2>4. /\ u \in Seq(Byte) /\ n >= 3 /\ n <= 252 /\ n = Len(d) + 2
          /\ Sent \in Seq(Byte) /\ Len(Sent) = n + 2 /\ Sent[n + 2] = 0
          /\ \A k \in 1 .. n + 1 :
               Sent[k] = CobsEncode(u)[k] /\ Sent[k] \in Byte \ {0}
      BY <2>1, SentType
    <2>5. /\ line \in Seq(Byte) /\ Len(line) = n + 2
          /\ received = decode(line) /\ \E k \in 1 .. n + 2 : line[k] = 0
      BY <2>4 DEF PacketInv, LineInv
    <2>6. \A k \in 1 .. n + 1 :
            line[k] # 0 /\ (IsCode(u, k) => line[k] = CobsEncode(u)[k])
      BY DEF FrameSpared
    <2>7. PICK w \in 1 .. n + 2 :
            /\ line[w] # Sent[w]
            /\ \A k \in 1 .. n + 2 : k # w => line[k] = Sent[k]
      BY <2>4 DEF PacketInv, LineInv
    <2> HIDE DEF u, d
    <2>8. n \in Nat /\ line[n + 2] = 0
      BY <2>4, <2>5, <2>6
    <2>9. w \in 2 .. n + 1 /\ ~IsCode(u, w)
      BY <2>4, <2>6, <2>7, <2>8 DEF IsCode
    <2>10. /\ v[w - 1] # u[w - 1]
           /\ \A k \in 1 .. n : k # w - 1 => v[k] = u[k]
           /\ v \in [1 .. n -> Byte]
      <3>1. ASSUME NEW k \in 1 .. n
            PROVE  /\ v[k] = IF u[k] = 0 THEN 0 ELSE line[k + 1]
                   /\ u[k] # 0 => Sent[k + 1] = u[k]
        <4>1. k + 1 \in 1 .. n + 1 /\ k + 1 - 1 = k
          BY <2>8
        <4>2. u[k] # 0 => ~IsCode(u, k + 1)
          BY <2>8, <4>1 DEF IsCode
        <4>3. u[k] # 0 => CobsEncode(u)[k + 1] = u[k]
          BY <2>4, <4>1, <4>2, EncodeProperties
        <4> QED
          BY <2>4, <4>1, <4>3 DEF Between
      <3>2. u[w - 1] # 0 /\ w - 1 \in 1 .. n /\ w - 1 + 1 = w
        BY <2>8, <2>9 DEF IsCode
      <3>3. v[w - 1] # u[w - 1]
        BY <2>7, <3>1, <3>2
      <3>4. ASSUME NEW k \in 1 .. n, k # w - 1 PROVE v[k] = u[k]
        <4>1. k + 1 \in 1 .. n + 2 /\ k + 1 # w
          BY <2>8, <2>9, <3>4
        <4> QED
          BY <2>7, <3>1, <4>1
      <3>5. \A k \in 1 .. n : v[k] \in Byte
        <4>1. 0 \in Byte /\ \A k \in 1 .. n : line[k + 1] \in Byte
          <5>1. 0 \in Byte
            BY DEF Byte
          <5> QED
            BY <2>5, <2>8, <5>1
        <4> QED
          BY <3>1, <4>1
      <3>6. v = [k \in 1 .. n |-> v[k]]
        BY DEF Between
      <3> QED
        BY <3>3, <3>4, <3>5, <3>6
    <2>11. received = IF v[n] # crc8_smbus(e) THEN None ELSE [index |-> v[1], data |-> e]
      BY <2>4, <2>5, <2>6, <2>8, DecodeOfSpared
    <2> HIDE DEF v
    <2>12. /\ e \in Seq(Byte) /\ Len(e) = Len(d)
           /\ \A k \in 1 .. Len(d) : e[k] = v[k + 1]
      <3>1. v \in Seq(Byte) /\ Len(v) = n
        BY <2>8, <2>10
      <3> QED
        BY <2>4, <2>8, <3>1
    <2> HIDE DEF e
    <2>13. CASE w = 2
      <3>1. v[1] # message.index
        <4>1. w - 1 = 1
          BY <2>13
        <4> QED
          BY <2>3, <2>10, <4>1
      <3>2. ASSUME NEW k \in 1 .. Len(d) PROVE e[k] = d[k]
        <4>1. k + 1 \in 1 .. n /\ k + 1 # w - 1
          BY <2>2, <2>4, <2>13
        <4> QED
          BY <2>3, <2>10, <2>12, <4>1
      <3>3. e = d
        BY <2>2, <2>12, <3>2
      <3> QED
        BY <2>11, <3>1, <3>3 DEF d
    <2>14. CASE w = n + 1
      <3>1. v[n] # u[n] /\ \A k \in 1 .. Len(d) : e[k] = d[k]
        BY <2>3, <2>4, <2>8, <2>10, <2>12, <2>14
      <3>2. e = d
        BY <2>2, <2>12, <3>1
      <3> QED
        BY <2>3, <2>11, <3>1, <3>2
    <2>15. CASE w \in 3 .. n
      <3>1. w - 2 \in 1 .. Len(d) /\ w - 2 + 1 = w - 1
        BY <2>4, <2>8, <2>15
      <3>2. e[w - 2] # d[w - 2]
        BY <2>3, <2>10, <2>12, <3>1
      <3>3. \A k \in 1 .. Len(d) : k # w - 2 => e[k] = d[k]
        BY <2>3, <2>4, <2>8, <2>10, <2>12
      <3>4. crc8_smbus(e) # crc8_smbus(d)
        BY <2>2, <2>12, <3>1, <3>2, <3>3, OneWrongByteChangesCrc
      <3>5. v[n] = u[n]
        BY <2>4, <2>8, <2>10, <2>15
      <3> QED
        BY <2>3, <2>11, <3>4, <3>5
    <2> QED
      BY <2>8, <2>9, <2>13, <2>14, <2>15
  <1> QED
    BY <1>1, PacketInvHolds, PTL

=============================================================================
