--------------------------- MODULE Framing_proofs ---------------------------
(***************************************************************************)
(* What the framing operators return, for every string of bytes, what      *)
(* dispatching and registering preserve, and which calls and which bytes a *)
(* line of whole packets stands for. Cited by the proofs about the         *)
(* subscribers.                                                            *)
(***************************************************************************)
EXTENDS Framing, SequenceTheorems, WellFoundedInduction, TLAPS

\* The first delimiter is where FirstDelim says, and there is none before it.
LEMMA FirstDelimProperties ==
    ASSUME NEW s \in Seq(Byte), HasDelim(s)
    PROVE  /\ FirstDelim(s) \in 1 .. Len(s)
           /\ s[FirstDelim(s)] = Delim
           /\ \A j \in 1 .. FirstDelim(s) - 1 : s[j] # Delim
  <1> DEFINE T == {i \in 1 .. Len(s) : s[i] = Delim}
  <1>1. T # {} /\ T \subseteq Nat
    BY DEF HasDelim
  <1>2. PICK x \in T : \A y \in T : <<y, x>> \notin OpToRel(<, Nat)
    BY <1>1, WFMin, NatLessThanWellFounded
  <1>3. \A y \in T : ~(y < x)
    BY <1>1, <1>2 DEF OpToRel
  <1>4. /\ x \in 1 .. Len(s) /\ s[x] = Delim
        /\ \A j \in 1 .. x - 1 : s[j] # Delim
    BY <1>3
  <1> QED
    BY <1>4 DEF FirstDelim

\* Any tail of a string is a string, and its bytes are those of the string.
LEMMA SuffixProperties ==
    ASSUME NEW s \in Seq(Byte), NEW k \in 0 .. Len(s)
    PROVE  /\ SubSeq(s, k + 1, Len(s)) \in Seq(Byte)
           /\ Len(SubSeq(s, k + 1, Len(s))) = Len(s) - k
           /\ \A i \in 1 .. Len(s) - k : SubSeq(s, k + 1, Len(s))[i] = s[k + i]
  <1>1. \A i \in k + 1 .. Len(s) : s[i] \in Byte
    BY ElementOfSeq
  <1> QED
    BY <1>1, SubSeqProperties

\* A tail of a tail is a tail.
LEMMA SuffixOfSuffix ==
    ASSUME NEW s \in Seq(Byte), NEW k \in 0 .. Len(s), NEW j \in 0 .. Len(s) - k
    PROVE  SubSeq(SubSeq(s, k + 1, Len(s)), j + 1, Len(s) - k)
             = SubSeq(s, k + j + 1, Len(s))
  <1> DEFINE t == SubSeq(s, k + 1, Len(s))
             u == SubSeq(t, j + 1, Len(t))
             v == SubSeq(s, (k + j) + 1, Len(s))
  <1>1. t \in Seq(Byte) /\ Len(t) = Len(s) - k
    BY SuffixProperties
  <1>2. \A i \in 1 .. Len(s) - k : t[i] = s[k + i]
    BY SuffixProperties
  <1>3. /\ u \in Seq(Byte) /\ Len(u) = Len(t) - j
        /\ \A i \in 1 .. Len(t) - j : u[i] = t[j + i]
    <2>1. j \in 0 .. Len(t)
      BY <1>1
    <2> HIDE DEF t
    <2> QED
      BY <1>1, <2>1, SuffixProperties
  <1>4. /\ v \in Seq(Byte) /\ Len(v) = Len(s) - (k + j)
        /\ \A i \in 1 .. Len(s) - (k + j) : v[i] = s[k + j + i]
    BY SuffixProperties
  <1> HIDE DEF t, u, v
  <1>5. Len(u) = Len(v) /\ \A i \in 1 .. Len(u) : u[i] = v[i]
    BY <1>1, <1>2, <1>3, <1>4
  <1>6. u = v
    BY <1>3, <1>4, <1>5, SeqEqual
  <1> QED
    BY <1>1, <1>6 DEF t, u, v

\* What follows the first chunk of a tail is a shorter tail.
LEMMA AfterChunkOfSuffix ==
    ASSUME NEW s \in Seq(Byte), NEW k \in 0 .. Len(s),
           HasDelim(SubSeq(s, k + 1, Len(s)))
    PROVE  LET t == SubSeq(s, k + 1, Len(s))
           IN /\ FirstDelim(t) \in 1 .. Len(s) - k
              /\ AfterChunk(t) = SubSeq(s, k + FirstDelim(t) + 1, Len(s))
  <1> DEFINE t == SubSeq(s, k + 1, Len(s))
  <1>1. t \in Seq(Byte) /\ Len(t) = Len(s) - k
    BY SuffixProperties
  <1>2. FirstDelim(t) \in 1 .. Len(s) - k
    <2> HIDE DEF t
    <2>1. HasDelim(t)
      BY DEF t
    <2> QED
      BY <1>1, <2>1, FirstDelimProperties
  <1>3. AfterChunk(t) = SubSeq(s, k + FirstDelim(t) + 1, Len(s))
    <2> DEFINE j == FirstDelim(t)
    <2>1. AfterChunk(t) = SubSeq(t, j + 1, Len(s) - k)
      BY <1>1 DEF AfterChunk
    <2>2. j \in 0 .. Len(s) - k
      BY <1>2
    <2> HIDE DEF j
    <2>3. SubSeq(t, j + 1, Len(s) - k) = SubSeq(s, k + j + 1, Len(s))
      BY <2>2, SuffixOfSuffix
    <2> QED
      BY <2>1, <2>3 DEF j
  <1> QED
    BY <1>2, <1>3

-----------------------------------------------------------------------------
(* Chunks, queues and callbacks. *)

\* What follows the first chunk is a string of bytes.
LEMMA AfterChunkType ==
    ASSUME NEW s \in Seq(Byte), HasDelim(s)
    PROVE  AfterChunk(s) \in Seq(Byte)
  <1>1. FirstDelim(s) \in 0 .. Len(s)
    BY FirstDelimProperties
  <1> QED
    BY <1>1, SuffixProperties DEF AfterChunk

\* A chunk, the delimiter and the rest are cut where they were joined, ...
LEMMA JoinedIsCut ==
    ASSUME NEW c \in Seq(Byte), NEW s \in Seq(Byte),
           \A i \in 1 .. Len(c) : c[i] # Delim
    PROVE  LET t == c \o <<Delim>> \o s
           IN /\ t \in Seq(Byte) /\ HasDelim(t)
              /\ FirstChunk(t) = c /\ AfterChunk(t) = s
  <1> DEFINE h == c \o <<Delim>>
             t == h \o s
             n == Len(c) + 1
  <1>1. <<Delim>> \in Seq(Byte) /\ Len(<<Delim>>) = 1 /\ <<Delim>>[1] = Delim
    BY FramingAssumption
  <1>2. /\ h \in Seq(Byte) /\ Len(h) = n
        /\ \A i \in 1 .. n : h[i] = IF i <= Len(c) THEN c[i] ELSE Delim
    BY <1>1, ConcatProperties
  <1>3. /\ t \in Seq(Byte) /\ Len(t) = n + Len(s)
        /\ \A i \in 1 .. n : t[i] = h[i]
        /\ \A i \in 1 .. Len(s) : t[n + i] = s[i]
    <2> HIDE DEF h
    <2>1. /\ t \in Seq(Byte) /\ Len(t) = Len(h) + Len(s)
          /\ \A i \in 1 .. Len(h) + Len(s) :
               t[i] = IF i <= Len(h) THEN h[i] ELSE s[i - Len(h)]
      BY <1>2, ConcatProperties
    <2> HIDE DEF t
    <2>2. n \in Nat /\ Len(s) \in Nat
      OBVIOUS
    <2> HIDE DEF n
    <2>3. \A i \in 1 .. n : t[i] = h[i]
      BY <1>2, <2>1, <2>2
    <2>4. ASSUME NEW i \in 1 .. Len(s) PROVE t[n + i] = s[i]
      <3>1. n + i \in 1 .. n + Len(s) /\ ~(n + i <= n) /\ (n + i) - n = i
        BY <2>2
      <3> QED
        BY <1>2, <2>1, <3>1
    <2> QED
      BY <1>2, <2>1, <2>3, <2>4
  <1> HIDE DEF h, t
  <1>4. /\ Len(c) \in Nat /\ Len(s) \in Nat /\ n \in 1 .. Len(t) /\ t[n] = Delim
        /\ \A i \in 1 .. Len(c) : t[i] = c[i] /\ t[i] # Delim
    <2>1. Len(c) \in Nat /\ Len(s) \in Nat /\ n \in 1 .. Len(t)
      BY <1>3
    <2>2. t[n] = Delim
      BY <1>2, <1>3, <2>1
    <2>3. \A i \in 1 .. Len(c) : t[i] = c[i]
      BY <1>2, <1>3, <2>1
    <2> QED
      BY <2>1, <2>2, <2>3
  <1>5. HasDelim(t)
    BY <1>4 DEF HasDelim
  <1>6. FirstDelim(t) = n
    <2>1. /\ FirstDelim(t) \in 1 .. Len(t) /\ t[FirstDelim(t)] = Delim
          /\ \A j \in 1 .. FirstDelim(t) - 1 : t[j] # Delim
      BY <1>3, <1>5, FirstDelimProperties
    <2> QED
      BY <1>4, <2>1
  <1>7. FirstChunk(t) = c
    <2> DEFINE u == SubSeq(t, 1, Len(c))
    <2>1. \A i \in 1 .. Len(c) : t[i] \in Byte
      BY <1>3, <1>4, ElementOfSeq
    <2>2. /\ u \in Seq(Byte) /\ Len(u) = Len(c)
          /\ \A i \in 1 .. Len(c) : u[i] = t[i]
      BY <1>4, <2>1, SubSeqProperties
    <2> HIDE DEF u
    <2>3. u = c
      BY <1>4, <2>2, SeqEqual
    <2> QED
      BY <1>4, <1>6, <2>3 DEF FirstChunk, u
  <1>8. AfterChunk(t) = s
    <2> DEFINE u == SubSeq(t, n + 1, Len(t))
    <2>1. n \in 0 .. Len(t) /\ Len(t) - n = Len(s)
      BY <1>3, <1>4
    <2>2. /\ u \in Seq(Byte) /\ Len(u) = Len(s)
          /\ \A i \in 1 .. Len(s) : u[i] = t[n + i]
      BY <1>3, <2>1, SuffixProperties
    <2> HIDE DEF u
    <2>3. u = s
      BY <1>3, <1>4, <2>2, SeqEqual
    <2> QED
      BY <1>6, <2>3 DEF AfterChunk, u
  <1> QED
    BY <1>3, <1>5, <1>7, <1>8 DEF t, h

\* ... and joining what was cut gives the string again.
LEMMA CutIsJoined ==
    ASSUME NEW s \in Seq(Byte), HasDelim(s)
    PROVE  /\ FirstChunk(s) \in Seq(Byte)
           /\ FirstChunk(s) \o <<Delim>> \o AfterChunk(s) = s
  <1> DEFINE c == FirstChunk(s)
             r == AfterChunk(s)
             h == c \o <<Delim>>
             t == h \o r
             n == FirstDelim(s)
  <1>1. n \in 1 .. Len(s) /\ s[n] = Delim /\ Len(s) \in Nat
    BY FirstDelimProperties
  <1> HIDE DEF n
  <1>2. /\ c \in Seq(Byte) /\ Len(c) = n - 1
        /\ \A i \in 1 .. n - 1 : c[i] = s[i]
    <2>1. \A i \in 1 .. n - 1 : s[i] \in Byte
      BY <1>1, ElementOfSeq
    <2>2. /\ SubSeq(s, 1, n - 1) \in Seq(Byte) /\ Len(SubSeq(s, 1, n - 1)) = n - 1
          /\ \A i \in 1 .. n - 1 : SubSeq(s, 1, n - 1)[i] = s[i]
      BY <1>1, <2>1, SubSeqProperties
    <2> QED
      BY <2>2 DEF FirstChunk, n
  <1>3. /\ r \in Seq(Byte) /\ Len(r) = Len(s) - n
        /\ \A i \in 1 .. Len(s) - n : r[i] = s[n + i]
    <2>1. /\ SubSeq(s, n + 1, Len(s)) \in Seq(Byte)
          /\ Len(SubSeq(s, n + 1, Len(s))) = Len(s) - n
          /\ \A i \in 1 .. Len(s) - n : SubSeq(s, n + 1, Len(s))[i] = s[n + i]
      BY <1>1, SuffixProperties
    <2> QED
      BY <2>1 DEF AfterChunk, n
  <1> HIDE DEF c, r
  <1>4. <<Delim>> \in Seq(Byte) /\ Len(<<Delim>>) = 1 /\ <<Delim>>[1] = Delim
    BY FramingAssumption
  <1>5. /\ h \in Seq(Byte) /\ Len(h) = n
        /\ \A i \in 1 .. n : h[i] = s[i]
    <2>1. /\ h \in Seq(Byte) /\ Len(h) = Len(c) + 1
          /\ \A i \in 1 .. Len(c) + 1 :
               h[i] = IF i <= Len(c) THEN c[i] ELSE <<Delim>>[i - Len(c)]
      BY <1>2, <1>4, ConcatProperties
    <2> QED
      BY <1>1, <1>2, <1>4, <2>1
  <1> HIDE DEF h
  <1>6. /\ t \in Seq(Byte) /\ Len(t) = Len(s)
        /\ \A i \in 1 .. Len(s) : t[i] = s[i]
    <2>1. /\ t \in Seq(Byte) /\ Len(t) = Len(h) + Len(r)
          /\ \A i \in 1 .. Len(h) + Len(r) :
               t[i] = IF i <= Len(h) THEN h[i] ELSE r[i - Len(h)]
      BY <1>3, <1>5, ConcatProperties
    <2>2. \A i \in n + 1 .. Len(s) : r[i - n] = s[i]
      <3>1. TAKE i \in n + 1 .. Len(s)
      <3>2. i - n \in 1 .. Len(s) - n /\ n + (i - n) = i
        BY <1>1
      <3> QED
        BY <1>3, <3>2
    <2> QED
      BY <1>1, <1>3, <1>5, <2>1, <2>2
  <1> HIDE DEF t
  <1>7. t = s
    BY <1>6, SeqEqual
  <1> QED
    BY <1>2, <1>7 DEF t, h, c, r

\* What has arrived is a prefix of what has arrived with more behind it.
LEMMA PrefixOfConcat ==
    ASSUME NEW S, NEW s \in Seq(S), NEW t \in Seq(S)
    PROVE  /\ s \o t \in Seq(S) /\ Len(s) <= Len(s \o t)
           /\ SubSeq(s \o t, 1, Len(s)) = s
  <1> DEFINE u == s \o t
             v == SubSeq(u, 1, Len(s))
  <1>1. /\ u \in Seq(S) /\ Len(u) = Len(s) + Len(t)
        /\ Len(s) \in Nat /\ Len(t) \in Nat
        /\ \A i \in 1 .. Len(s) : u[i] = s[i] /\ u[i] \in S
    OBVIOUS
  <1> HIDE DEF u
  <1>2. /\ v \in Seq(S) /\ Len(v) = Len(s)
        /\ \A i \in 1 .. Len(s) : v[i] = u[i]
    BY <1>1, SubSeqProperties
  <1>3. v = s
    <2> HIDE DEF v
    <2> QED
      BY <1>1, <1>2, SeqEqual
  <1> QED
    BY <1>1, <1>3 DEF u

\* The head and the tail of what is left of a queue.
LEMMA QueueStep ==
    ASSUME NEW S, NEW q \in Seq(S), NEW k \in 0 .. Len(q), k < Len(q)
    PROVE  LET left == SubSeq(q, k + 1, Len(q))
           IN /\ left # <<>> /\ Head(left) = q[k + 1]
              /\ Tail(left) = SubSeq(q, k + 1 + 1, Len(q))
  <1> DEFINE left == SubSeq(q, k + 1, Len(q))
             next == SubSeq(q, k + 1 + 1, Len(q))
  <1>0. /\ Len(q) \in Nat /\ k \in Nat
        /\ \A i \in k + 1 .. Len(q) : q[i] \in S
        /\ \A i \in k + 1 + 1 .. Len(q) : q[i] \in S
    BY ElementOfSeq
  <1>1. /\ left \in Seq(S) /\ Len(left) = Len(q) - k
        /\ \A i \in 1 .. Len(q) - k : left[i] = q[k + i]
    BY <1>0, SubSeqProperties
  <1>2. /\ next \in Seq(S) /\ Len(next) = Len(q) - k - 1
        /\ \A i \in 1 .. Len(q) - k - 1 : next[i] = q[k + 1 + i]
    BY <1>0, SubSeqProperties
  <1> HIDE DEF left, next
  <1>3. left # <<>> /\ Head(left) = q[k + 1]
    BY <1>0, <1>1
  <1>4. /\ Tail(left) \in Seq(S) /\ Len(Tail(left)) = Len(q) - k - 1
        /\ \A i \in 1 .. Len(q) - k - 1 : Tail(left)[i] = left[i + 1]
    BY <1>0, <1>1, <1>3
  <1>5. Tail(left) = next
    <2>1. \A i \in 1 .. Len(q) - k - 1 : Tail(left)[i] = next[i]
      BY <1>0, <1>1, <1>2, <1>4
    <2> QED
      BY <1>2, <1>4, <2>1, SeqEqual
  <1> QED
    BY <1>3, <1>5 DEF left, next

\* The call a message causes is one of a registered callback.
LEMMA DispatchType ==
    ASSUME NEW calls \in Seq(Call), NEW cbs, NEW m \in Message,
           DOMAIN cbs \subseteq Index, cbs \in [DOMAIN cbs -> Callback]
    PROVE  Dispatch(calls, cbs, m) \in Seq(Call)
  <1>1. CASE /\ m.index \in DOMAIN cbs
             /\ m.data \in Accepts[cbs[m.index]]
    <2>1. cbs[m.index] \in Callback
      BY <1>1
    <2>2. [to |-> cbs[m.index], msg |-> m] \in Call
      BY <2>1 DEF Call
    <2> QED
      BY <1>1, <2>2 DEF Dispatch
  <1>2. CASE ~(/\ m.index \in DOMAIN cbs
               /\ m.data \in Accepts[cbs[m.index]])
    BY <1>2 DEF Dispatch
  <1> QED
    BY <1>1, <1>2

\* Registering and removing keep the table well typed.
LEMMA CallbacksType ==
    ASSUME NEW cbs, DOMAIN cbs \subseteq Index,
           cbs \in [DOMAIN cbs -> Callback], NEW i \in Index, NEW cb \in Callback
    PROVE  /\ DOMAIN WithCallback(cbs, i, cb) \subseteq Index
           /\ WithCallback(cbs, i, cb)
                \in [DOMAIN WithCallback(cbs, i, cb) -> Callback]
           /\ DOMAIN WithoutCallback(cbs, i) \subseteq Index
           /\ WithoutCallback(cbs, i)
                \in [DOMAIN WithoutCallback(cbs, i) -> Callback]
  BY DEF WithCallback, WithoutCallback

-----------------------------------------------------------------------------
(* The calls that packets cause. CallsAfter is a recursive function; each of *)
(* the proofs goes by the least number of packets for which it would fail. *)

\* What CallsAfter's equation says of calls.
CallsEquation(calls, cbs, s, n) ==
    calls = [k \in 0 .. n |->
               IF k = 0 THEN <<>> ELSE Dispatch(calls[k - 1], cbs, decoded[s[k]])]

\* A set of numbers that is not empty has a least one.
LEMMA LeastNumber ==
    ASSUME NEW T, T \subseteq Nat, T # {}
    PROVE  \E x \in T : \A y \in T : x <= y
  <1>1. PICK x \in T : \A y \in T : <<y, x>> \notin OpToRel(<, Nat)
    BY WFMin, NatLessThanWellFounded
  <1>2. \A y \in T : ~(y < x)
    BY <1>1 DEF OpToRel
  <1> QED
    BY <1>2

\* There is a function that satisfies the equation.
LEMMA CallsExist ==
    ASSUME NEW cbs, NEW s, NEW n \in Nat
    PROVE  \E calls : CallsEquation(calls, cbs, s, n)
  <1> DEFINE T == {k \in Nat : ~ \E calls : CallsEquation(calls, cbs, s, k)}
  <1> SUFFICES ASSUME T # {} PROVE FALSE
    OBVIOUS
  <1>1. PICK x \in T : \A y \in T : x <= y
    BY LeastNumber
  <1>2. x # 0
    <2>1. CallsEquation([k \in 0 .. 0 |-> <<>>], cbs, s, 0)
      BY DEF CallsEquation
    <2> QED
      BY <2>1
  <1>3. x - 1 \in Nat /\ x - 1 \notin T
    BY <1>1, <1>2
  <1>4. PICK g : CallsEquation(g, cbs, s, x - 1)
    BY <1>3
  <1> DEFINE h == [k \in 0 .. x |-> IF k = x THEN Dispatch(g[x - 1], cbs, decoded[s[x]])
                                    ELSE g[k]]
  <1>5. ASSUME NEW k \in 0 .. x
        PROVE  h[k] = IF k = 0 THEN <<>> ELSE Dispatch(h[k - 1], cbs, decoded[s[k]])
    <2>1. CASE k = x
      BY <1>2, <2>1
    <2>2. CASE k # x
      <3>1. k \in 0 .. x - 1 /\ (k # 0 => k - 1 \in 0 .. x - 1 /\ k - 1 # x)
        BY <2>2
      <3>2. g[k] = IF k = 0 THEN <<>> ELSE Dispatch(g[k - 1], cbs, decoded[s[k]])
        BY <1>4, <3>1 DEF CallsEquation
      <3>3. k # 0 => h[k - 1] = g[k - 1]
        BY <3>1
      <3> QED
        BY <2>2, <3>2, <3>3
    <2> QED
      BY <2>1, <2>2
  <1>6. CallsEquation(h, cbs, s, x)
    <2> HIDE DEF h
    <2>1. h = [k \in 0 .. x |-> h[k]]
      BY DEF h
    <2> QED
      BY <1>5, <2>1 DEF CallsEquation
  <1> QED
    BY <1>6

\* So CallsAfter is one.
LEMMA CallsAfterEquation ==
    ASSUME NEW cbs, NEW s, Len(s) \in Nat
    PROVE  /\ DOMAIN CallsAfter(cbs, s) = 0 .. Len(s)
           /\ CallsAfter(cbs, s)[0] = <<>>
           /\ \A k \in 1 .. Len(s) :
                CallsAfter(cbs, s)[k]
                  = Dispatch(CallsAfter(cbs, s)[k - 1], cbs, decoded[s[k]])
  <1> DEFINE c == CallsAfter(cbs, s)
  <1>1. \E calls : CallsEquation(calls, cbs, s, Len(s))
    BY CallsExist
  <1>2. CallsEquation(c, cbs, s, Len(s))
    BY <1>1 DEF CallsAfter, CallsEquation
  <1> HIDE DEF c
  <1>3. \A k \in 0 .. Len(s) :
          c[k] = IF k = 0 THEN <<>> ELSE Dispatch(c[k - 1], cbs, decoded[s[k]])
    BY <1>2 DEF CallsEquation
  <1>4. DOMAIN c = 0 .. Len(s)
    BY <1>2 DEF CallsEquation
  <1> QED
    BY <1>3, <1>4 DEF c

\* A packet more leaves the calls that came before as they are.
LEMMA CallsAfterAppend ==
    ASSUME NEW cbs, NEW s \in Seq(Frames), NEW f \in Frames
    PROVE  \A k \in 0 .. Len(s) : CallsAfter(cbs, Append(s, f))[k] = CallsAfter(cbs, s)[k]
  <1> DEFINE t == Append(s, f)
             c == CallsAfter(cbs, s)
             d == CallsAfter(cbs, t)
             T == {k \in 0 .. Len(s) : d[k] # c[k]}
  <1>1. /\ Len(s) \in Nat /\ Len(t) = Len(s) + 1
        /\ \A k \in 1 .. Len(s) : t[k] = s[k]
    OBVIOUS
  <1>2. /\ c[0] = <<>>
        /\ \A k \in 1 .. Len(s) : c[k] = Dispatch(c[k - 1], cbs, decoded[s[k]])
    BY <1>1, CallsAfterEquation
  <1>3. /\ d[0] = <<>>
        /\ \A k \in 1 .. Len(t) : d[k] = Dispatch(d[k - 1], cbs, decoded[t[k]])
    <2>1. Len(t) \in Nat
      BY <1>1
    <2> HIDE DEF t
    <2> QED
      BY <2>1, CallsAfterEquation
  <1> HIDE DEF c, d, t
  <1> SUFFICES ASSUME T # {} PROVE FALSE
    BY DEF c, d, t
  <1>4. PICK x \in T : \A y \in T : x <= y
    <2>1. T \subseteq Nat
      BY <1>1
    <2> QED
      BY <2>1, LeastNumber
  <1>5. x # 0
    BY <1>2, <1>3
  <1>6. x \in 1 .. Len(s) /\ x - 1 \in 0 .. Len(s) /\ x - 1 \notin T
    BY <1>1, <1>4, <1>5
  <1> QED
    BY <1>1, <1>2, <1>3, <1>6

\* They are calls, if the callbacks are registered ones.
LEMMA CallsAfterType ==
    ASSUME NEW cbs, DOMAIN cbs \subseteq Index, cbs \in [DOMAIN cbs -> Callback],
           NEW s \in Seq(Frames)
    PROVE  \A k \in 0 .. Len(s) : CallsAfter(cbs, s)[k] \in Seq(Call)
  <1> DEFINE c == CallsAfter(cbs, s)
             T == {k \in 0 .. Len(s) : c[k] \notin Seq(Call)}
  <1>1. /\ Len(s) \in Nat /\ c[0] = <<>>
        /\ \A k \in 1 .. Len(s) : c[k] = Dispatch(c[k - 1], cbs, decoded[s[k]])
    BY CallsAfterEquation
  <1> HIDE DEF c
  <1> SUFFICES ASSUME T # {} PROVE FALSE
    BY DEF c
  <1>2. PICK x \in T : \A y \in T : x <= y
    <2>1. T \subseteq Nat
      BY <1>1
    <2> QED
      BY <2>1, LeastNumber
  <1>3. x # 0
    BY <1>1, EmptySeq
  <1>4. x \in 1 .. Len(s) /\ x - 1 \in 0 .. Len(s) /\ x - 1 \notin T
    BY <1>1, <1>2, <1>3
  <1>5. c[x - 1] \in Seq(Call) /\ decoded[s[x]] \in Message
    BY <1>4, ElementOfSeq, FramingAssumption
  <1>6. Dispatch(c[x - 1], cbs, decoded[s[x]]) \in Seq(Call)
    BY <1>5, DispatchType
  <1> QED
    BY <1>1, <1>4, <1>6

\* The calls of fewer packets are a prefix of those of more.
IsPrefix(s, t) == Len(s) <= Len(t) /\ s = SubSeq(t, 1, Len(s))

LEMMA CallsAfterPrefix ==
    ASSUME NEW cbs, DOMAIN cbs \subseteq Index, cbs \in [DOMAIN cbs -> Callback],
           NEW s \in Seq(Frames), NEW i \in 0 .. Len(s), NEW j \in i .. Len(s)
    PROVE  IsPrefix(CallsAfter(cbs, s)[i], CallsAfter(cbs, s)[j])
  <1> DEFINE c == CallsAfter(cbs, s)
             T == {k \in i .. Len(s) : ~IsPrefix(c[i], c[k])}
  <1>1. /\ Len(s) \in Nat
        /\ \A k \in 1 .. Len(s) : c[k] = Dispatch(c[k - 1], cbs, decoded[s[k]])
        /\ \A k \in 0 .. Len(s) : c[k] \in Seq(Call)
    BY CallsAfterEquation, CallsAfterType
  <1> HIDE DEF c
  <1> SUFFICES ASSUME T # {} PROVE FALSE
    BY DEF c
  <1>2. PICK x \in T : \A y \in T : x <= y
    <2>1. T \subseteq Nat
      BY <1>1
    <2> QED
      BY <2>1, LeastNumber
  <1>3. IsPrefix(c[i], c[i])
    BY <1>1, SubSeqFull DEF IsPrefix
  <1>4. /\ x \in 1 .. Len(s) /\ x - 1 \in 0 .. Len(s) /\ x - 1 \in i .. Len(s)
        /\ x - 1 \notin T
    BY <1>1, <1>2, <1>3
  <1>5. IsPrefix(c[i], c[x - 1])
    BY <1>4
  <1>6. /\ c[i] \in Seq(Call) /\ c[x - 1] \in Seq(Call) /\ c[x] \in Seq(Call)
        /\ Len(c[x - 1]) <= Len(c[x])
        /\ \A k \in 1 .. Len(c[x - 1]) : c[x][k] = c[x - 1][k]
    <2>1. c[x] = c[x - 1] \/ \E e : c[x] = Append(c[x - 1], e)
      BY <1>1, <1>4 DEF Dispatch
    <2>2. c[x - 1] \in Seq(Call) /\ c[x] \in Seq(Call) /\ c[i] \in Seq(Call)
      BY <1>1, <1>4
    <2> QED
      BY <2>1, <2>2
  <1> DEFINE p == c[i]
             q == c[x - 1]
             r == c[x]
  <1>7. /\ p \in Seq(Call) /\ q \in Seq(Call) /\ r \in Seq(Call)
        /\ Len(p) <= Len(q) /\ p = SubSeq(q, 1, Len(p)) /\ Len(q) <= Len(r)
        /\ \A k \in 1 .. Len(q) : r[k] = q[k]
    BY <1>5, <1>6 DEF IsPrefix
  <1> HIDE DEF p, q, r
  <1>8. Len(p) <= Len(r) /\ SubSeq(r, 1, Len(p)) = p
    <2>1. /\ Len(p) \in Nat /\ Len(p) <= Len(r)
          /\ \A k \in 1 .. Len(p) : r[k] = q[k] /\ q[k] \in Call
      BY <1>7
    <2> DEFINE u == SubSeq(r, 1, Len(p))
    <2>2. /\ u \in Seq(Call) /\ Len(u) = Len(p)
          /\ \A k \in 1 .. Len(p) : u[k] = r[k]
      BY <2>1, SubSeqProperties
    <2>3. \A k \in 1 .. Len(p) : p[k] = q[k]
      <3>1. \A k \in 1 .. Len(p) : SubSeq(q, 1, Len(p))[k] = q[k]
        BY <2>1, SubSeqProperties
      <3> QED
        BY <1>7, <3>1
    <2> HIDE DEF u
    <2>4. u = p
      BY <1>7, <2>1, <2>2, <2>3, SeqEqual
    <2> QED
      BY <2>1, <2>4 DEF u
  <1>9. IsPrefix(c[i], c[x])
    BY <1>8 DEF IsPrefix, p, r
  <1> QED
    BY <1>9

-----------------------------------------------------------------------------
(* The line. What is on the way of the packets that a peer sends is a string *)
(* that can be cut into the packets still to come, each with its delimiter.  *)

\* left[k] is what is left of the string when the first k of the packets of s have
\* been taken from it, and bytes is what is left after j.
Carries(bytes, s, j) ==
    \E left \in [j .. Len(s) -> Seq(Byte)] :
      /\ left[j] = bytes /\ left[Len(s)] = <<>>
      /\ \A k \in j + 1 .. Len(s) : left[k - 1] = s[k] \o <<Delim>> \o left[k]

\* Before anything was sent there is nothing on the line.
LEMMA CarriesNothing == Carries(<<>>, <<>>, 0)
  <1> DEFINE left == [k \in 0 .. 0 |-> <<>>]
  <1>1. left \in [0 .. 0 -> Seq(Byte)] /\ left[0] = <<>> /\ Len(<<>>) = 0
    BY EmptySeq
  <1>2. \A k \in 0 + 1 .. 0 : FALSE
    OBVIOUS
  <1> QED
    BY <1>1, <1>2 DEF Carries

\* A packet has bytes, and none of them is the delimiter.
LEMMA FrameBytes ==
    ASSUME NEW f \in Frames
    PROVE  /\ f \in Seq(Byte) /\ <<Delim>> \in Seq(Byte)
           /\ f # <<>> /\ Len(f) \in Nat \ {0}
           /\ \A i \in 1 .. Len(f) : f[i] # Delim
  <1>1. f \in Seq(Byte \ {Delim}) /\ Delim \in Byte /\ f # <<>>
    BY FramingAssumption
  <1>2. f \in Seq(Byte) /\ <<Delim>> \in Seq(Byte)
    BY <1>1, SeqMonotonic
  <1>3. \A i \in 1 .. Len(f) : f[i] # Delim
    BY <1>1, ElementOfSeq
  <1> QED
    BY <1>1, <1>2, <1>3, EmptySeq

\* What is sent is carried behind the rest.
LEMMA CarriesMore ==
    ASSUME NEW s \in Seq(Frames), NEW f \in Frames, NEW j \in 0 .. Len(s),
           NEW bytes \in Seq(Byte), Carries(bytes, s, j)
    PROVE  Carries(bytes \o f \o <<Delim>>, Append(s, f), j)
  <1> DEFINE t == Append(s, f)
             n == Len(s)
             p == f \o <<Delim>>
  <1>1. PICK left \in [j .. n -> Seq(Byte)] :
          /\ left[j] = bytes /\ left[n] = <<>>
          /\ \A k \in j + 1 .. n : left[k - 1] = s[k] \o <<Delim>> \o left[k]
    BY DEF Carries
  <1>2. p \in Seq(Byte) /\ f \in Seq(Byte) /\ <<Delim>> \in Seq(Byte)
    BY FrameBytes
  <1>3. /\ n \in Nat /\ Len(t) = n + 1 /\ t[n + 1] = f
        /\ \A k \in 1 .. n : t[k] = s[k] /\ s[k] \in Frames
    BY AppendProperties, ElementOfSeq
  <1> HIDE DEF p, t, n
  <1> DEFINE more == [k \in j .. n + 1 |-> IF k = n + 1 THEN <<>> ELSE left[k] \o p]
  <1>4. more \in [j .. n + 1 -> Seq(Byte)]
    <2>1. ASSUME NEW k \in j .. n + 1
          PROVE  (IF k = n + 1 THEN <<>> ELSE left[k] \o p) \in Seq(Byte)
      <3>1. CASE k = n + 1
        BY <3>1, EmptySeq
      <3>2. CASE k # n + 1
        <4>1. k \in j .. n
          BY <1>3, <3>2
        <4>2. left[k] \in Seq(Byte)
          BY <4>1
        <4> QED
          BY <1>2, <3>2, <4>2, ConcatProperties
      <3> QED
        BY <3>1, <3>2
    <2> QED
      BY <2>1
  <1>5. more[j] = bytes \o f \o <<Delim>> /\ more[n + 1] = <<>>
    <2>1. j \in j .. n + 1 /\ n + 1 \in j .. n + 1 /\ j # n + 1
      BY <1>3 DEF n
    <2>2. more[j] = bytes \o p
      BY <1>1, <2>1
    <2>3. bytes \o p = bytes \o f \o <<Delim>>
      BY <1>2, ConcatAssociative DEF p
    <2> QED
      BY <2>1, <2>2, <2>3
  <1>6. ASSUME NEW k \in j + 1 .. n + 1
        PROVE  more[k - 1] = t[k] \o <<Delim>> \o more[k]
    <2>1. k - 1 \in j .. n + 1 /\ k - 1 # n + 1 /\ k \in j .. n + 1
      BY <1>3
    <2>2. more[k - 1] = left[k - 1] \o p
      BY <2>1
    <2>3. CASE k = n + 1
      <3>1. left[k - 1] = <<>> /\ more[k] = <<>> /\ t[k] = f
        BY <1>1, <1>3, <2>1, <2>3
      <3>2. <<>> \o p = p /\ p \o <<>> = p
        BY <1>2, ConcatEmptySeq
      <3> QED
        BY <2>2, <3>1, <3>2 DEF p
    <2>4. CASE k # n + 1
      <3>1. k \in j + 1 .. n /\ k \in j .. n /\ k \in 1 .. n
        BY <1>3, <2>4
      <3>2. left[k - 1] = s[k] \o <<Delim>> \o left[k] /\ t[k] = s[k]
        BY <1>1, <1>3, <3>1
      <3>3. s[k] \in Seq(Byte) /\ left[k] \in Seq(Byte)
        BY <1>3, <3>1, FrameBytes
      <3>4. s[k] \o <<Delim>> \in Seq(Byte)
        BY <1>2, <3>3, ConcatProperties
      <3>5. (s[k] \o <<Delim>> \o left[k]) \o p = s[k] \o <<Delim>> \o (left[k] \o p)
        <4> DEFINE h == s[k] \o <<Delim>>
                   l == left[k]
        <4>1. h \in Seq(Byte) /\ l \in Seq(Byte)
          BY <3>3, <3>4
        <4> HIDE DEF h, l
        <4>2. (h \o l) \o p = h \o (l \o p)
          BY <1>2, <4>1, ConcatAssociative
        <4> QED
          BY <4>2 DEF h, l
      <3>6. more[k] = left[k] \o p
        BY <2>1, <2>4
      <3> QED
        BY <2>2, <3>2, <3>5, <3>6
    <2> QED
      BY <2>3, <2>4
  <1> HIDE DEF more
  <1> QED
    BY <1>3, <1>4, <1>5, <1>6 DEF Carries, t, n

\* The first packet to come is at the front of what is carried.
LEMMA CarriesFront ==
    ASSUME NEW s \in Seq(Frames), NEW j \in 0 .. Len(s), NEW bytes \in Seq(Byte),
           Carries(bytes, s, j)
    PROVE  /\ j = Len(s) => bytes = <<>>
           /\ j # Len(s) => /\ j + 1 \in 1 .. Len(s) /\ s[j + 1] \in Frames
                            /\ \E rest_ \in Seq(Byte) :
                                 /\ bytes = s[j + 1] \o <<Delim>> \o rest_
                                 /\ Carries(rest_, s, j + 1)
  <1> DEFINE n == Len(s)
  <1>1. PICK left \in [j .. n -> Seq(Byte)] :
          /\ left[j] = bytes /\ left[n] = <<>>
          /\ \A k \in j + 1 .. n : left[k - 1] = s[k] \o <<Delim>> \o left[k]
    BY DEF Carries
  <1>2. n \in Nat
    OBVIOUS
  <1>3. j = n => bytes = <<>>
    BY <1>1
  <1>4. ASSUME j # n
        PROVE  /\ j + 1 \in 1 .. n /\ s[j + 1] \in Frames
               /\ \E rest_ \in Seq(Byte) :
                    /\ bytes = s[j + 1] \o <<Delim>> \o rest_
                    /\ Carries(rest_, s, j + 1)
    <2>1. /\ j + 1 \in 1 .. n /\ j + 1 \in j + 1 .. n /\ j + 1 \in j .. n
          /\ (j + 1) - 1 = j /\ n \in j + 1 .. n
      BY <1>2, <1>4
    <2>2. s[j + 1] \in Frames
      BY <2>1, ElementOfSeq
    <2>3. bytes = s[j + 1] \o <<Delim>> \o left[j + 1] /\ left[j + 1] \in Seq(Byte)
      BY <1>1, <2>1
    <2> DEFINE less == [k \in j + 1 .. n |-> left[k]]
    <2>4. less \in [j + 1 .. n -> Seq(Byte)]
      BY <1>2, <2>1
    <2>5. less[j + 1] = left[j + 1] /\ less[n] = <<>>
      BY <1>1, <2>1
    <2>6. \A k \in j + 1 + 1 .. n : less[k - 1] = s[k] \o <<Delim>> \o less[k]
      <3>1. ASSUME NEW k \in j + 1 + 1 .. n
            PROVE  less[k - 1] = s[k] \o <<Delim>> \o less[k]
        <4>1. k - 1 \in j + 1 .. n /\ k \in j + 1 .. n
          BY <1>2, <2>1
        <4> QED
          BY <1>1, <4>1
      <3> QED
        BY <3>1
    <2> HIDE DEF less
    <2>7. Carries(left[j + 1], s, j + 1)
      BY <2>4, <2>5, <2>6 DEF Carries
    <2> QED
      BY <2>1, <2>2, <2>3, <2>7
  <1> QED
    BY <1>3, <1>4

\* Joining more to a string that has a delimiter changes neither its first chunk
\* nor what the rest begins with.
LEMMA ChunkOfConcat ==
    ASSUME NEW x \in Seq(Byte), NEW y \in Seq(Byte), HasDelim(x)
    PROVE  /\ HasDelim(x \o y) /\ FirstChunk(x \o y) = FirstChunk(x)
           /\ AfterChunk(x \o y) = AfterChunk(x) \o y
  <1> DEFINE c == FirstChunk(x)
             r == AfterChunk(x)
  <1>1. c \in Seq(Byte) /\ c \o <<Delim>> \o r = x
    BY CutIsJoined
  <1>2. r \in Seq(Byte)
    BY AfterChunkType
  <1>3. \A i \in 1 .. Len(c) : c[i] # Delim
    <2>1. /\ FirstDelim(x) \in 1 .. Len(x)
          /\ \A i \in 1 .. FirstDelim(x) - 1 : x[i] # Delim
      BY FirstDelimProperties
    <2>2. \A i \in 1 .. FirstDelim(x) - 1 : x[i] \in Byte
      BY <2>1, ElementOfSeq
    <2>3. Len(c) = FirstDelim(x) - 1 /\ \A i \in 1 .. FirstDelim(x) - 1 : c[i] = x[i]
      BY <2>1, <2>2, SubSeqProperties DEF FirstChunk
    <2> QED
      BY <2>1, <2>3
  <1>4. <<Delim>> \in Seq(Byte)
    BY FramingAssumption
  <1> HIDE DEF c, r
  <1>5. r \o y \in Seq(Byte) /\ c \o <<Delim>> \in Seq(Byte)
    BY <1>1, <1>2, <1>4, ConcatProperties
  <1>6. x \o y = c \o <<Delim>> \o (r \o y)
    <2> DEFINE h == c \o <<Delim>>
    <2> HIDE DEF h
    <2>1. h \in Seq(Byte) => (h \o r) \o y = h \o (r \o y)
      BY <1>2, ConcatAssociative
    <2> QED
      BY <1>1, <1>5, <2>1 DEF h
  <1>7. /\ HasDelim(x \o y) /\ FirstChunk(x \o y) = c
        /\ AfterChunk(x \o y) = r \o y
    BY <1>1, <1>3, <1>5, <1>6, JoinedIsCut
  <1> QED
    BY <1>7 DEF c, r

\* The first chunk of what has been read is the next packet, and what is left of it
\* and the unread bytes carry the others.
LEMMA CarriesChunk ==
    ASSUME NEW s \in Seq(Frames), NEW j \in 0 .. Len(s),
           NEW x \in Seq(Byte), NEW y \in Seq(Byte), Carries(x \o y, s, j),
           HasDelim(x)
    PROVE  /\ j + 1 \in 1 .. Len(s) /\ s[j + 1] \in Frames
           /\ FirstChunk(x) = s[j + 1] /\ FirstDelim(x) = Len(s[j + 1]) + 1
           /\ AfterChunk(x) \in Seq(Byte)
           /\ Carries(AfterChunk(x) \o y, s, j + 1)
  <1> DEFINE z == x \o y
  <1>1. z \in Seq(Byte) /\ AfterChunk(x) \in Seq(Byte)
    BY ConcatProperties, AfterChunkType
  <1>2. /\ HasDelim(z) /\ FirstChunk(z) = FirstChunk(x)
        /\ AfterChunk(z) = AfterChunk(x) \o y
    BY ChunkOfConcat
  <1> HIDE DEF z
  <1>3. z # <<>>
    BY <1>2 DEF HasDelim
  <1>4. j # Len(s)
    BY <1>1, <1>3, CarriesFront DEF z
  <1>5. /\ j + 1 \in 1 .. Len(s) /\ s[j + 1] \in Frames
        /\ \E rest_ \in Seq(Byte) : /\ z = s[j + 1] \o <<Delim>> \o rest_
                                    /\ Carries(rest_, s, j + 1)
    BY <1>1, <1>4, CarriesFront DEF z
  <1>6. PICK rest_ \in Seq(Byte) : /\ z = s[j + 1] \o <<Delim>> \o rest_
                                   /\ Carries(rest_, s, j + 1)
    BY <1>5
  <1>7. FirstChunk(z) = s[j + 1] /\ AfterChunk(z) = rest_
    <2>1. s[j + 1] \in Seq(Byte) /\ \A i \in 1 .. Len(s[j + 1]) : s[j + 1][i] # Delim
      BY <1>5, FrameBytes
    <2> QED
      BY <1>6, <2>1, JoinedIsCut
  <1>8. FirstDelim(x) = Len(s[j + 1]) + 1
    <2>1. FirstDelim(x) \in 1 .. Len(x)
      BY FirstDelimProperties
    <2>2. \A i \in 1 .. FirstDelim(x) - 1 : x[i] \in Byte
      BY <2>1, ElementOfSeq
    <2>3. Len(FirstChunk(x)) = FirstDelim(x) - 1
      BY <2>1, <2>2, SubSeqProperties DEF FirstChunk
    <2> QED
      BY <1>2, <1>7, <2>1, <2>3
  <1> QED
    BY <1>1, <1>2, <1>5, <1>6, <1>7, <1>8

\* What has been read and holds no delimiter is shorter than the next packet with
\* its delimiter, and nothing if no packet is to come.
LEMMA CarriesPart ==
    ASSUME NEW s \in Seq(Frames), NEW j \in 0 .. Len(s),
           NEW x \in Seq(Byte), NEW y \in Seq(Byte), Carries(x \o y, s, j),
           ~HasDelim(x)
    PROVE  /\ j = Len(s) => x = <<>> /\ y = <<>>
           /\ j # Len(s) => j + 1 \in 1 .. Len(s) /\ Len(x) <= Len(s[j + 1])
  <1> DEFINE z == x \o y
  <1>1. /\ z \in Seq(Byte) /\ Len(z) = Len(x) + Len(y)
        /\ Len(x) \in Nat /\ Len(y) \in Nat
        /\ \A i \in 1 .. Len(x) : z[i] = x[i]
    OBVIOUS
  <1>2. z = <<>> => x = <<>> /\ y = <<>>
    BY ConcatEqualIffEmpty DEF z
  <1>3. /\ j = Len(s) => z = <<>>
        /\ j # Len(s) => /\ j + 1 \in 1 .. Len(s) /\ s[j + 1] \in Frames
                         /\ \E rest_ \in Seq(Byte) :
                              z = s[j + 1] \o <<Delim>> \o rest_
    <2>1. Carries(z, s, j)
      BY DEF z
    <2> HIDE DEF z
    <2>2. /\ j = Len(s) => z = <<>>
          /\ j # Len(s) => /\ j + 1 \in 1 .. Len(s) /\ s[j + 1] \in Frames
                           /\ \E rest_ \in Seq(Byte) :
                                /\ z = s[j + 1] \o <<Delim>> \o rest_
                                /\ Carries(rest_, s, j + 1)
      BY <1>1, <2>1, CarriesFront
    <2> QED
      BY <2>2
  <1> HIDE DEF z
  <1>4. ASSUME j # Len(s) PROVE Len(x) <= Len(s[j + 1])
    <2> DEFINE f == s[j + 1]
    <2>1. PICK rest_ \in Seq(Byte) : z = f \o <<Delim>> \o rest_
      BY <1>3, <1>4
    <2>2. f \in Seq(Byte) /\ Len(f) \in Nat /\ <<Delim>> \in Seq(Byte)
      BY <1>3, <1>4, FrameBytes
    <2> HIDE DEF f
    <2>3. Len(f) + 1 \in 1 .. Len(z) /\ z[Len(f) + 1] = Delim
      BY <2>1, <2>2
    <2>4. ASSUME Len(x) > Len(f) PROVE FALSE
      <3>1. Len(f) + 1 \in 1 .. Len(x)
        BY <1>1, <2>2, <2>4
      <3> QED
        BY <1>1, <2>3, <3>1 DEF HasDelim
    <2> QED
      BY <1>1, <2>2, <2>4 DEF f
  <1> QED
    BY <1>2, <1>3, <1>4

\* Strings of bytes are joined in any order.
LEMMA ByteStrings ==
    \A x, y, z \in Seq(Byte) : (x \o y) \o z = x \o (y \o z)
  BY ConcatAssociative

\* A read cuts what waits in two ...
LEMMA CutInTwo ==
    ASSUME NEW y \in Seq(Byte), NEW n \in 0 .. Len(y)
    PROVE  /\ SubSeq(y, 1, n) \in Seq(Byte) /\ SubSeq(y, n + 1, Len(y)) \in Seq(Byte)
           /\ SubSeq(y, 1, n) \o SubSeq(y, n + 1, Len(y)) = y
  <1>1. SubSeq(y, 1, n) \in Seq(Byte)
    <2>1. \A i \in 1 .. n : y[i] \in Byte
      BY ElementOfSeq
    <2> QED
      BY <2>1, SubSeqProperties
  <1>2. SubSeq(y, n + 1, Len(y)) \in Seq(Byte)
    BY SuffixProperties
  <1>3. /\ 1 \in 1 .. Len(y) + 1 /\ n \in 1 - 1 .. Len(y)
        /\ Len(y) \in n .. Len(y)
    OBVIOUS
  <1>4. SubSeq(y, 1, n) \o SubSeq(y, n + 1, Len(y)) = SubSeq(y, 1, Len(y))
    BY <1>3, ConcatAdjacentSubSeq
  <1> QED
    BY <1>1, <1>2, <1>4, SubSeqFull

\* ... and moves bytes from the one to the other.
LEMMA CarriesRead ==
    ASSUME NEW s, NEW j, NEW x \in Seq(Byte), NEW y \in Seq(Byte),
           NEW n \in 0 .. Len(y), Carries(x \o y, s, j)
    PROVE  /\ SubSeq(y, 1, n) \in Seq(Byte) /\ SubSeq(y, n + 1, Len(y)) \in Seq(Byte)
           /\ Carries((x \o SubSeq(y, 1, n)) \o SubSeq(y, n + 1, Len(y)), s, j)
  <1> DEFINE h == SubSeq(y, 1, n)
             r == SubSeq(y, n + 1, Len(y))
  <1>1. h \in Seq(Byte) /\ r \in Seq(Byte)
    BY CutInTwo
  <1>2. h \o r = y
    BY CutInTwo
  <1> HIDE DEF h, r
  <1>3. (x \o h) \o r = x \o (h \o r)
    BY <1>1, ConcatAssociative
  <1> QED
    BY <1>1, <1>2, <1>3 DEF h, r

\* Of what has been read and what waits, a packet more is behind what waits.
LEMMA CarriesSent ==
    ASSUME NEW s \in Seq(Frames), NEW f \in Frames, NEW j \in 0 .. Len(s),
           NEW x \in Seq(Byte), NEW y \in Seq(Byte), Carries(x \o y, s, j)
    PROVE  /\ y \o f \o <<Delim>> \in Seq(Byte)
           /\ Carries(x \o (y \o f \o <<Delim>>), Append(s, f), j)
  <1> DEFINE d == <<Delim>>
             z == x \o y
             yf == y \o f
  <1>1. f \in Seq(Byte) /\ d \in Seq(Byte)
    BY FrameBytes
  <1>2. z \in Seq(Byte) /\ yf \in Seq(Byte) /\ Carries(z, s, j)
    BY <1>1, ConcatProperties
  <1>3. z \o f = x \o yf
    BY <1>1, ConcatAssociative
  <1> HIDE DEF z, yf, d
  <1>4. Carries((z \o f) \o d, Append(s, f), j)
    BY <1>2, CarriesMore DEF d
  <1>5. (x \o yf) \o d = x \o (yf \o d) /\ yf \o d \in Seq(Byte)
    BY <1>1, <1>2, ConcatAssociative, ConcatProperties
  <1>6. Carries(x \o (yf \o d), Append(s, f), j)
    BY <1>3, <1>4, <1>5
  <1> QED
    BY <1>5, <1>6 DEF yf, d

=============================================================================
