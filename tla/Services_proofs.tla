---------------------------- MODULE Services_proofs ----------------------------
(***************************************************************************)
(* What the services keep to, composed with the scheduler and the tick,    *)
(* for any number of threads, priorities, blocks, items and bytes. First   *)
(* the ring buffer alone: with the mirror bits the two indices say how     *)
(* many bytes are in it, and what is proved of a function is how far it    *)
(* moves each of them and which slots it writes.                           *)
(***************************************************************************)
EXTENDS Services, Kernel_proofs

-----------------------------------------------------------------------------
(* The ring buffer                                                         *)

\* The slot n places behind index i, for n up to the size.
Behind(i, n) == IF i + n < RbSize THEN i + n ELSE i + n - RbSize

\* The write index is n bytes ahead of the read index, mirror bits and all.
Holds(rb, n) ==
  /\ rb.wi = Behind(rb.ri, n)
  /\ rb.wm = IF rb.ri + n < RbSize THEN rb.rm ELSE ~rb.rm

\* What the indices of a ring buffer keep to: it holds some number of bytes.
Valid(rb, Byte) == rb \in Ring(Byte) /\ \E n \in 0 .. RbSize : Holds(rb, n)

-----------------------------------------------------------------------------
(* The indices *)

\* Going on from a slot that has been gone on to.
LEMMA BehindFacts ==
  ASSUME NEW i \in 0 .. RbSize - 1, NEW a \in 0 .. RbSize, NEW b \in 0 .. RbSize,
         NEW c \in 0 .. RbSize, c = a + b \/ c = a + b - RbSize
  PROVE  Behind(Behind(i, a), b) = Behind(i, c)
<1>1. RbSize \in Nat /\ RbSize > 0
  BY RingAssumption
<1> QED BY <1>1 DEF Behind

\* The number of bytes can be read off the indices.
LEMMA HoldsLen ==
  ASSUME NEW Byte, NEW rb \in Ring(Byte), NEW n \in 0 .. RbSize, Holds(rb, n)
  PROVE  DataLen(rb) = n
<1>1. /\ RbSize \in Nat /\ RbSize > 0
      /\ rb.ri \in 0 .. RbSize - 1 /\ rb.wi \in 0 .. RbSize - 1
      /\ rb.rm \in BOOLEAN /\ rb.wm \in BOOLEAN
  BY RingAssumption DEF Ring, RingIndex
<1>2. CASE n = 0
  BY <1>1, <1>2 DEF Holds, Behind, DataLen, Empty
<1>3. CASE n = RbSize
  BY <1>1, <1>3 DEF Holds, Behind, DataLen, Empty, Full
<1>4. CASE n # 0 /\ n # RbSize
  BY <1>1, <1>4 DEF Holds, Behind, DataLen, Empty, Full
<1> QED BY <1>2, <1>3, <1>4

\* And the other way round.
LEMMA ValidLen ==
  ASSUME NEW Byte, NEW rb, Valid(rb, Byte)
  PROVE  DataLen(rb) \in 0 .. RbSize /\ Holds(rb, DataLen(rb))
BY HoldsLen DEF Valid

\* What a copy of n bytes reads.
LEMMA CopyFacts ==
  ASSUME NEW Byte, NEW rb \in Ring(Byte), NEW n \in 0 .. RbSize
  PROVE  /\ RingCopy(rb, n) \in Seq(Byte) /\ Len(RingCopy(rb, n)) = n
         /\ \A i \in 1 .. n : /\ Behind(rb.ri, i - 1) \in RingIndex
                              /\ RingCopy(rb, n)[i] = rb.buf[Behind(rb.ri, i - 1)]
<1>1. RbSize \in Nat /\ RbSize > 0 /\ rb.ri \in 0 .. RbSize - 1
  BY RingAssumption DEF Ring, RingIndex
<1>2. ASSUME NEW i \in 1 .. n
      PROVE  /\ Behind(rb.ri, i - 1) \in RingIndex
             /\ (rb.ri + i - 1) % RbSize = Behind(rb.ri, i - 1)
  <2>1. (rb.ri + i - 1) % RbSize = IF rb.ri + i - 1 < RbSize THEN rb.ri + i - 1
                                   ELSE rb.ri + i - 1 - RbSize
    BY <1>1, WrapFacts
  <2> QED BY <1>1, <2>1 DEF Behind, RingIndex
<1>3. \A i \in 1 .. n : RingCopy(rb, n)[i] = rb.buf[Behind(rb.ri, i - 1)]
  BY <1>2 DEF RingCopy
<1>4. \A i \in 1 .. n : rb.buf[Behind(rb.ri, i - 1)] \in Byte
  BY <1>2 DEF Ring
<1>5. n \in Nat
  BY <1>1
<1>6. RingCopy(rb, n) = [i \in 1 .. n |-> rb.buf[Behind(rb.ri, i - 1)]]
  BY <1>2 DEF RingCopy
<1>7. RingCopy(rb, n) \in [1 .. n -> Byte]
  BY <1>4, <1>6
<1> QED BY <1>2, <1>3, <1>5, <1>7

\* What is in a ring buffer that holds n bytes.
LEMMA ContentsFacts ==
  ASSUME NEW Byte, NEW rb \in Ring(Byte), NEW n \in 0 .. RbSize, Holds(rb, n)
  PROVE  /\ Contents(rb) \in Seq(Byte) /\ Len(Contents(rb)) = n
         /\ \A i \in 1 .. n : Contents(rb)[i] = rb.buf[Behind(rb.ri, i - 1)]
BY HoldsLen, CopyFacts DEF Contents

\* Contents that are known byte by byte.
LEMMA ContentsAre ==
  ASSUME NEW Byte, NEW rb \in Ring(Byte), NEW s \in Seq(Byte),
         Len(s) \in 0 .. RbSize, Holds(rb, Len(s)),
         \A i \in 1 .. Len(s) : rb.buf[Behind(rb.ri, i - 1)] = s[i]
  PROVE  Contents(rb) = s
<1> DEFINE c == Contents(rb)
<1>1. /\ c \in Seq(Byte) /\ Len(c) = Len(s)
      /\ \A i \in 1 .. Len(s) : c[i] = s[i]
  BY ContentsFacts
<1> HIDE DEF c
<1>2. c = s
  BY <1>1, SeqEqual
<1> QED BY <1>2 DEF c

-----------------------------------------------------------------------------
(* Writing *)

\* The two copies of a put write the slots from the write index on, and no
\* others.
LEMMA StoredFacts ==
  ASSUME NEW Byte, NEW rb \in Ring(Byte), NEW data \in Seq(Byte),
         Len(data) <= RbSize
  PROVE  /\ Stored(rb, data) \in [RingIndex -> Byte]
         /\ \A j \in 1 .. RbSize :
              /\ Behind(rb.wi, j - 1) \in RingIndex
              /\ Stored(rb, data)[Behind(rb.wi, j - 1)] =
                   IF j <= Len(data) THEN data[j] ELSE rb.buf[Behind(rb.wi, j - 1)]
<1>1. /\ RbSize \in Nat /\ RbSize > 0 /\ rb.wi \in 0 .. RbSize - 1
      /\ rb.buf \in [RingIndex -> Byte]
      /\ Len(data) \in Nat /\ \A j \in 1 .. Len(data) : data[j] \in Byte
  BY RingAssumption DEF Ring, RingIndex
<1>2. ASSUME NEW i \in RingIndex
      PROVE  /\ (i - rb.wi) % RbSize \in 0 .. RbSize - 1
             /\ (i - rb.wi) % RbSize = IF i < rb.wi THEN i - rb.wi + RbSize ELSE i - rb.wi
  <2>1. i \in 0 .. RbSize - 1
    BY DEF RingIndex
  <2> DEFINE x == i - rb.wi
  <2>2. x \in Int /\ -RbSize < x /\ x < RbSize
    BY <1>1, <2>1
  <2> HIDE DEF x
  <2>3. x % RbSize = IF x < 0 THEN x + RbSize ELSE x
    BY <1>1, <2>2, WrapFacts
  <2>4. x % RbSize \in 0 .. RbSize - 1
    BY <1>1, <2>2, <2>3
  <2>5. /\ x < 0 <=> i < rb.wi
        /\ x + RbSize = i - rb.wi + RbSize /\ x = i - rb.wi
    BY <1>1, <2>1 DEF x
  <2> QED BY <2>3, <2>4, <2>5
<1>3. \A i \in RingIndex :
        Stored(rb, data)[i] = IF (i - rb.wi) % RbSize < Len(data)
                              THEN data[((i - rb.wi) % RbSize) + 1] ELSE rb.buf[i]
  BY DEF Stored
<1>4. Stored(rb, data) \in [RingIndex -> Byte]
  <2>1. \A i \in RingIndex : Stored(rb, data)[i] \in Byte
    <3> TAKE i \in RingIndex
    <3> DEFINE m == (i - rb.wi) % RbSize
    <3>1. m \in Nat /\ Stored(rb, data)[i] = IF m < Len(data) THEN data[m + 1] ELSE rb.buf[i]
      BY <1>1, <1>2, <1>3
    <3> HIDE DEF m
    <3> QED BY <1>1, <3>1
  <2> QED BY <2>1 DEF Stored
<1>5. ASSUME NEW j \in 1 .. RbSize
      PROVE  /\ Behind(rb.wi, j - 1) \in RingIndex
             /\ (Behind(rb.wi, j - 1) - rb.wi) % RbSize = j - 1
  <2> DEFINE i == Behind(rb.wi, j - 1)
  <2>1. i = IF rb.wi + j - 1 < RbSize THEN rb.wi + j - 1 ELSE rb.wi + j - 1 - RbSize
    BY <1>1 DEF Behind
  <2> HIDE DEF i
  <2>2. i \in RingIndex
    BY <1>1, <2>1 DEF RingIndex
  <2>3. (i - rb.wi) % RbSize = j - 1
    BY <1>1, <1>2, <2>1, <2>2
  <2> QED BY <2>2, <2>3 DEF i
<1>6. ASSUME NEW j \in 1 .. RbSize
      PROVE  Stored(rb, data)[Behind(rb.wi, j - 1)] =
               IF j <= Len(data) THEN data[j] ELSE rb.buf[Behind(rb.wi, j - 1)]
  <2> DEFINE i == Behind(rb.wi, j - 1)
  <2>1. i \in RingIndex /\ (i - rb.wi) % RbSize = j - 1
    BY <1>5
  <2> HIDE DEF i
  <2>2. Stored(rb, data)[i] = IF j - 1 < Len(data) THEN data[j - 1 + 1] ELSE rb.buf[i]
    BY <1>3, <2>1
  <2> QED BY <1>1, <2>2 DEF i
<1> QED BY <1>4, <1>5, <1>6

\* A put moves the write index and leaves the read index alone.
LEMMA WrittenFacts ==
  ASSUME NEW Byte, NEW rb \in Ring(Byte), NEW data \in Seq(Byte),
         Len(data) <= RbSize
  PROVE  LET w == Written(rb, data)
         IN  /\ w \in Ring(Byte)
             /\ w.buf = Stored(rb, data) /\ w.ri = rb.ri /\ w.rm = rb.rm
             /\ w.wi = Behind(rb.wi, Len(data))
             /\ w.wm = IF rb.wi + Len(data) < RbSize THEN rb.wm ELSE ~rb.wm
<1> DEFINE n == Len(data)
           w == Written(rb, data)
           st == Stored(rb, data)
<1>1. /\ RbSize \in Nat /\ RbSize > 0 /\ rb.wi \in 0 .. RbSize - 1
      /\ rb.wm \in BOOLEAN /\ n \in Nat /\ n <= RbSize
  BY RingAssumption DEF Ring, RingIndex
<1>2. st \in [RingIndex -> Byte]
  BY StoredFacts
<1>3. w = IF RbSize - rb.wi > n
          THEN [rb EXCEPT !.buf = st, !.wi = rb.wi + n]
          ELSE [rb EXCEPT !.buf = st, !.wi = n - (RbSize - rb.wi), !.wm = ~rb.wm]
  BY DEF Written
<1> HIDE DEF w, st, n
<1>4. CASE RbSize - rb.wi > n
  <2>1. rb.wi + n \in RingIndex /\ rb.wi + n < RbSize
    BY <1>1, <1>4 DEF RingIndex
  <2>2. w = [rb EXCEPT !.buf = st, !.wi = rb.wi + n]
    BY <1>3, <1>4
  <2>3. /\ w \in Ring(Byte) /\ w.buf = st /\ w.ri = rb.ri /\ w.rm = rb.rm
        /\ w.wi = rb.wi + n /\ w.wm = rb.wm
    BY <1>2, <2>1, <2>2 DEF Ring
  <2> QED BY <2>1, <2>3 DEF Behind, w, st, n
<1>5. CASE ~(RbSize - rb.wi > n)
  <2>1. /\ n - (RbSize - rb.wi) \in RingIndex /\ ~(rb.wi + n < RbSize)
        /\ n - (RbSize - rb.wi) = rb.wi + n - RbSize
    BY <1>1, <1>5 DEF RingIndex
  <2>2. w = [rb EXCEPT !.buf = st, !.wi = n - (RbSize - rb.wi), !.wm = ~rb.wm]
    BY <1>3, <1>5
  <2>3. /\ w \in Ring(Byte) /\ w.buf = st /\ w.ri = rb.ri /\ w.rm = rb.rm
        /\ w.wi = n - (RbSize - rb.wi) /\ w.wm = ~rb.wm
    BY <1>1, <1>2, <2>1, <2>2 DEF Ring
  <2> QED BY <2>1, <2>3 DEF Behind, w, st, n
<1> QED BY <1>4, <1>5

\* Where that leaves the write index.
LEMMA WrittenIndex ==
  ASSUME NEW Byte, NEW rb \in Ring(Byte), NEW data \in Seq(Byte),
         Len(data) <= RbSize
  PROVE  Written(rb, data).wi = Behind(rb.wi, Len(data))
BY WrittenFacts

\* The bytes after a put, the first d of them given up: r has what the put has
\* stored, and its read index is d places on.
LEMMA PutContents ==
  ASSUME NEW Byte, NEW rb \in Ring(Byte), NEW len \in 0 .. RbSize, Holds(rb, len),
         NEW data \in Seq(Byte), Len(data) <= RbSize,
         NEW d \in 0 .. len, len + Len(data) - d \in 0 .. RbSize,
         NEW r \in Ring(Byte), r.buf = Stored(rb, data), r.ri = Behind(rb.ri, d),
         Holds(r, len + Len(data) - d)
  PROVE  Contents(r) = SubSeq(Contents(rb) \o data, d + 1, len + Len(data))
<1> DEFINE n == Len(data)
           c == Contents(rb)
           all == c \o data
           s == SubSeq(all, d + 1, len + n)
<1>1. /\ RbSize \in Nat /\ RbSize > 0 /\ n \in Nat /\ n <= RbSize
      /\ len \in Nat /\ len <= RbSize /\ d \in Nat /\ d <= len
      /\ rb.ri \in 0 .. RbSize - 1 /\ rb.wi \in 0 .. RbSize - 1
      /\ len + n - d \in 0 .. RbSize
  BY RingAssumption DEF Ring, RingIndex
<1>2. /\ c \in Seq(Byte) /\ Len(c) = len
      /\ \A i \in 1 .. len : c[i] = rb.buf[Behind(rb.ri, i - 1)]
  BY ContentsFacts
<1> HIDE DEF c
<1>3. /\ all \in Seq(Byte) /\ Len(all) = len + n
      /\ \A i \in 1 .. len + n : all[i] = IF i <= len THEN c[i] ELSE data[i - len]
  BY <1>2, ConcatProperties
<1> HIDE DEF all
<1>4. /\ s \in Seq(Byte) /\ Len(s) = len + n - d
      /\ \A i \in 1 .. len + n - d : s[i] = all[d + i]
  <2>1. /\ s \in Seq(Byte) /\ Len(s) = IF d + 1 <= len + n THEN len + n - (d + 1) + 1 ELSE 0
        /\ \A i \in 1 .. len + n - (d + 1) + 1 : s[i] = all[d + 1 + i - 1]
    BY <1>1, <1>3, SubSeqFacts
  <2> QED BY <1>1, <2>1
<1> HIDE DEF s, n
<1>5. ASSUME NEW i \in 1 .. len + n - d
      PROVE  r.buf[Behind(r.ri, i - 1)] = s[i]
  <2>1. CASE d + i <= len
    <3> DEFINE j == RbSize - len + d + i
    <3>1. j \in 1 .. RbSize /\ ~(j <= n)
      BY <1>1, <2>1
    <3>2. /\ Behind(r.ri, i - 1) = Behind(rb.ri, d + i - 1)
          /\ Behind(rb.wi, j - 1) = Behind(rb.ri, d + i - 1)
      <4> DEFINE x == i - 1
                 y == j - 1
                 z == d + i - 1
      <4>1. /\ x \in 0 .. RbSize /\ y \in 0 .. RbSize /\ z \in 0 .. RbSize
            /\ z = d + x /\ z = len + y - RbSize /\ d \in 0 .. RbSize
        BY <1>1, <2>1
      <4> HIDE DEF x, y, z
      <4>2. Behind(Behind(rb.ri, d), x) = Behind(rb.ri, z)
        BY <1>1, <4>1, BehindFacts
      <4>3. Behind(Behind(rb.ri, len), y) = Behind(rb.ri, z)
        BY <1>1, <4>1, BehindFacts
      <4> QED BY <4>2, <4>3 DEF Holds, x, y, z
    <3> HIDE DEF j
    <3>3. r.buf[Behind(rb.wi, j - 1)] = rb.buf[Behind(rb.wi, j - 1)]
      BY <3>1, StoredFacts DEF n
    <3>4. s[i] = c[d + i] /\ c[d + i] = rb.buf[Behind(rb.ri, d + i - 1)]
      <4>1. /\ i \in 1 .. len + n - d /\ d + i \in 1 .. len
            /\ d + i <= len /\ d + i \in 1 .. len + n
        BY <1>1, <2>1
      <4>2. s[i] = all[d + i]
        BY <1>4, <4>1
      <4>3. all[d + i] = c[d + i]
        BY <1>3, <4>1
      <4>4. c[d + i] = rb.buf[Behind(rb.ri, d + i - 1)]
        BY <1>2, <4>1
      <4> QED BY <4>2, <4>3, <4>4
    <3> QED BY <3>2, <3>3, <3>4
  <2>2. CASE ~(d + i <= len)
    <3> DEFINE j == d + i - len
    <3>1. j \in 1 .. RbSize /\ j <= n
      BY <1>1, <2>2
    <3>2. Behind(r.ri, i - 1) = Behind(rb.wi, j - 1)
      <4> DEFINE x == i - 1
                 y == j - 1
                 z == IF d + x <= RbSize THEN d + x ELSE d + x - RbSize
      <4>1. /\ x \in 0 .. RbSize /\ y \in 0 .. RbSize /\ z \in 0 .. RbSize
            /\ z = d + x \/ z = d + x - RbSize
            /\ z = len + y \/ z = len + y - RbSize
            /\ d \in 0 .. RbSize
        BY <1>1, <2>2
      <4> HIDE DEF x, y, z
      <4>2. Behind(Behind(rb.ri, d), x) = Behind(rb.ri, z)
        BY <1>1, <4>1, BehindFacts
      <4>3. Behind(Behind(rb.ri, len), y) = Behind(rb.ri, z)
        BY <1>1, <4>1, BehindFacts
      <4> QED BY <4>2, <4>3 DEF Holds, x, y
    <3>3. s[i] = data[j]
      <4>1. d + i \in 1 .. len + n /\ s[i] = all[d + i]
        BY <1>1, <1>4
      <4> QED BY <1>3, <2>2, <4>1
    <3> HIDE DEF j
    <3>4. r.buf[Behind(rb.wi, j - 1)] = data[j]
      BY <3>1, StoredFacts DEF n
    <3> QED BY <3>2, <3>3, <3>4
  <2> QED BY <2>1, <2>2
<1>6. Contents(r) = s
  BY <1>1, <1>4, <1>5, ContentsAre DEF n
<1> QED BY <1>6 DEF s, all, c, n

\* A put of what fits.
LEMMA PutFits ==
  ASSUME NEW Byte, NEW rb \in Ring(Byte), NEW len \in 0 .. RbSize, Holds(rb, len),
         NEW data \in Seq(Byte), len + Len(data) <= RbSize
  PROVE  LET w == Written(rb, data)
         IN  /\ w \in Ring(Byte) /\ Holds(w, len + Len(data))
             /\ Contents(w) = Contents(rb) \o data
<1> DEFINE n == Len(data)
           w == Written(rb, data)
           c == Contents(rb)
<1>1. /\ RbSize \in Nat /\ RbSize > 0 /\ n \in Nat /\ len \in Nat
      /\ n <= RbSize /\ len + n \in 0 .. RbSize
      /\ rb.ri \in 0 .. RbSize - 1 /\ rb.wi \in 0 .. RbSize - 1
      /\ rb.rm \in BOOLEAN /\ rb.wm \in BOOLEAN
  BY RingAssumption DEF Ring, RingIndex
<1>2. /\ w \in Ring(Byte) /\ w.buf = Stored(rb, data)
      /\ w.ri = rb.ri /\ w.rm = rb.rm /\ w.wi = Behind(rb.wi, n)
      /\ w.wm = IF rb.wi + n < RbSize THEN rb.wm ELSE ~rb.wm
  BY <1>1, WrittenFacts
<1> HIDE DEF w, n
<1>3. Holds(w, len + n)
  <2>1. Behind(Behind(rb.ri, len), n) = Behind(rb.ri, len + n)
    BY <1>1, BehindFacts
  <2>2. /\ rb.wi = Behind(rb.ri, len)
        /\ rb.wm = IF rb.ri + len < RbSize THEN rb.rm ELSE ~rb.rm
    BY DEF Holds
  <2>3. /\ rb.ri + (len + n) < RbSize <=> rb.ri + len < RbSize /\ rb.wi + n < RbSize
        /\ rb.ri + len < RbSize \/ rb.wi + n < RbSize
    BY <1>1, <2>2 DEF Behind
  <2>4. w.wm = IF rb.ri + (len + n) < RbSize THEN w.rm ELSE ~w.rm
    BY <1>2, <2>2, <2>3, Zenon
  <2> QED BY <1>2, <2>1, <2>2, <2>4 DEF Holds
<1>4. w.ri = Behind(rb.ri, 0)
  BY <1>1, <1>2 DEF Behind
<1>5. Contents(w) = SubSeq(c \o data, 1, len + n)
  <2>1. /\ 0 \in 0 .. len /\ len + n - 0 = len + n /\ 0 + 1 = 1
    BY <1>1
  <2>2. Contents(w) = SubSeq(c \o data, 0 + 1, len + n)
    BY <1>1, <1>2, <1>3, <1>4, <2>1, PutContents DEF n
  <2> QED BY <2>1, <2>2
<1>6. c \in Seq(Byte) /\ Len(c) = len
  BY ContentsFacts
<1> HIDE DEF c
<1>7. c \o data \in Seq(Byte) /\ Len(c \o data) = len + n
  BY <1>6, ConcatProperties DEF n
<1>8. SubSeq(c \o data, 1, len + n) = c \o data
  BY <1>7, SubSeqFull
<1> QED BY <1>2, <1>3, <1>5, <1>8 DEF w, n, c

\* A list of length zero, and one cut to its own length.
LEMMA OldestFacts ==
  ASSUME NEW S, NEW s \in Seq(S), NEW m \in Nat
  PROVE  /\ Oldest(s, m) \in Seq(S)
         /\ Len(Oldest(s, m)) = IF Len(s) < m THEN Len(s) ELSE m
         /\ \A i \in 1 .. Len(Oldest(s, m)) : Oldest(s, m)[i] = s[i]
         /\ Len(s) <= m => Oldest(s, m) = s
         /\ m = 0 => Oldest(s, m) = <<>>
<1> DEFINE h == IF Len(s) < m THEN Len(s) ELSE m
           o == SubSeq(s, 1, h)
<1>1. Len(s) \in Nat /\ h \in Nat /\ h <= Len(s)
  OBVIOUS
<1>2. Oldest(s, m) = o
  BY DEF Oldest
<1> HIDE DEF h
<1>3. /\ o \in Seq(S) /\ Len(o) = IF 1 <= h THEN h - 1 + 1 ELSE 0
      /\ \A i \in 1 .. h - 1 + 1 : o[i] = s[1 + i - 1]
  BY <1>1, SubSeqFacts
<1>4. Len(o) = h /\ \A i \in 1 .. h : o[i] = s[i]
  BY <1>1, <1>3
<1>5. h = Len(s) => o = s
  BY SubSeqFull
<1>6. h = 0 => o = <<>>
  BY <1>1, <1>3, <1>4, EmptySeq
<1> QED BY <1>1, <1>2, <1>3, <1>4, <1>5, <1>6 DEF h

\* rt_ringbuffer_put: what fits is put behind what is there.
LEMMA PutActs ==
  ASSUME NEW Byte, NEW rb, Valid(rb, Byte), NEW data \in Seq(Byte)
  PROVE  /\ Valid(RingPut(rb, data), Byte)
         /\ Contents(RingPut(rb, data))
              = Contents(rb) \o Oldest(data, RbSize - Len(Contents(rb)))
<1> DEFINE len == DataLen(rb)
           c == Contents(rb)
           fits == Oldest(data, RbSize - len)
<1>1. /\ rb \in Ring(Byte) /\ len \in 0 .. RbSize /\ Holds(rb, len)
      /\ RbSize \in Nat /\ RbSize > 0 /\ Len(data) \in Nat
  BY ValidLen, RingAssumption DEF Valid
<1> HIDE DEF len
<1>2. c \in Seq(Byte) /\ Len(c) = len
  BY <1>1, ContentsFacts
<1> HIDE DEF c
<1>3. RbSize - len \in Nat
  BY <1>1
<1>4. /\ fits \in Seq(Byte) /\ len + Len(fits) \in 0 .. RbSize
      /\ Len(data) <= RbSize - len => fits = data
      /\ RbSize - len = 0 => fits = <<>>
  BY <1>1, <1>3, OldestFacts
<1>5. CASE RbSize - len = 0
  <2>1. RingPut(rb, data) = rb
    BY <1>5 DEF RingPut, SpaceLen, len
  <2>2. c \o <<>> = c
    BY <1>2
  <2> QED BY <1>2, <1>4, <1>5, <2>1, <2>2 DEF c
<1>6. CASE RbSize - len # 0
  <2>1. RingPut(rb, data) = Written(rb, fits)
    <3>1. RingPut(rb, data)
            = Written(rb, IF RbSize - len < Len(data)
                          THEN SubSeq(data, 1, RbSize - len) ELSE data)
      BY <1>6 DEF RingPut, SpaceLen, len
    <3>2. fits = IF RbSize - len < Len(data)
                 THEN SubSeq(data, 1, RbSize - len) ELSE data
      <4>1. CASE RbSize - len < Len(data)
        BY <1>1, <1>3, <4>1 DEF Oldest
      <4>2. CASE ~(RbSize - len < Len(data))
        BY <1>1, <1>3, <1>4, <4>2
      <4> QED BY <4>1, <4>2
    <3> QED BY <3>1, <3>2
  <2> HIDE DEF fits
  <2>2. /\ Written(rb, fits) \in Ring(Byte) /\ Holds(Written(rb, fits), len + Len(fits))
        /\ Contents(Written(rb, fits)) = c \o fits
    BY <1>1, <1>4, PutFits DEF c
  <2> QED BY <1>2, <1>4, <2>1, <2>2 DEF Valid, c, fits
<1> QED BY <1>5, <1>6

\* What does not fit pushes the oldest bytes out, and the buffer is full.
LEMMA PutOverflows ==
  ASSUME NEW Byte, NEW rb \in Ring(Byte), NEW len \in 0 .. RbSize, Holds(rb, len),
         NEW data \in Seq(Byte), Len(data) <= RbSize, len + Len(data) > RbSize,
         NEW r \in Ring(Byte), r.buf = Stored(rb, data),
         r.wi = Behind(rb.wi, Len(data)), r.ri = r.wi,
         r.wm = IF rb.wi + Len(data) < RbSize THEN rb.wm ELSE ~rb.wm,
         r.rm = IF RbSize - rb.wi <= Len(data) /\ r.wi <= rb.ri THEN ~rb.rm ELSE rb.rm
  PROVE  /\ Holds(r, RbSize)
         /\ Contents(r) = SubSeq(Contents(rb) \o data, len + Len(data) - RbSize + 1,
                                 len + Len(data))
<1> DEFINE n == Len(data)
           d == len + n - RbSize
<1>1. /\ RbSize \in Nat /\ RbSize > 0 /\ n \in Nat /\ len \in Nat
      /\ n <= RbSize /\ len <= RbSize /\ d \in 0 .. len /\ d \in 0 .. RbSize
      /\ len + n - d = RbSize /\ n \in 0 .. RbSize
      /\ rb.ri \in 0 .. RbSize - 1 /\ rb.wi \in 0 .. RbSize - 1
      /\ rb.rm \in BOOLEAN /\ rb.wm \in BOOLEAN
      /\ r.ri \in 0 .. RbSize - 1 /\ r.rm \in BOOLEAN /\ r.wm \in BOOLEAN
  BY RingAssumption DEF Ring, RingIndex
<1>2. /\ rb.wi = Behind(rb.ri, len)
      /\ rb.wm = IF rb.ri + len < RbSize THEN rb.rm ELSE ~rb.rm
  BY DEF Holds
<1>3. r.ri = Behind(rb.ri, d)
  <2>1. d = len + n \/ d = len + n - RbSize
    OBVIOUS
  <2> HIDE DEF d, n
  <2>2. Behind(Behind(rb.ri, len), n) = Behind(rb.ri, d)
    BY <1>1, <2>1, BehindFacts
  <2> QED BY <1>2, <2>2 DEF n
<1> HIDE DEF n
<1>4. r.wi = Behind(rb.wi, n)
  BY DEF n
<1>5. r.wi = Behind(r.ri, RbSize)
  BY <1>1 DEF Behind
<1>6. r.wm = ~r.rm
  <2> DEFINE x == rb.ri
             y == rb.wi
             z == r.wi
  <2>3. /\ x \in Nat /\ y \in Nat /\ z \in Nat
        /\ y = IF x + len < RbSize THEN x + len ELSE x + len - RbSize
        /\ z = IF y + n < RbSize THEN y + n ELSE y + n - RbSize
        /\ len + n > RbSize
    BY <1>1, <1>2, <1>4 DEF Behind, n
  <2> HIDE DEF x, y, z
  <2>4. ~(y + n < RbSize) <=> RbSize - y <= n
    BY <1>1, <2>3
  <2>5. x + len < RbSize => ~(y + n < RbSize) /\ ~(z <= x)
    BY <1>1, <2>3
  <2>6. ~(x + len < RbSize) /\ ~(y + n < RbSize) => z <= x
    BY <1>1, <2>3
  <2>1. /\ ~(rb.wi + n < RbSize) <=> RbSize - rb.wi <= n
        /\ rb.ri + len < RbSize => ~(rb.wi + n < RbSize) /\ ~(r.wi <= rb.ri)
        /\ ~(rb.ri + len < RbSize) /\ ~(rb.wi + n < RbSize) => r.wi <= rb.ri
    BY <2>4, <2>5, <2>6 DEF x, y, z
  <2>2. /\ r.wm = IF rb.wi + n < RbSize THEN rb.wm ELSE ~rb.wm
        /\ r.rm = IF RbSize - rb.wi <= n /\ r.wi <= rb.ri THEN ~rb.rm ELSE rb.rm
    BY DEF n
  <2> QED BY <1>1, <1>2, <2>1, <2>2, Zenon
<1>7. Holds(r, RbSize)
  <2>1. ~(r.ri + RbSize < RbSize)
    BY <1>1
  <2> QED BY <1>5, <1>6, <2>1 DEF Holds
<1>8. /\ len + Len(data) - d \in 0 .. RbSize
      /\ Holds(r, len + Len(data) - d) /\ Len(data) <= RbSize
  BY <1>1, <1>7 DEF n
<1> HIDE DEF d
<1>9. Contents(r) = SubSeq(Contents(rb) \o data, d + 1, len + Len(data))
  BY <1>1, <1>3, <1>8, PutContents
<1> QED BY <1>7, <1>9 DEF d, n

\* The last m entries of a list.
LEMMA NewestFacts ==
  ASSUME NEW S, NEW s \in Seq(S), NEW m \in Nat
  PROVE  /\ Newest(s, m) \in Seq(S)
         /\ Len(Newest(s, m)) = IF Len(s) < m THEN Len(s) ELSE m
         /\ \A i \in 1 .. Len(Newest(s, m)) :
              Newest(s, m)[i] = s[Len(s) - Len(Newest(s, m)) + i]
         /\ Len(s) <= m => Newest(s, m) = s
<1> DEFINE f == IF Len(s) < m THEN 1 ELSE Len(s) - m + 1
           o == SubSeq(s, f, Len(s))
<1>1. Len(s) \in Nat /\ f \in Nat /\ 1 <= f
  OBVIOUS
<1>2. Newest(s, m) = o
  BY DEF Newest
<1>3. Len(s) - f + 1 = IF Len(s) < m THEN Len(s) ELSE m
  OBVIOUS
<1>4. Len(s) <= m => f = 1
  OBVIOUS
<1> HIDE DEF f
<1>5. /\ o \in Seq(S) /\ Len(o) = IF f <= Len(s) THEN Len(s) - f + 1 ELSE 0
      /\ \A i \in 1 .. Len(s) - f + 1 : o[i] = s[f + i - 1]
  BY <1>1, SubSeqFacts
<1>6. /\ Len(o) = Len(s) - f + 1
      /\ \A i \in 1 .. Len(o) : o[i] = s[Len(s) - Len(o) + i]
  <2>1. Len(o) = Len(s) - f + 1
    BY <1>1, <1>3, <1>5
  <2>2. ASSUME NEW i \in 1 .. Len(o) PROVE o[i] = s[Len(s) - Len(o) + i]
    <3> DEFINE a == f + i - 1
               b == Len(s) - Len(o) + i
    <3>3. i \in 1 .. Len(s) - f + 1 /\ i \in Int /\ Len(o) \in Int
      BY <1>1, <2>1
    <3>4. o[i] = s[a]
      BY <1>5, <3>3
    <3>5. a = b
      BY <1>1, <2>1, <3>3
    <3>1. o[i] = s[a] /\ a = b
      BY <3>4, <3>5
    <3> HIDE DEF a, b
    <3>2. o[i] = s[b]
      BY <3>1
    <3> QED BY <3>2 DEF b
  <2> QED BY <2>1, <2>2
<1>7. f = 1 => o = s
  BY SubSeqFull
<1> QED BY <1>2, <1>3, <1>4, <1>5, <1>6, <1>7

\* Giving up the oldest of what is added, and then of the whole, keeps the
\* newest of the whole.
LEMMA NewestTwice ==
  ASSUME NEW S, NEW c \in Seq(S), NEW data \in Seq(S), NEW m \in Nat
  PROVE  Newest(c \o Newest(data, m), m) = Newest(c \o data, m)
<1> DEFINE kept == Newest(data, m)
           x == Newest(c \o kept, m)
           y == Newest(c \o data, m)
           len == Len(c)
           n == Len(data)
<1>1. len \in Nat /\ n \in Nat
  OBVIOUS
<1>2. /\ kept \in Seq(S) /\ Len(kept) = IF n < m THEN n ELSE m
      /\ \A i \in 1 .. Len(kept) : kept[i] = data[n - Len(kept) + i]
      /\ n <= m => kept = data
  BY NewestFacts
<1> HIDE DEF kept
<1>3. /\ c \o kept \in Seq(S) /\ Len(c \o kept) = len + Len(kept)
      /\ \A i \in 1 .. len + Len(kept) :
            (c \o kept)[i] = IF i <= len THEN c[i] ELSE kept[i - len]
  BY <1>2, ConcatProperties
<1>4. /\ c \o data \in Seq(S) /\ Len(c \o data) = len + n
      /\ \A i \in 1 .. len + n : (c \o data)[i] = IF i <= len THEN c[i] ELSE data[i - len]
  BY ConcatProperties
<1> HIDE DEF len, n
<1>5. CASE n <= m
  <2>1. kept = data
    BY <1>2, <1>5
  <2> QED BY <2>1 DEF kept
<1>6. CASE ~(n <= m)
  <2>1. Len(kept) = m /\ n > m
    BY <1>1, <1>2, <1>6
  <2>2. /\ x \in Seq(S) /\ Len(x) = m
        /\ \A i \in 1 .. m : x[i] = (c \o kept)[len + i]
    <3> DEFINE all == c \o kept
               l == Len(all)
               z == Newest(all, m)
    <3>1. all \in Seq(S) /\ l = len + m /\ ~(l < m) /\ l - m = len
      BY <1>1, <1>3, <2>1
    <3> HIDE DEF all, len
    <3>2. /\ z \in Seq(S) /\ Len(z) = IF l < m THEN l ELSE m
          /\ \A i \in 1 .. Len(z) : z[i] = all[l - Len(z) + i]
      BY <3>1, NewestFacts
    <3> HIDE DEF z, l
    <3>3. /\ z \in Seq(S) /\ Len(z) = m
          /\ \A i \in 1 .. m : z[i] = all[l - m + i]
      BY <3>1, <3>2
    <3>4. /\ z \in Seq(S) /\ Len(z) = m
          /\ \A i \in 1 .. m : z[i] = all[len + i]
      BY <3>1, <3>3
    <3> QED BY <3>4 DEF all, z, x
  <2>3. /\ y \in Seq(S) /\ Len(y) = m
        /\ \A i \in 1 .. m : y[i] = (c \o data)[len + n - m + i]
    <3> DEFINE all == c \o data
               l == Len(all)
               z == Newest(all, m)
    <3>1. all \in Seq(S) /\ l = len + n /\ ~(l < m)
      BY <1>1, <1>4, <2>1
    <3> HIDE DEF all, len
    <3>2. /\ z \in Seq(S) /\ Len(z) = IF l < m THEN l ELSE m
          /\ \A i \in 1 .. Len(z) : z[i] = all[l - Len(z) + i]
      BY <3>1, NewestFacts
    <3> HIDE DEF z, l
    <3>3. /\ z \in Seq(S) /\ Len(z) = m
          /\ \A i \in 1 .. m : z[i] = all[l - m + i]
      BY <3>1, <3>2
    <3>4. ASSUME NEW i \in 1 .. m PROVE z[i] = all[len + n - m + i]
      <4> DEFINE a == l - m + i
                 b == len + n - m + i
      <4>1. a = b
        BY <1>1, <3>1
      <4>2. z[i] = all[a]
        BY <3>3
      <4> HIDE DEF a, b
      <4>3. z[i] = all[b]
        BY <4>1, <4>2
      <4> QED BY <4>3 DEF b
    <3> QED BY <3>3, <3>4 DEF all, z, y
  <2> HIDE DEF x, y
  <2>4. ASSUME NEW i \in 1 .. m PROVE x[i] = y[i]
    <3> DEFINE a == len + i
               b == len + n - m + i
               e == n - m + i
    <3>1. /\ a \in 1 .. len + m /\ ~(a <= len) /\ a - len = i
          /\ b \in 1 .. len + n /\ ~(b <= len) /\ b - len = e
      BY <1>1, <2>1
    <3>2. x[i] = (c \o kept)[a] /\ y[i] = (c \o data)[b]
      BY <2>2, <2>3
    <3>3. kept[i] = data[e]
      <4>1. \A j \in 1 .. m : kept[j] = data[n - m + j]
        BY <1>2, <2>1
      <4> QED BY <4>1
    <3> HIDE DEF a, b, e
    <3>4. (c \o kept)[a] = kept[i]
      BY <1>3, <2>1, <3>1
    <3>5. (c \o data)[b] = data[e]
      BY <1>4, <3>1
    <3> QED BY <3>2, <3>3, <3>4, <3>5
  <2>5. x = y
    BY <2>2, <2>3, <2>4, SeqEqual
  <2> QED BY <2>5 DEF x, y, kept
<1> QED BY <1>5, <1>6

\* rt_ringbuffer_put_force: of what was there and what is put, the last bytes.
LEMMA PutForceActs ==
  ASSUME NEW Byte, NEW rb, Valid(rb, Byte), NEW data \in Seq(Byte)
  PROVE  /\ Valid(RingPutForce(rb, data), Byte)
         /\ Contents(RingPutForce(rb, data)) = Newest(Contents(rb) \o data, RbSize)
<1> DEFINE len == DataLen(rb)
           c == Contents(rb)
           n == Len(data)
           kept == IF n > RbSize THEN SubSeq(data, n - RbSize + 1, n) ELSE data
           w == Written(rb, kept)
           rm == IF RbSize - rb.wi <= Len(kept) /\ w.wi <= rb.ri THEN ~rb.rm ELSE rb.rm
           f == [w EXCEPT !.ri = w.wi, !.rm = rm]
<1>1. /\ rb \in Ring(Byte) /\ len \in 0 .. RbSize /\ Holds(rb, len)
      /\ RbSize \in Nat /\ RbSize > 0 /\ n \in Nat
  BY ValidLen, RingAssumption DEF Valid
<1>2. RingPutForce(rb, data) = IF Len(kept) > RbSize - len THEN f ELSE w
  BY DEF RingPutForce, SpaceLen
<1> HIDE DEF len
<1>3. c \in Seq(Byte) /\ Len(c) = len
  BY <1>1, ContentsFacts
<1> HIDE DEF c
<1>4. kept = Newest(data, RbSize)
  <2>1. CASE n > RbSize
    <3>1. ~(n < RbSize)
      BY <1>1, <2>1
    <3> QED BY <2>1, <3>1 DEF Newest
  <2>2. CASE ~(n > RbSize)
    <3>1. Newest(data, RbSize) = data
      BY <1>1, <2>2, NewestFacts
    <3> QED BY <2>2, <3>1
  <2> QED BY <2>1, <2>2
<1>5. /\ kept \in Seq(Byte) /\ Len(kept) \in Nat /\ Len(kept) <= RbSize
  <2> HIDE DEF kept, n
  <2>1. kept \in Seq(Byte) /\ Len(kept) = IF n < RbSize THEN n ELSE RbSize
    BY <1>1, <1>4, NewestFacts DEF n
  <2> QED BY <1>1, <2>1
<1> HIDE DEF kept, n
<1>6. /\ w \in Ring(Byte) /\ w.buf = Stored(rb, kept) /\ w.ri = rb.ri /\ w.rm = rb.rm
      /\ w.wi = Behind(rb.wi, Len(kept))
      /\ w.wm = IF rb.wi + Len(kept) < RbSize THEN rb.wm ELSE ~rb.wm
  BY <1>1, <1>5, WrittenFacts
<1>7. c \o kept \in Seq(Byte) /\ Len(c \o kept) = len + Len(kept)
  BY <1>3, <1>5, ConcatProperties
<1>8. Newest(c \o kept, RbSize) = Newest(c \o data, RbSize)
  BY <1>1, <1>3, <1>4, NewestTwice
<1>9. CASE Len(kept) > RbSize - len
  <2>1. RingPutForce(rb, data) = f
    BY <1>2, <1>9
  <2>2. /\ f \in Ring(Byte) /\ f.buf = w.buf /\ f.wi = w.wi /\ f.ri = w.wi
        /\ f.wm = w.wm /\ f.rm = rm
    <3>1. rm \in BOOLEAN
      BY <1>1 DEF Ring
    <3> HIDE DEF rm, w
    <3> QED BY <1>6, <3>1 DEF Ring
  <2>3. /\ f.buf = Stored(rb, kept) /\ f.wi = Behind(rb.wi, Len(kept)) /\ f.ri = f.wi
        /\ f.wm = IF rb.wi + Len(kept) < RbSize THEN rb.wm ELSE ~rb.wm
        /\ f.rm = IF RbSize - rb.wi <= Len(kept) /\ f.wi <= rb.ri THEN ~rb.rm ELSE rb.rm
    <3> HIDE DEF f, w
    <3> QED BY <1>6, <2>2
  <2> HIDE DEF f, w, rm
  <2>4. len + Len(kept) > RbSize
    BY <1>1, <1>5, <1>9
  <2>5. /\ Holds(f, RbSize)
        /\ Contents(f) = SubSeq(c \o kept, len + Len(kept) - RbSize + 1, len + Len(kept))
    BY <1>1, <1>5, <2>2, <2>3, <2>4, PutOverflows DEF c
  <2>6. Valid(f, Byte)
    <3>1. RbSize \in 0 .. RbSize
      BY <1>1
    <3> QED BY <2>2, <2>5, <3>1 DEF Valid
  <2>7. Contents(f) = Newest(c \o kept, RbSize)
    <3> DEFINE l == Len(c \o kept)
    <3>1. ~(l < RbSize) /\ l = len + Len(kept)
      BY <1>1, <1>5, <1>7, <2>4
    <3>2. Newest(c \o kept, RbSize)
            = SubSeq(c \o kept, IF l < RbSize THEN 1 ELSE l - RbSize + 1, l)
      BY DEF Newest
    <3> HIDE DEF l
    <3>3. Newest(c \o kept, RbSize) = SubSeq(c \o kept, l - RbSize + 1, l)
      BY <3>1, <3>2
    <3> DEFINE a == l - RbSize + 1
               b == len + Len(kept) - RbSize + 1
               e == len + Len(kept)
    <3>4. a = b /\ l = e
      BY <1>1, <1>5, <3>1
    <3>5. Contents(f) = SubSeq(c \o kept, b, e)
      BY <2>5
    <3>6. Newest(c \o kept, RbSize) = SubSeq(c \o kept, a, l)
      BY <3>3
    <3> HIDE DEF a, b, e
    <3> QED BY <3>4, <3>5, <3>6
  <2> QED BY <1>8, <2>1, <2>6, <2>7 DEF c
<1>10. CASE ~(Len(kept) > RbSize - len)
  <2>1. RingPutForce(rb, data) = w
    BY <1>2, <1>10
  <2>2. len + Len(kept) <= RbSize /\ len + Len(kept) \in 0 .. RbSize
    BY <1>1, <1>5, <1>10
  <2>3. /\ Holds(w, len + Len(kept)) /\ Contents(w) = c \o kept
    BY <1>1, <1>5, <2>2, PutFits DEF c
  <2>4. Newest(c \o kept, RbSize) = c \o kept
    <3>1. c \o kept \in Seq(Byte) /\ Len(c \o kept) <= RbSize /\ RbSize \in Nat
      BY <1>1, <1>7, <2>2
    <3> QED BY <3>1, NewestFacts
  <2> QED BY <1>6, <1>8, <2>1, <2>2, <2>3, <2>4 DEF Valid, c
<1> QED BY <1>9, <1>10

-----------------------------------------------------------------------------
(* Reading *)

\* The first len entries of a list of which more is known.
LEMMA RestFacts ==
  ASSUME NEW S, NEW s \in Seq(S), NEW m \in 0 .. Len(s)
  PROVE  LET t == SubSeq(s, m + 1, Len(s))
         IN  /\ t \in Seq(S) /\ Len(t) = Len(s) - m
             /\ \A i \in 1 .. Len(s) - m : t[i] = s[m + i]
<1> DEFINE f == m + 1
           t == SubSeq(s, f, Len(s))
<1>1. Len(s) \in Nat /\ m \in Nat /\ m <= Len(s) /\ f \in Nat /\ 1 <= f
  OBVIOUS
<1>2. /\ Len(s) - f + 1 = Len(s) - m
      /\ (IF f <= Len(s) THEN Len(s) - f + 1 ELSE 0) = Len(s) - m
  BY <1>1
<1> HIDE DEF f
<1>3. /\ t \in Seq(S) /\ Len(t) = IF f <= Len(s) THEN Len(s) - f + 1 ELSE 0
      /\ \A i \in 1 .. Len(s) - f + 1 : t[i] = s[f + i - 1]
  BY <1>1, SubSeqFacts
<1>4. /\ t \in Seq(S) /\ Len(t) = Len(s) - m
      /\ \A i \in 1 .. Len(s) - m : t[i] = s[f + i - 1]
  BY <1>2, <1>3
<1> HIDE DEF t
<1>5. ASSUME NEW i \in 1 .. Len(s) - m PROVE t[i] = s[m + i]
  <2> DEFINE a == f + i - 1
             b == m + i
  <2>1. a = b
    BY <1>1 DEF f
  <2>2. t[i] = s[a]
    BY <1>4
  <2> HIDE DEF a, b
  <2>3. t[i] = s[b]
    BY <2>1, <2>2
  <2> QED BY <2>3 DEF b
<1> QED BY <1>4, <1>5 DEF t, f

\* A read of n bytes moves the read index on by n and leaves the rest.
LEMMA SkippedFacts ==
  ASSUME NEW Byte, NEW rb \in Ring(Byte), NEW len \in 0 .. RbSize, Holds(rb, len),
         NEW n \in 0 .. len
  PROVE  LET r == Skipped(rb, n)
         IN  /\ r \in Ring(Byte) /\ Holds(r, len - n)
             /\ Contents(r) = SubSeq(Contents(rb), n + 1, len)
<1> DEFINE r == Skipped(rb, n)
           c == Contents(rb)
<1>1. /\ RbSize \in Nat /\ RbSize > 0 /\ n \in Nat /\ len \in Nat
      /\ n <= len /\ len <= RbSize /\ n \in 0 .. RbSize /\ len - n \in 0 .. RbSize
      /\ rb.ri \in 0 .. RbSize - 1 /\ rb.wi \in 0 .. RbSize - 1
      /\ rb.rm \in BOOLEAN /\ rb.wm \in BOOLEAN
  BY RingAssumption DEF Ring, RingIndex
<1>2. /\ rb.wi = Behind(rb.ri, len)
      /\ rb.wm = IF rb.ri + len < RbSize THEN rb.rm ELSE ~rb.rm
  BY DEF Holds
<1>3. /\ r \in Ring(Byte) /\ r.buf = rb.buf /\ r.wi = rb.wi /\ r.wm = rb.wm
      /\ r.ri = Behind(rb.ri, n)
      /\ r.rm = IF rb.ri + n < RbSize THEN rb.rm ELSE ~rb.rm
  <2>1. CASE RbSize - rb.ri > n
    <3>1. rb.ri + n \in RingIndex /\ rb.ri + n < RbSize
      BY <1>1, <2>1 DEF RingIndex
    <3>2. r = [rb EXCEPT !.ri = rb.ri + n]
      BY <2>1 DEF Skipped
    <3> HIDE DEF r
    <3>3. r \in Ring(Byte) /\ r.buf = rb.buf /\ r.wi = rb.wi /\ r.wm = rb.wm
          /\ r.ri = rb.ri + n /\ r.rm = rb.rm
      BY <3>1, <3>2 DEF Ring
    <3> QED BY <3>1, <3>3 DEF Behind
  <2>2. CASE ~(RbSize - rb.ri > n)
    <3>1. /\ n - (RbSize - rb.ri) \in RingIndex /\ ~(rb.ri + n < RbSize)
          /\ n - (RbSize - rb.ri) = rb.ri + n - RbSize
      BY <1>1, <2>2 DEF RingIndex
    <3>2. r = [rb EXCEPT !.ri = n - (RbSize - rb.ri), !.rm = ~rb.rm]
      BY <2>2 DEF Skipped
    <3> HIDE DEF r
    <3>3. r \in Ring(Byte) /\ r.buf = rb.buf /\ r.wi = rb.wi /\ r.wm = rb.wm
          /\ r.ri = n - (RbSize - rb.ri) /\ r.rm = ~rb.rm
      BY <1>1, <3>1, <3>2 DEF Ring
    <3> QED BY <3>1, <3>3 DEF Behind
  <2> QED BY <2>1, <2>2
<1> HIDE DEF r
<1>4. Holds(r, len - n)
  <2> DEFINE m == len - n
  <2>1. len = n + m \/ len = n + m - RbSize
    BY <1>1
  <2>2. m \in 0 .. RbSize
    BY <1>1
  <2>3. r.ri + m < RbSize <=> (rb.ri + len < RbSize <=> rb.ri + n < RbSize)
    BY <1>1, <1>3 DEF Behind
  <2> HIDE DEF m
  <2>4. Behind(Behind(rb.ri, n), m) = Behind(rb.ri, len)
    BY <1>1, <2>1, <2>2, BehindFacts
  <2>5. r.wm = IF r.ri + m < RbSize THEN r.rm ELSE ~r.rm
    BY <1>1, <1>2, <1>3, <2>3, Zenon
  <2>6. Holds(r, m)
    BY <1>2, <1>3, <2>4, <2>5 DEF Holds
  <2> QED BY <2>6 DEF m
<1>5. /\ c \in Seq(Byte) /\ Len(c) = len
      /\ \A i \in 1 .. len : c[i] = rb.buf[Behind(rb.ri, i - 1)]
  BY ContentsFacts
<1> HIDE DEF c
<1> DEFINE t == SubSeq(c, n + 1, len)
<1>6. /\ t \in Seq(Byte) /\ Len(t) = len - n
      /\ \A i \in 1 .. len - n : t[i] = c[n + i]
  BY <1>1, <1>5, RestFacts
<1> HIDE DEF t
<1>7. ASSUME NEW i \in 1 .. len - n
      PROVE  r.buf[Behind(r.ri, i - 1)] = t[i]
  <2> DEFINE x == i - 1
             y == n + i
             z == y - 1
  <2>0. i \in Int /\ 1 <= i /\ i <= len - n /\ n \in Int /\ 0 <= n
        /\ len \in Int /\ len <= RbSize /\ RbSize \in Int
    BY <1>1
  <2>1. /\ x \in 0 .. RbSize /\ z \in 0 .. RbSize /\ z = n + x
        /\ y \in 1 .. len /\ t[i] = c[y]
    <3>1. x \in 0 .. RbSize /\ z \in 0 .. RbSize /\ z = n + x /\ y \in 1 .. len
      BY <2>0
    <3> QED BY <1>6, <3>1
  <2>2. c[y] = rb.buf[Behind(rb.ri, z)]
    BY <1>5, <2>1
  <2> HIDE DEF x, y, z
  <2>3. Behind(Behind(rb.ri, n), x) = Behind(rb.ri, z)
    BY <1>1, <2>1, BehindFacts
  <2> QED BY <1>3, <2>1, <2>2, <2>3 DEF x
<1>8. Contents(r) = t
  BY <1>1, <1>3, <1>4, <1>6, <1>7, ContentsAre
<1> QED BY <1>3, <1>4, <1>8 DEF r, c, t

\* Less than everything, or everything: the end of a list that Rest leaves.
LEMMA OldestRest ==
  ASSUME NEW S, NEW s \in Seq(S), NEW m \in Nat
  PROVE  LET h == IF Len(s) < m THEN Len(s) ELSE m
         IN  /\ h \in 0 .. Len(s)
             /\ Oldest(s, m) = SubSeq(s, 1, h)
             /\ Rest(s, m) = SubSeq(s, h + 1, Len(s))
<1> DEFINE h == IF Len(s) < m THEN Len(s) ELSE m
<1>1. h \in 0 .. Len(s)
  OBVIOUS
<1>2. Oldest(s, m) = SubSeq(s, 1, h)
  BY DEF Oldest
<1>3. Len(Oldest(s, m)) = h
  BY OldestFacts
<1>4. Rest(s, m) = SubSeq(s, Len(Oldest(s, m)) + 1, Len(s))
  BY DEF Rest
<1> HIDE DEF h
<1>5. Rest(s, m) = SubSeq(s, h + 1, Len(s))
  BY <1>3, <1>4
<1> QED BY <1>1, <1>2, <1>5 DEF h

\* A copy of the first bytes is the oldest of the contents.
LEMMA CopyIsOldest ==
  ASSUME NEW Byte, NEW rb \in Ring(Byte), NEW len \in 0 .. RbSize, Holds(rb, len),
         NEW h \in 0 .. len
  PROVE  RingCopy(rb, h) = SubSeq(Contents(rb), 1, h)
<1> DEFINE c == Contents(rb)
           g == RingCopy(rb, h)
           o == SubSeq(c, 1, h)
<1>1. /\ RbSize \in Nat /\ len \in Nat /\ h \in Nat /\ h <= len /\ h \in 0 .. RbSize
  BY RingAssumption
<1>2. /\ c \in Seq(Byte) /\ Len(c) = len
      /\ \A i \in 1 .. len : c[i] = rb.buf[Behind(rb.ri, i - 1)]
  BY ContentsFacts
<1>3. /\ g \in Seq(Byte) /\ Len(g) = h
      /\ \A i \in 1 .. h : g[i] = rb.buf[Behind(rb.ri, i - 1)]
  BY <1>1, CopyFacts
<1> HIDE DEF c, g
<1>4. /\ o \in Seq(Byte) /\ Len(o) = IF 1 <= h THEN h - 1 + 1 ELSE 0
      /\ \A i \in 1 .. h - 1 + 1 : o[i] = c[1 + i - 1]
  BY <1>1, <1>2, SubSeqFacts
<1> HIDE DEF o
<1>5. Len(o) = h /\ \A i \in 1 .. h : o[i] = c[i]
  BY <1>1, <1>4
<1>6. \A i \in 1 .. h : g[i] = o[i]
  BY <1>1, <1>2, <1>3, <1>5
<1>7. g = o
  BY <1>3, <1>4, <1>5, <1>6, SeqEqual
<1> QED BY <1>7 DEF g, o, c

\* rt_ringbuffer_get: the oldest bytes are read, and the rest stays.
LEMMA GetActs ==
  ASSUME NEW Byte, NEW rb, Valid(rb, Byte), NEW n \in Nat
  PROVE  /\ Valid(RingGet(rb, n), Byte)
         /\ RingGot(rb, n) = Oldest(Contents(rb), n)
         /\ Contents(RingGet(rb, n)) = Rest(Contents(rb), n)
<1> DEFINE len == DataLen(rb)
           c == Contents(rb)
           h == IF len < n THEN len ELSE n
           r == Skipped(rb, h)
<1>1. /\ rb \in Ring(Byte) /\ len \in 0 .. RbSize /\ Holds(rb, len)
      /\ RbSize \in Nat /\ RbSize > 0
  BY ValidLen, RingAssumption DEF Valid
<1>2. RingGot(rb, n) = RingCopy(rb, h)
  BY DEF RingGot
<1>3. RingGet(rb, n) = IF len = 0 THEN rb ELSE Skipped(rb, Len(RingGot(rb, n)))
  BY DEF RingGet
<1> HIDE DEF len
<1>4. h \in 0 .. len /\ h \in 0 .. RbSize
  BY <1>1
<1>5. c \in Seq(Byte) /\ Len(c) = len
  BY <1>1, ContentsFacts
<1> HIDE DEF c
<1>6. /\ Oldest(c, n) = SubSeq(c, 1, h)
      /\ Rest(c, n) = SubSeq(c, h + 1, len)
  BY <1>5, OldestRest
<1> HIDE DEF h, r
<1>7. Len(RingCopy(rb, h)) = h
  BY <1>1, <1>4, CopyFacts
<1>8. RingCopy(rb, h) = SubSeq(c, 1, h)
  BY <1>1, <1>4, CopyIsOldest DEF c
<1>9. /\ r \in Ring(Byte) /\ Holds(r, len - h)
      /\ Contents(r) = SubSeq(c, h + 1, len)
  BY <1>1, <1>4, SkippedFacts DEF c, r
<1>10. len - h \in 0 .. RbSize
  BY <1>1, <1>4
<1>11. Valid(r, Byte)
  BY <1>9, <1>10 DEF Valid
<1>12. RingGet(rb, n) = IF len = 0 THEN rb ELSE r
  BY <1>2, <1>3, <1>7 DEF r
<1>13. CASE len = 0
  <2>1. c = <<>> /\ RingGet(rb, n) = rb
    BY <1>5, <1>12, <1>13, EmptySeq
  <2>2. Contents(RingGet(rb, n)) = c
    BY <2>1 DEF c
  <2>3. h = 0 /\ SubSeq(c, h + 1, len) = <<>>
    <3> DEFINE t == SubSeq(c, h + 1, len)
    <3>1. h = 0
      BY <1>4, <1>13
    <3>2. h \in 0 .. Len(c)
      BY <1>4, <1>5
    <3>3. t \in Seq(Byte) /\ Len(t) = len - h
      BY <1>5, <3>2, RestFacts
    <3> HIDE DEF t
    <3>4. t = <<>>
      BY <1>13, <3>1, <3>3, EmptySeq
    <3> QED BY <3>1, <3>4 DEF t
  <2> QED BY <1>2, <1>6, <1>8, <2>1, <2>2, <2>3 DEF c
<1>14. CASE len # 0
  BY <1>2, <1>6, <1>8, <1>9, <1>11, <1>12, <1>14 DEF c
<1> QED BY <1>13, <1>14

\* rt_ringbuffer_peek: it reads and consumes what is there up to the end of
\* the buffer, and that is something unless there is nothing.
LEMMA PeekActs ==
  ASSUME NEW Byte, NEW rb, Valid(rb, Byte)
  PROVE  /\ Valid(RingPeek(rb), Byte)
         /\ RingCopy(rb, PeekLen(rb)) = Oldest(Contents(rb), PeekLen(rb))
         /\ Contents(rb) # <<>> => PeekLen(rb) > 0
         /\ Contents(RingPeek(rb)) = Rest(Contents(rb), PeekLen(rb))
<1> DEFINE len == DataLen(rb)
           c == Contents(rb)
           h == PeekLen(rb)
<1>1. /\ rb \in Ring(Byte) /\ len \in 0 .. RbSize /\ Holds(rb, len)
      /\ RbSize \in Nat /\ RbSize > 0 /\ rb.ri \in 0 .. RbSize - 1
  <2>1. rb \in Ring(Byte) /\ len \in 0 .. RbSize /\ Holds(rb, len)
    BY ValidLen DEF Valid
  <2>2. RbSize \in Nat /\ RbSize > 0 /\ rb.ri \in 0 .. RbSize - 1
    BY <2>1, RingAssumption DEF Ring, RingIndex
  <2> QED BY <2>1, <2>2
<1>2. h = IF RbSize - rb.ri > len THEN len ELSE RbSize - rb.ri
  BY DEF PeekLen
<1>3. h \in 0 .. len /\ h \in Nat /\ ~(len < h) /\ (len # 0 => h > 0)
  <2> HIDE DEF h, len
  <2> QED BY <1>1, <1>2
<1>4. RingPeek(rb) = RingGet(rb, h)
  <2>1. RingGot(rb, h) = RingCopy(rb, h)
    BY <1>3 DEF RingGot
  <2>2. Len(RingCopy(rb, h)) = h
    <3>1. h \in 0 .. RbSize
      BY <1>1, <1>3
    <3> HIDE DEF h
    <3> QED BY <1>1, <3>1, CopyFacts
  <2>3. RingGet(rb, h) = IF len = 0 THEN rb ELSE Skipped(rb, h)
    BY <2>1, <2>2 DEF RingGet
  <2>4. RingPeek(rb) = IF len = 0 THEN rb
                       ELSE IF RbSize - rb.ri > len THEN [rb EXCEPT !.ri = rb.ri + h]
                       ELSE [rb EXCEPT !.ri = 0, !.rm = ~rb.rm]
    BY DEF RingPeek
  <2> HIDE DEF h, len
  <2>5. CASE RbSize - rb.ri > len
    <3>1. RbSize - rb.ri > h
      BY <1>2, <2>5
    <3> QED BY <2>3, <2>4, <2>5, <3>1 DEF Skipped
  <2>6. CASE ~(RbSize - rb.ri > len)
    <3>1. ~(RbSize - rb.ri > h) /\ h - (RbSize - rb.ri) = 0
      BY <1>1, <1>2, <2>6
    <3>2. Skipped(rb, h) = [rb EXCEPT !.ri = 0, !.rm = ~rb.rm]
      BY <3>1 DEF Skipped
    <3> QED BY <2>3, <2>4, <2>6, <3>2
  <2> QED BY <2>5, <2>6
<1>5. c \in Seq(Byte) /\ Len(c) = len
  BY <1>1, ContentsFacts
<1>6. RingCopy(rb, h) = RingGot(rb, h)
  BY <1>3 DEF RingGot
<1>7. /\ Valid(RingGet(rb, h), Byte)
      /\ RingGot(rb, h) = Oldest(c, h)
      /\ Contents(RingGet(rb, h)) = Rest(c, h)
  <2> HIDE DEF h
  <2> QED BY <1>3, GetActs DEF c
<1>8. c # <<>> => h > 0
  <2> HIDE DEF c, h, len
  <2>1. c # <<>> => len # 0
    BY <1>5, EmptySeq
  <2> QED BY <1>3, <2>1
<1> HIDE DEF h, c
<1>9. Contents(rb) = c /\ PeekLen(rb) = h
  BY DEF c, h
<1> QED BY <1>4, <1>6, <1>7, <1>8, <1>9

\* rt_ringbuffer_reset leaves nothing.
LEMMA ResetActs ==
  ASSUME NEW Byte, NEW rb, Valid(rb, Byte)
  PROVE  Valid(RingReset(rb), Byte) /\ Contents(RingReset(rb)) = <<>>
<1> DEFINE r == RingReset(rb)
<1>1. rb \in Ring(Byte) /\ RbSize \in Nat /\ RbSize > 0
  BY RingAssumption DEF Valid
<1>2. /\ r \in Ring(Byte) /\ r.ri = 0 /\ r.wi = 0 /\ r.rm = FALSE /\ r.wm = FALSE
  <2>1. 0 \in RingIndex /\ FALSE \in BOOLEAN
    BY <1>1 DEF RingIndex
  <2>2. r = [rb EXCEPT !.ri = 0, !.rm = FALSE, !.wi = 0, !.wm = FALSE]
    BY DEF RingReset
  <2> HIDE DEF r
  <2> QED BY <1>1, <2>1, <2>2 DEF Ring
<1> HIDE DEF r
<1>3. Holds(r, 0) /\ 0 \in 0 .. RbSize
  <2>1. Behind(0, 0) = 0 /\ 0 + 0 < RbSize /\ 0 \in 0 .. RbSize
    BY <1>1 DEF Behind
  <2>2. r.wi = Behind(r.ri, 0)
    BY <1>2, <2>1
  <2>3. r.ri + 0 < RbSize /\ r.wm = r.rm
    BY <1>2, <2>1
  <2> QED BY <2>1, <2>2, <2>3 DEF Holds
<1>4. Contents(r) \in Seq(Byte) /\ Len(Contents(r)) = 0
  BY <1>2, <1>3, ContentsFacts
<1>5. Contents(r) = <<>>
  BY <1>4, EmptySeq
<1> QED BY <1>2, <1>3, <1>5 DEF r, Valid

-----------------------------------------------------------------------------
(* One byte at a time *)

\* Every index is some steps on from v, none only if it is v itself.
LEMMA StepsTo ==
  ASSUME NEW v \in 0 .. RbSize - 1, NEW i \in 0 .. RbSize - 1, NEW j,
         j = IF i >= v THEN i - v + 1 ELSE i + RbSize - v + 1
  PROVE  j \in 1 .. RbSize /\ Behind(v, j - 1) = i /\ (j <= 1 <=> i = v)
<1>1. RbSize \in Nat
  BY RingAssumption
<1>2. CASE i >= v
  BY <1>1, <1>2 DEF Behind
<1>3. CASE ~(i >= v)
  BY <1>1, <1>3 DEF Behind
<1> QED BY <1>2, <1>3

\* What writing a byte makes of the buffer is what writing a list of one does.
LEMMA ByteIsWritten ==
  ASSUME NEW Byte, NEW rb \in Ring(Byte), NEW data \in Seq(Byte), Len(data) = 1
  PROVE  ByteWritten(rb, data[1]) = Written(rb, data)
<1> DEFINE st == Stored(rb, data)
           bw == [rb.buf EXCEPT ![rb.wi] = data[1]]
<1>1. /\ RbSize \in Nat /\ RbSize > 0 /\ rb.wi \in 0 .. RbSize - 1
      /\ rb.wi \in RingIndex /\ rb.buf \in [RingIndex -> Byte] /\ data[1] \in Byte
  <2>1. RbSize \in Nat /\ RbSize > 0 /\ rb.wi \in 0 .. RbSize - 1
    BY RingAssumption DEF Ring, RingIndex
  <2>2. rb.wi \in RingIndex /\ rb.buf \in [RingIndex -> Byte]
    BY DEF Ring
  <2>3. data[1] \in Byte
    BY ElementOfSeq
  <2> QED BY <2>1, <2>2, <2>3
<1>2. st = bw
  <2>1. /\ st \in [RingIndex -> Byte]
        /\ \A j \in 1 .. RbSize :
             /\ Behind(rb.wi, j - 1) \in RingIndex
             /\ st[Behind(rb.wi, j - 1)] =
                  IF j <= 1 THEN data[j] ELSE rb.buf[Behind(rb.wi, j - 1)]
    <3>1. Len(data) <= RbSize
      BY <1>1
    <3>2. /\ st \in [RingIndex -> Byte]
          /\ \A j \in 1 .. RbSize :
               /\ Behind(rb.wi, j - 1) \in RingIndex
               /\ st[Behind(rb.wi, j - 1)] =
                    IF j <= Len(data) THEN data[j] ELSE rb.buf[Behind(rb.wi, j - 1)]
      BY <3>1, StoredFacts
    <3> HIDE DEF st
    <3> QED BY <3>2
  <2>2. bw \in [RingIndex -> Byte]
    BY <1>1
  <2> HIDE DEF st
  <2>3. ASSUME NEW i \in RingIndex PROVE st[i] = bw[i]
    <3> DEFINE j == IF i >= rb.wi THEN i - rb.wi + 1 ELSE i + RbSize - rb.wi + 1
    <3>1. i \in 0 .. RbSize - 1
      BY DEF RingIndex
    <3>2. j \in 1 .. RbSize /\ Behind(rb.wi, j - 1) = i /\ (j <= 1 <=> i = rb.wi)
      <4>1. rb.wi \in 0 .. RbSize - 1 /\ j = IF i >= rb.wi THEN i - rb.wi + 1
                                             ELSE i + RbSize - rb.wi + 1
        BY <1>1
      <4> HIDE DEF j
      <4> QED BY <3>1, <4>1, StepsTo
    <3>3. j <= 1 => j = 1
      BY <3>2
    <3> HIDE DEF j
    <3>4. st[i] = IF j <= 1 THEN data[j] ELSE rb.buf[i]
      BY <2>1, <3>2
    <3> QED BY <1>1, <3>2, <3>3, <3>4
  <2> QED BY <2>1, <2>2, <2>3
<1>3. Written(rb, data) =
        IF RbSize - rb.wi > 1
        THEN [rb EXCEPT !.buf = st, !.wi = rb.wi + 1]
        ELSE [rb EXCEPT !.buf = st, !.wi = 1 - (RbSize - rb.wi), !.wm = ~rb.wm]
  BY DEF Written
<1>4. ByteWritten(rb, data[1]) =
        IF rb.wi = RbSize - 1
        THEN [rb EXCEPT !.buf = bw, !.wi = 0, !.wm = ~rb.wm]
        ELSE [rb EXCEPT !.buf = bw, !.wi = rb.wi + 1]
  BY DEF ByteWritten
<1> HIDE DEF st, bw
<1>5. CASE rb.wi = RbSize - 1
  <2>1. ~(RbSize - rb.wi > 1) /\ 1 - (RbSize - rb.wi) = 0
    BY <1>1, <1>5
  <2> QED BY <1>2, <1>3, <1>4, <1>5, <2>1
<1>6. CASE rb.wi # RbSize - 1
  <2>1. RbSize - rb.wi > 1
    BY <1>1, <1>6
  <2> QED BY <1>2, <1>3, <1>4, <1>6, <2>1
<1> QED BY <1>5, <1>6

\* rt_ringbuffer_putchar is a put of one byte.
LEMMA PutCharIsPut ==
  ASSUME NEW Byte, NEW rb, Valid(rb, Byte), NEW data \in Seq(Byte), Len(data) = 1
  PROVE  PutChar(rb, data[1]) = RingPut(rb, data)
<1>1. rb \in Ring(Byte) /\ DataLen(rb) \in 0 .. RbSize /\ RbSize \in Nat
  BY ValidLen, RingAssumption DEF Valid
<1>2. SpaceLen(rb) \in Nat
  BY <1>1 DEF SpaceLen
<1>3. CASE SpaceLen(rb) = 0
  BY <1>3 DEF PutChar, RingPut
<1>4. CASE SpaceLen(rb) # 0
  <2>1. ~(SpaceLen(rb) < Len(data))
    BY <1>2, <1>4
  <2>2. RingPut(rb, data) = Written(rb, data)
    BY <1>4, <2>1 DEF RingPut
  <2>3. PutChar(rb, data[1]) = ByteWritten(rb, data[1])
    BY <1>4 DEF PutChar
  <2> QED BY <1>1, <2>2, <2>3, ByteIsWritten
<1> QED BY <1>3, <1>4

\* rt_ringbuffer_putchar_force is a forced put of one byte.
LEMMA PutCharForceIsPutForce ==
  ASSUME NEW Byte, NEW rb, Valid(rb, Byte), NEW data \in Seq(Byte), Len(data) = 1
  PROVE  PutCharForce(rb, data[1]) = RingPutForce(rb, data)
<1> DEFINE len == DataLen(rb)
           w == Written(rb, data)
           wraps == RbSize - rb.wi <= 1
           f == [w EXCEPT !.ri = w.wi,
                          !.rm = IF wraps /\ w.wi <= rb.ri THEN ~rb.rm ELSE rb.rm]
           g == [w EXCEPT !.ri = w.wi, !.rm = IF w.wi = 0 THEN ~rb.rm ELSE rb.rm]
<1>1. /\ rb \in Ring(Byte) /\ len \in 0 .. RbSize /\ Holds(rb, len)
      /\ RbSize \in Nat /\ RbSize > 0
  <2>1. rb \in Ring(Byte) /\ len \in 0 .. RbSize /\ Holds(rb, len)
    BY ValidLen DEF Valid
  <2> QED BY <2>1, RingAssumption
<1>2. RingPutForce(rb, data) = IF 1 > RbSize - len THEN f ELSE w
  <2>1. (IF Len(data) > RbSize THEN SubSeq(data, Len(data) - RbSize + 1, Len(data))
         ELSE data) = data
    BY <1>1
  <2>2. RingPutForce(rb, data) =
          IF Len(data) > SpaceLen(rb)
          THEN [w EXCEPT !.ri = w.wi,
                         !.rm = IF RbSize - rb.wi <= Len(data) /\ w.wi <= rb.ri
                                THEN ~rb.rm ELSE rb.rm]
          ELSE w
    BY <2>1 DEF RingPutForce
  <2> QED BY <2>2 DEF SpaceLen
<1>3. PutCharForce(rb, data[1]) = IF Full(rb) THEN g ELSE w
  BY <1>1, ByteIsWritten DEF PutCharForce
<1>4. Full(rb) <=> len = RbSize
  <2>1. /\ rb.ri \in 0 .. RbSize - 1 /\ rb.rm \in BOOLEAN /\ rb.wm \in BOOLEAN
    BY <1>1 DEF Ring, RingIndex
  <2>2. ASSUME len = RbSize PROVE Full(rb)
    <3>1. rb.wi = rb.ri /\ ~(rb.ri + RbSize < RbSize)
      BY <1>1, <2>1, <2>2 DEF Holds, Behind
    <3>2. rb.wm = ~rb.rm
      BY <1>1, <2>2, <3>1 DEF Holds
    <3> QED BY <2>1, <3>1, <3>2 DEF Full
  <2>3. ASSUME Full(rb) PROVE len = RbSize
    BY <2>3 DEF DataLen, Empty, Full
  <2> QED BY <2>2, <2>3
<1>5. ASSUME Full(rb) PROVE f = g
  <2>1. /\ rb.ri = rb.wi /\ rb.wi \in 0 .. RbSize - 1
        /\ w.wi = Behind(rb.wi, 1)
    <3>1. Len(data) <= RbSize
      BY <1>1
    <3>2. w.wi = Behind(rb.wi, Len(data))
      BY <1>1, <3>1, WrittenIndex
    <3>3. rb.wi \in 0 .. RbSize - 1
      BY <1>1 DEF Ring, RingIndex
    <3> QED BY <1>5, <3>2, <3>3 DEF Full
  <2>2. wraps /\ w.wi <= rb.ri <=> w.wi = 0
    <3> HIDE DEF w
    <3> QED BY <1>1, <2>1 DEF Behind
  <2> HIDE DEF w, wraps
  <2> QED BY <2>2
<1> HIDE DEF len, f, g, w
<1>6. 1 > RbSize - len <=> len = RbSize
  BY <1>1
<1> QED BY <1>2, <1>3, <1>4, <1>5, <1>6

\* rt_ringbuffer_getchar is a get of one byte.
LEMMA GetCharIsGet ==
  ASSUME NEW Byte, NEW rb, Valid(rb, Byte)
  PROVE  GetChar(rb) = RingGet(rb, 1)
<1> DEFINE len == DataLen(rb)
<1>1. /\ rb \in Ring(Byte) /\ len \in 0 .. RbSize
      /\ RbSize \in Nat /\ RbSize > 0 /\ rb.ri \in 0 .. RbSize - 1
  <2>1. rb \in Ring(Byte) /\ len \in 0 .. RbSize
    BY ValidLen DEF Valid
  <2> QED BY <2>1, RingAssumption DEF Ring, RingIndex
<1>2. CASE len = 0
  BY <1>2 DEF GetChar, RingGet
<1>3. CASE len # 0
  <2>1. RingGot(rb, 1) = RingCopy(rb, 1)
    <3>1. ~(len < 1)
      BY <1>1, <1>3
    <3> QED BY <3>1 DEF RingGot
  <2>2. Len(RingCopy(rb, 1)) = 1
    <3>1. 1 \in 0 .. RbSize
      BY <1>1
    <3> QED BY <1>1, <3>1, CopyFacts
  <2>3. RingGet(rb, 1) = Skipped(rb, 1)
    BY <1>3, <2>1, <2>2 DEF RingGet
  <2>4. CASE rb.ri = RbSize - 1
    <3>1. ~(RbSize - rb.ri > 1) /\ 1 - (RbSize - rb.ri) = 0
      BY <1>1, <2>4
    <3>2. Skipped(rb, 1) = [rb EXCEPT !.ri = 0, !.rm = ~rb.rm]
      BY <3>1 DEF Skipped
    <3>3. GetChar(rb) = [rb EXCEPT !.rm = ~rb.rm, !.ri = 0]
      BY <1>3, <2>4 DEF GetChar
    <3>4. [rb EXCEPT !.ri = 0, !.rm = ~rb.rm] = [rb EXCEPT !.rm = ~rb.rm, !.ri = 0]
      BY <1>1 DEF Ring
    <3> QED BY <2>3, <3>2, <3>3, <3>4
  <2>5. CASE rb.ri # RbSize - 1
    <3>1. RbSize - rb.ri > 1
      BY <1>1, <2>5
    <3>2. Skipped(rb, 1) = [rb EXCEPT !.ri = rb.ri + 1]
      BY <3>1 DEF Skipped
    <3> QED BY <1>3, <2>3, <2>5, <3>2 DEF GetChar
  <2> QED BY <2>4, <2>5
<1> QED BY <1>2, <1>3

-----------------------------------------------------------------------------
(* The ring buffer is a queue of bytes *)

\* Of a list that is one byte too long at most, the newest or the oldest: what
\* fits of that byte is what is put.
LEMMA OldestOfBoth ==
  ASSUME NEW S, NEW c \in Seq(S), NEW data \in Seq(S), NEW m \in Nat,
         Len(c) <= m, Len(data) = 1
  PROVE  c \o Oldest(data, m - Len(c)) = Oldest(c \o data, m)
<1> DEFINE len == Len(c)
           all == c \o data
<1>1. len \in Nat /\ m - len \in Nat
  OBVIOUS
<1>2. /\ all \in Seq(S) /\ Len(all) = len + 1
      /\ \A i \in 1 .. len : all[i] = c[i]
  <2>1. /\ all \in Seq(S) /\ Len(all) = len + Len(data)
        /\ \A i \in 1 .. len + Len(data) :
              all[i] = IF i <= len THEN c[i] ELSE data[i - len]
    BY ConcatProperties
  <2> HIDE DEF all
  <2> QED BY <1>1, <2>1
<1>3. /\ Len(data) <= m - len => Oldest(data, m - len) = data
      /\ m - len = 0 => Oldest(data, m - len) = <<>>
  BY <1>1, OldestFacts
<1>4. /\ Oldest(all, m) \in Seq(S)
      /\ Len(Oldest(all, m)) = IF Len(all) < m THEN Len(all) ELSE m
      /\ \A i \in 1 .. Len(Oldest(all, m)) : Oldest(all, m)[i] = all[i]
      /\ Len(all) <= m => Oldest(all, m) = all
  <2> HIDE DEF all
  <2> QED BY <1>2, OldestFacts
<1>5. CASE len = m
  <2>1. Oldest(data, m - len) = <<>> /\ c \o <<>> = c
    BY <1>1, <1>3, <1>5
  <2> HIDE DEF all
  <2>2. Len(Oldest(all, m)) = len
    BY <1>1, <1>2, <1>4, <1>5
  <2>3. Oldest(all, m) = c
    BY <1>2, <1>4, <2>2, SeqEqual
  <2> QED BY <2>1, <2>3 DEF all
<1>6. CASE len # m
  <2>1. Len(data) <= m - len
    BY <1>1, <1>6
  <2>2. Len(all) <= m
    BY <1>1, <1>2, <1>6
  <2> QED BY <1>3, <1>4, <2>1, <2>2
<1> QED BY <1>5, <1>6

\* Every function of ringbuffer.c does to the contents of a valid ring buffer
\* what it does to a queue of bytes, whatever the size of the buffer, where
\* its indices are and how much is put or asked for.
THEOREM ActsAsQueueHolds ==
  ASSUME NEW Byte, NEW rb, Valid(rb, Byte), NEW data \in Seq(Byte)
  PROVE  ActsAsQueue(rb, data)
<1> DEFINE c == Contents(rb)
           n == Len(data)
<1>1. c \in Seq(Byte) /\ Len(c) <= RbSize /\ RbSize \in Nat /\ n \in Nat
  <2>1. rb \in Ring(Byte) /\ DataLen(rb) \in 0 .. RbSize /\ Holds(rb, DataLen(rb))
    BY ValidLen DEF Valid
  <2>2. c \in Seq(Byte) /\ Len(c) = DataLen(rb)
    BY <2>1, ContentsFacts
  <2> QED BY <2>1, <2>2, RingAssumption
<1>2. Contents(RingPut(rb, data)) = c \o Oldest(data, RbSize - Len(c))
  BY PutActs
<1>3. Contents(RingPutForce(rb, data)) = Newest(c \o data, RbSize)
  BY PutForceActs
<1>4. RingGot(rb, n) = Oldest(c, n) /\ Contents(RingGet(rb, n)) = Rest(c, n)
  BY <1>1, GetActs
<1>5. /\ RingCopy(rb, PeekLen(rb)) = Oldest(c, PeekLen(rb))
      /\ c # <<>> => PeekLen(rb) > 0
      /\ Contents(RingPeek(rb)) = Rest(c, PeekLen(rb))
  BY PeekActs
<1>6. Contents(RingReset(rb)) = <<>>
  BY ResetActs
<1>7. ASSUME n = 1
      PROVE  /\ Contents(PutChar(rb, data[1])) = Oldest(c \o data, RbSize)
             /\ Contents(PutCharForce(rb, data[1])) = Newest(c \o data, RbSize)
             /\ Contents(GetChar(rb)) = Rest(c, 1)
  <2>1. PutChar(rb, data[1]) = RingPut(rb, data)
    BY <1>7, PutCharIsPut
  <2>2. c \o Oldest(data, RbSize - Len(c)) = Oldest(c \o data, RbSize)
    <3> HIDE DEF c
    <3> QED BY <1>1, <1>7, OldestOfBoth
  <2>3. PutCharForce(rb, data[1]) = RingPutForce(rb, data)
    BY <1>7, PutCharForceIsPutForce
  <2>4. GetChar(rb) = RingGet(rb, 1)
    BY GetCharIsGet
  <2>5. Contents(RingGet(rb, 1)) = Rest(c, 1)
    BY GetActs
  <2> QED BY <1>2, <1>3, <2>1, <2>2, <2>3, <2>4, <2>5
<1> HIDE DEF c, n
<1>8. Contents(rb) = c /\ Len(data) = n
  BY DEF c, n
<1> QED BY <1>2, <1>3, <1>4, <1>5, <1>6, <1>7, <1>8, Zenon DEF ActsAsQueue

-----------------------------------------------------------------------------
(* The UART's ring buffer                                                  *)

\* The receive interrupt and rt_uart_read keep the indices such that the ring
\* buffer holds some number of bytes.
RxInv == Valid(rx, {0})

\* Only the steps of the UART touch its ring buffer.
LEMMA RxStep ==
  ASSUME RxInv, [ServicesNext]_svars
  PROVE  RxInv'
<1>1. CASE UartReceive
  <2>1. PICK ch \in Char : rx' = PutCharForce(rx, ByteOf(ch))
    BY <1>1 DEF UartReceive
  <2> DEFINE data == <<0>>
  <2>2. data \in Seq({0}) /\ Len(data) = 1 /\ data[1] = 0
    OBVIOUS
  <2> HIDE DEF data
  <2>3. rx' = RingPutForce(rx, data)
    BY <2>1, <2>2, PutCharForceIsPutForce DEF RxInv, ByteOf
  <2>4. Valid(RingPutForce(rx, data), {0})
    BY <2>2, PutForceActs DEF RxInv
  <2> QED BY <2>3, <2>4 DEF RxInv
<1>2. ASSUME NEW t \in Thread, UartRead(t) PROVE RxInv'
  <2>1. PICK n \in 1 .. RbSize : rx' = RingGet(rx, n)
    BY <1>2 DEF UartRead
  <2>2. n \in Nat
    BY RingAssumption
  <2>3. Valid(RingGet(rx, n), {0})
    BY <2>2, GetActs DEF RxInv
  <2> QED BY <2>1, <2>3 DEF RxInv
<1>3. CASE rx' = rx
  BY <1>3 DEF RxInv
<1>4. CASE UsartNext
  BY <1>1, <1>2, <1>3, <1>4
     DEF UsartNext, UartMdelay, EnterPowerMode, LeavePowerMode, uvars
<1>5. UsartNext \/ rx' = rx
  BY DEF ServicesNext, KernelNext, ServiceNext, svars, uvars
<1> QED BY <1>3, <1>4, <1>5

\* rt_ringbuffer_init leaves an empty buffer.
LEMMA RxInit ==
  ASSUME UsartInit
  PROVE  RxInv
<1>1. RbSize \in Nat /\ RbSize > 0
  BY RingAssumption
<1>2. 0 \in RingIndex
  BY <1>1 DEF RingIndex
<1>3. /\ rx \in Ring({0}) /\ rx.ri = 0 /\ rx.wi = 0
      /\ rx.rm = FALSE /\ rx.wm = FALSE
  BY <1>2 DEF UsartInit, ByteOf, Ring
<1>4. Behind(0, 0) = 0 /\ 0 + 0 < RbSize /\ 0 \in 0 .. RbSize
  BY <1>1 DEF Behind
<1>5. Holds(rx, 0)
  BY <1>3, <1>4 DEF Holds
<1> QED BY <1>3, <1>4, <1>5 DEF RxInv, Valid

\* A valid ring buffer is a queue whatever bytes are in it.
LEMMA RxIsQueue ==
  ASSUME RxInv
  PROVE  RingIsByteQueue
<1> DEFINE num == [i \in RingIndex |-> i]
           rb == [rx EXCEPT !.buf = num]
<1>1. RbSize \in Nat /\ RingIndex \subseteq Nat
  BY RingAssumption DEF RingIndex
<1>2. PICK n \in 0 .. RbSize : rx \in Ring({0}) /\ Holds(rx, n)
  BY DEF RxInv, Valid
<1>3. num \in [RingIndex -> Nat]
  BY <1>1
<1> HIDE DEF num
<1>4. /\ rb \in Ring(Nat) /\ rb.ri = rx.ri /\ rb.wi = rx.wi
      /\ rb.rm = rx.rm /\ rb.wm = rx.wm
  BY <1>2, <1>3 DEF Ring
<1> HIDE DEF rb
<1>5. Valid(rb, Nat)
  BY <1>2, <1>4 DEF Holds, Valid
<1>6. ASSUME NEW m \in 0 .. RbSize + 1
      PROVE  ActsAsQueue(rb, [i \in 1 .. m |-> RbSize + i])
  <2> DEFINE data == [i \in 1 .. m |-> RbSize + i]
  <2>1. data \in Seq(Nat)
    BY <1>1
  <2> HIDE DEF data
  <2>2. ActsAsQueue(rb, data)
    BY <1>5, <2>1, ActsAsQueueHolds
  <2> QED BY <2>2 DEF data
<1> QED BY <1>6 DEF RingIsByteQueue, rb, num

\* In every state the receive interrupt and the readers drive it to, the ring
\* buffer is a queue of bytes for every function of ringbuffer.c, whatever its
\* size.
THEOREM ByteQueue == ServicesSpec => []RingIsByteQueue
<1>1. ServicesInit => RxInv
  BY RxInit DEF ServicesInit
<1>2. RxInv /\ [ServicesNext]_svars => RxInv'
  BY RxStep
<1>3. RxInv => RingIsByteQueue
  BY RxIsQueue
<1> QED BY <1>1, <1>2, <1>3, PTL DEF ServicesSpec

-----------------------------------------------------------------------------
(* The kernel under the services                                           *)
(*                                                                         *)
(* The UART's handler suspends whatever thread it interrupts, in whatever  *)
(* function that is. What follows is about applications that do not use it *)
(* next to another service.                                                *)

UartAlone == \A l \in Lives : "usart" \in l => l = {"usart"}

\* A data queue is reset with the scheduler locked at these points,
Locked == {"pop_test", "pop_wake", "push_test", "push_wake"}

\* a thread at one of these has blocked itself and not scheduled yet,
Blocking == {"recv_sched", "alloc_sched", "queue_wait", "wait_sched",
             "sleep_mark", "sleep_sched", "until_sched"}

\* and at one of these it sleeps, or has just done so.
Asleep == {"sleep_mark", "sleep_sched", "sleep_return",
           "until_sched", "until_return"}

\* Where the threads on a list are.
Places(w) ==
  IF w = "event" THEN {"recv_sched", "recv_return"}
  ELSE IF w = "pool" THEN {"alloc_sched", "alloc_woken"}
  ELSE IF w = "done" THEN {"wait_sched", "wait_return"}
  ELSE {"queue_wait", "queue_woken"}

\* What a thread on a list reads in thread->error.
Untold(w) == IF w = "event" THEN "EINTR" ELSE "EOK"

ControlOK ==
  /\ isr \in {"none", "tick"} \cup UartIsr
  /\ pc \in [Thread -> ServicesPC] /\ pc[Idle] = "run"
  /\ live \subseteq UNION Lives

\* Only a thread that has just blocked itself may be current and not running.
CurrentRuns == k.stat[k.cur] = "RUNNING" \/ pc[k.cur] \in Blocking

CanRun(s) == s.stat[Idle] \in {"READY", "RUNNING"}

\* Nobody is suspended without a reason.
SuspendedKnown ==
  \A t \in Thread : k.stat[t] = "SUSPEND" =>
     pc[t] \in Asleep \/ \E w \in WaitList : Waits(t, w)

WaitsInPlace ==
  \A t \in Thread, w \in WaitList :
     Waits(t, w) => pc[t] \in Places(w) /\ k.error[t] = Untold(w)

\* A thread that waits for an event no longer has been told why.
Answered ==
  \A t \in Thread :
     pc[t] \in Places("event") /\ k.error[t] = "EINTR" => Waits(t, "event")

\* The scheduler is locked by the current thread, while it resets a queue.
NestOK ==
  /\ k.nest \in {0, 1}
  /\ \A t \in Thread : pc[t] \in Locked => t = k.cur /\ k.nest = 1
  /\ k.nest = 1 => pc[k.cur] \in Locked \cup {"reset_sched"}

\* While the UART may be used, no thread is in a call.
OnlyUart ==
  /\ live = {"usart"} /\ \A t \in Thread : pc[t] = "run"
  /\ \A w \in WaitList : k.wait[w] = <<>>

NoUart ==
  /\ "usart" \notin live /\ isr \in {"none", "tick"}
  /\ CurrentRuns /\ CanRun(k) /\ SuspendedKnown /\ WaitsInPlace /\ Answered
  /\ NestOK

KernelOK == Sound(k, {}) /\ CurrentSound(k, {})

KInv == ControlOK /\ KernelOK /\ (OnlyUart \/ NoUart)

-----------------------------------------------------------------------------
(* What the kernel operators do to the threads that wait *)

\* In r the threads of X, and no others, have been told e and are on no list
\* and not suspended. Every step but the beginning of a wait does this.
Released(r, s, X, e) ==
  /\ Sound(r, {}) /\ CurrentSound(r, {})
  /\ r.nest = s.nest /\ (s.nest # 0 => r.cur = s.cur)
  /\ r.cur = s.cur \/ r.stat[r.cur] = "RUNNING"
  /\ \A w \in WaitList, t \in Thread :
        Contains(r.wait[w], t) <=> Contains(s.wait[w], t) /\ t \notin X
  /\ \A t \in Thread : r.error[t] = IF t \in X THEN e ELSE s.error[t]
  /\ \A t \in Thread : r.stat[t] = "SUSPEND" <=> s.stat[t] = "SUSPEND" /\ t \notin X
  /\ CanRun(s) => CanRun(r)
  /\ s.stat[s.cur] = "RUNNING" => r.stat[r.cur] = "RUNNING"

\* Nothing happens.
LEMMA NothingReleased ==
  ASSUME NEW s, Sound(s, {}), CurrentSound(s, {}), NEW e
  PROVE  Released(s, s, {}, e)
BY DEF Released

\* A thread that is not suspended notes an error of its own.
LEMMA ErrorReleased ==
  ASSUME NEW s, Sound(s, {}), CurrentSound(s, {}), NEW t \in Thread,
         NEW e \in Error, s.stat[t] # "SUSPEND"
  PROVE  Released([s EXCEPT !.error[t] = e], s, {t}, e)
<1> DEFINE r == [s EXCEPT !.error[t] = e]
<1>1. /\ Sound(r, {}) /\ SameThreads(r, s) /\ SameClock(r, s)
      /\ r.timers = s.timers /\ r.wait = s.wait /\ r.group = s.group
      /\ Told(r, s, t, e)
  BY SetErrorSound
<1> HIDE DEF r
<1>2. \A w \in WaitList : ~Contains(s.wait[w], t)
  BY DEF Sound, WaitSound
<1>3. \A w \in WaitList, u \in Thread :
         Contains(r.wait[w], u) <=> Contains(s.wait[w], u) /\ u \notin {t}
  BY <1>1, <1>2
<1>4. \A u \in Thread : /\ r.error[u] = IF u \in {t} THEN e ELSE s.error[u]
                        /\ r.stat[u] = "SUSPEND" <=> s.stat[u] = "SUSPEND" /\ u \notin {t}
  BY <1>1 DEF Told, SameThreads
<1>5. /\ CurrentSound(r, {}) /\ r.nest = s.nest /\ r.cur = s.cur
      /\ r.stat = s.stat
  BY <1>1 DEF SameThreads, CurrentSound
<1>6. Released(r, s, {t}, e)
  BY <1>1, <1>3, <1>4, <1>5 DEF Released, CanRun
<1> QED BY <1>6 DEF r

\* A thread that waits is told e and made ready.
LEMMA WokenReleased ==
  ASSUME NEW s, Sound(s, {}), CurrentSound(s, {}), NEW t \in Thread,
         NEW e, NEW r, Woken(r, s, {}, t, e)
  PROVE  Released(r, s, {t}, e) /\ r.cur = s.cur
<1>0. Idle \in Thread /\ s.cur \in Thread
  BY KernelAssumption DEF Sound, KernelState
<1>1. /\ Sound(r, {}) /\ r.cur = s.cur /\ r.nest = s.nest
      /\ s.stat[t] = "SUSPEND"
      /\ r.stat[t] = IF t = s.cur THEN "RUNNING" ELSE "READY"
      /\ \A u \in Thread : u # t => r.stat[u] = s.stat[u]
      /\ OffWaits(r, s, t) /\ Told(r, s, t, e)
  BY DEF Woken, OnlyStat
<1>2. CurrentSound(r, {})
  BY <1>0, <1>1 DEF CurrentSound
<1>3. /\ \A w \in WaitList, u \in Thread :
            Contains(r.wait[w], u) <=> Contains(s.wait[w], u) /\ u \notin {t}
      /\ \A u \in Thread : r.error[u] = IF u \in {t} THEN e ELSE s.error[u]
  BY <1>1 DEF OffWaits, Told
<1>4. \A u \in Thread :
        r.stat[u] = "SUSPEND" <=> s.stat[u] = "SUSPEND" /\ u \notin {t}
  BY <1>1
<1>5. CanRun(s) => CanRun(r)
  BY <1>0, <1>1 DEF CanRun
<1>6. s.stat[s.cur] = "RUNNING" => r.stat[r.cur] = "RUNNING"
  BY <1>0, <1>1
<1> QED BY <1>1, <1>2, <1>3, <1>4, <1>5, <1>6 DEF Released

\* So are all the threads of X together.
LEMMA TogetherReleased ==
  ASSUME NEW s, Sound(s, {}), CurrentSound(s, {}), NEW X, NEW e,
         NEW r, Sound(r, {}), AllWoken(r, s, X, e),
         \A x \in Thread : x \in X => s.stat[x] = "SUSPEND"
  PROVE  Released(r, s, X, e) /\ r.cur = s.cur
<1>0. Idle \in Thread /\ s.cur \in Thread
  BY KernelAssumption DEF Sound, KernelState
<1>1. /\ r.cur = s.cur /\ r.nest = s.nest
      /\ \A x \in Thread :
            r.stat[x] = IF x \in X THEN IF x = s.cur THEN "RUNNING" ELSE "READY"
                                   ELSE s.stat[x]
      /\ \A v \in WaitList, x \in Thread :
            Contains(r.wait[v], x) <=> Contains(s.wait[v], x) /\ x \notin X
      /\ \A x \in Thread : r.error[x] = IF x \in X THEN e ELSE s.error[x]
  BY DEF AllWoken
<1>2. CurrentSound(r, {})
  BY <1>0, <1>1 DEF CurrentSound
<1>3. /\ CanRun(s) => CanRun(r)
      /\ s.stat[s.cur] = "RUNNING" => r.stat[r.cur] = "RUNNING"
      /\ \A x \in Thread : r.stat[x] = "SUSPEND" <=> s.stat[x] = "SUSPEND" /\ x \notin X
  BY <1>0, <1>1 DEF CanRun
<1> QED BY <1>1, <1>2, <1>3 DEF Released

\* All the threads of a list are turned away.
LEMMA AllReleased ==
  ASSUME NEW s, Sound(s, {}), CurrentSound(s, {}), NEW w \in WaitList
  PROVE  LET r == IpcListResumeAll(s, w)
             X == {x \in Thread : Contains(s.wait[w], x)}
         IN  Released(r, s, X, "ERROR") /\ r.cur = s.cur
<1> DEFINE r == IpcListResumeAll(s, w)
           X == {x \in Thread : Contains(s.wait[w], x)}
<1>1. \A x \in Thread : x \in X => s.stat[x] = "SUSPEND"
  BY DEF Sound, WaitSound
<1>2. Sound(r, {}) /\ AllWoken(r, s, X, "ERROR")
  BY ResumeAllSound
<1> HIDE DEF r, X
<1>3. Released(r, s, X, "ERROR") /\ r.cur = s.cur
  BY <1>1, <1>2, TogetherReleased
<1> QED BY <1>3 DEF r, X

\* rt_schedule afterwards releases nobody else, and with the scheduler unlocked
\* a thread runs then.
LEMMA ScheduleReleased ==
  ASSUME NEW s \in KernelState, CanRun(s), NEW r, NEW X, NEW e,
         Released(r, s, X, e)
  PROVE  /\ Released(Schedule(r), s, X, e)
         /\ s.nest = 0 => Schedule(r).stat[Schedule(r).cur] = "RUNNING"
<1> DEFINE after == Schedule(r)
<1>0. /\ Idle \in Thread /\ s.cur \in Thread /\ r.cur \in Thread
      /\ r \in KernelState
  BY KernelAssumption DEF Released, Sound, KernelState
<1>1. Sound(after, {}) /\ CurrentSound(after, {}) /\ AfterSchedule(after, r, {})
  BY ScheduleSound DEF Released
<1>2. s.nest # 0 => after = r
  BY DEF Schedule, Released
<1> HIDE DEF after
<1>3. r.stat[r.cur] # "RUNNING" => r.group # {}
  <2> SUFFICES ASSUME r.stat[r.cur] # "RUNNING" PROVE r.group # {}
    OBVIOUS
  <2>1. r.stat[Idle] = "READY" /\ r.prio[Idle] \in Prio
    BY <1>0 DEF Released, CanRun, CurrentSound, KernelState
  <2>2. Contains(r.ready[r.prio[Idle]], Idle)
    BY <1>0, <2>1 DEF Released, Sound, ReadySound
  <2>3. r.ready[r.prio[Idle]] # <<>>
    BY <2>2, EmptyFacts
  <2> QED BY <2>1, <2>3 DEF Released, Sound, ListsSound
<1>4. s.nest = 0 => after.stat[after.cur] = "RUNNING"
  BY <1>1, <1>3 DEF AfterSchedule, Released
<1>5. CASE s.nest # 0
  BY <1>2, <1>5 DEF after
<1>6. CASE s.nest = 0
  <2>1. /\ after.nest = r.nest
        /\ \A t \in Thread :
             IF r.stat[t] \in {"READY", "RUNNING"}
             THEN after.stat[t] \in {"READY", "RUNNING"} ELSE after.stat[t] = r.stat[t]
        /\ after.wait = r.wait /\ after.error = r.error
    BY <1>1 DEF AfterSchedule, SameWaits
  <2>2. \A t \in Thread : after.stat[t] = "SUSPEND" <=> r.stat[t] = "SUSPEND"
    BY <2>1
  <2>3. CanRun(r) => CanRun(after)
    BY <1>0, <2>1 DEF CanRun
  <2>4. Released(after, s, X, e)
    BY <1>1, <1>4, <1>6, <2>1, <2>2, <2>3 DEF Released
  <2> QED BY <1>4, <2>4 DEF after
<1> QED BY <1>5, <1>6

\* One step of the SysTick handler: the threads of W time out.
LEMMA TickReleased ==
  ASSUME KernelOK, TickStep
  PROVE  /\ \E W \in SUBSET Thread :
              /\ Released(k', k, W, "ETIMEOUT")
              /\ \A t \in W : k.stat[t] = "SUSPEND"
              /\ \A t, u \in W : t = u
         /\ isr' \in {"none", "tick"}
<1>0. /\ Idle \in Thread /\ k.cur \in Thread /\ k \in KernelState
      /\ Sound(k, {}) /\ CurrentSound(k, {})
  BY KernelAssumption DEF KernelOK, Sound, KernelState
<1>1. /\ Sound(k', {}) /\ CurrentSound(k', {})
      /\ \E W \in SUBSET Thread :
           /\ Progress(k', k, {}, W)
           /\ \A t \in W : Contains(k.timers, t) /\ k.stat[t] = "SUSPEND"
           /\ \A t, u \in W : t = u
      /\ isr' \in {"none", "tick"}
  BY <1>0, TickStepSound
<1>2. PICK W \in SUBSET Thread :
        /\ Progress(k', k, {}, W)
        /\ \A t \in W : Contains(k.timers, t) /\ k.stat[t] = "SUSPEND"
        /\ \A t, u \in W : t = u
  BY <1>1
<1>3. k.nest # 0 => k'.cur = k.cur
  <2> SUFFICES ASSUME k.nest # 0 PROVE k'.cur = k.cur
    OBVIOUS
  <2>1. CASE TickEnter
    BY <1>0, <2>1 DEF TickEnter, TickIncrease, SliceEnd, Schedule, KernelState
  <2>2. CASE TimerExpire
    <3> DEFINE t == Head(k.timers)
               s == TimerStop(k, t)
               l == ListRemove([s EXCEPT !.error[t] = "ETIMEOUT"], t)
               i == InsertThread(l, t)
    <3>1. k' = Schedule(i)
      BY <2>2 DEF TimerExpire, ThreadTimeout
    <3>2. s \in KernelState /\ s.cur = k.cur /\ s.nest = k.nest
      <4>1. k.timers \in Seq(Thread) /\ k.timers # <<>>
        BY <1>0, <2>2 DEF TimerExpire, TimerExpired, KernelState
      <4>2. t \in Thread
        BY <4>1, HeadFacts
      <4> HIDE DEF t
      <4>3. Sound(s, {}) /\ SameThreads(s, k)
        BY <1>0, <4>2, TimerStopSound
      <4> QED BY <4>3 DEF Sound, SameThreads
    <3> HIDE DEF s, t
    <3>3. l.cur = k.cur /\ l.nest = k.nest
      BY <3>2 DEF ListRemove, KernelState
    <3>4. i.cur = l.cur /\ i.nest = l.nest
      <4>1. l = [s EXCEPT !.error[t] = "ETIMEOUT",
                   !.ready = l.ready, !.wait = l.wait, !.defunct = l.defunct]
        BY <3>2 DEF ListRemove, KernelState
      <4> QED BY <3>2, <4>1 DEF InsertThread, KernelState
    <3> QED BY <3>1, <3>3, <3>4 DEF Schedule
  <2>3. CASE TickExit
    BY <2>3 DEF TickExit
  <2> QED BY <2>1, <2>2, <2>3 DEF TickStep
<1>4. /\ k'.nest = k.nest
      /\ \A w \in WaitList, x \in Thread :
            Contains(k'.wait[w], x) <=> Contains(k.wait[w], x) /\ x \notin W
      /\ \A x \in Thread : k'.error[x] = IF x \in W THEN "ETIMEOUT" ELSE k.error[x]
      /\ \A t \in Thread :
           IF k.stat[t] \in {"READY", "RUNNING"} \/ t \in W
           THEN k'.stat[t] \in {"READY", "RUNNING"} ELSE k'.stat[t] = k.stat[t]
      /\ k'.cur = k.cur \/ k'.stat[k'.cur] = "RUNNING"
      /\ k.stat[k.cur] = "RUNNING" => k'.stat[k'.cur] = "RUNNING"
  BY <1>2 DEF Progress, TimedOut
<1>5. /\ CanRun(k) => CanRun(k')
      /\ \A t \in Thread : k'.stat[t] = "SUSPEND" <=> k.stat[t] = "SUSPEND" /\ t \notin W
  BY <1>0, <1>4 DEF CanRun
<1>6. Released(k', k, W, "ETIMEOUT")
  BY <1>1, <1>3, <1>4, <1>5 DEF Released
<1> QED BY <1>1, <1>2, <1>6

-----------------------------------------------------------------------------
(* What the kernel operators do to a thread that begins to wait *)

\* t has suspended itself, is on the list w and on no other, if w is one, and
\* reads e in thread->error.
Blocked(r, s, w, t, e) ==
  /\ Sound(r, {}) /\ OnlyStat(r, s, t, "SUSPEND")
  /\ OnWait(r, s, w, t) /\ Told(r, s, t, e)

\* The error is reset, the thread suspended and taken off the ready queue.
LEMMA SuspendedSound ==
  ASSUME NEW s, Sound(s, {}), NEW t \in Thread,
         s.stat[t] \in {"READY", "RUNNING"}
  PROVE  LET r == Suspended(s, t)
         IN  /\ Sound(r, {}) /\ OnlyStat(r, s, t, "SUSPEND")
             /\ r.wait = s.wait /\ Told(r, s, t, "EOK") /\ r.tick = s.tick
             /\ \A v \in WaitList : ~Contains(r.wait[v], t)
<1> DEFINE reset == [s EXCEPT !.error[t] = "EOK"]
           r == SuspendThread(reset, t)
<1>1. /\ Sound(reset, {}) /\ SameThreads(reset, s) /\ SameClock(reset, s)
      /\ reset.timers = s.timers /\ reset.wait = s.wait /\ reset.group = s.group
      /\ Told(reset, s, t, "EOK")
  BY SetErrorSound DEF Error
<1> HIDE DEF reset
<1>2. reset.stat[t] \in {"READY", "RUNNING"} /\ t \notin {}
  BY <1>1 DEF SameThreads
<1>3. /\ Sound(r, {}) /\ OnlyStat(r, reset, t, "SUSPEND")
      /\ SameWaits(r, reset) /\ r.tick = reset.tick
      /\ \A x : Contains(r.timers, x) <=> Contains(reset.timers, x)
  BY <1>1, <1>2, SuspendThreadSound
<1> HIDE DEF r
<1>4. OnlyStat(r, s, t, "SUSPEND") /\ r.wait = s.wait /\ Told(r, s, t, "EOK")
  BY <1>1, <1>3 DEF OnlyStat, SameThreads, SameWaits, Told
<1>5. \A v \in WaitList : ~Contains(s.wait[v], t)
  BY DEF Sound, WaitSound
<1>6. r.tick = s.tick
  BY <1>1, <1>3 DEF SameClock
<1> QED BY <1>3, <1>4, <1>5, <1>6 DEF r, reset, Suspended

\* A thread's timer runs if the call has a timeout.
LEMMA ArmedSound ==
  ASSUME NEW s, Sound(s, {}), NEW t \in Thread, s.stat[t] = "SUSPEND",
         NEW timeout \in Int
  PROVE  LET r == Armed(s, t, timeout)
         IN  Sound(r, {}) /\ SameThreads(r, s) /\ SameWaits(r, s) /\ r.tick = s.tick
<1>1. CASE timeout > 0
  <2> DEFINE r == TimerStart(s, t, timeout)
  <2>1. /\ Sound(r, {}) /\ SameThreads(r, s)
        /\ SameWaits(r, s) /\ r.tick = s.tick
        /\ \A x : Contains(r.timers, x) <=> Contains(s.timers, x) \/ x = t
    BY TimerStartSound
  <2> QED BY <1>1, <2>1 DEF Armed
<1>2. CASE ~(timeout > 0)
  BY <1>2 DEF Armed, SameThreads, SameWaits
<1> QED BY <1>1, <1>2

\* A waiter is put at the front of a list.
LEMMA WaitFirstSound ==
  ASSUME NEW s, Sound(s, {}), NEW w \in WaitList, NEW t \in Thread,
         s.stat[t] = "SUSPEND", \A v \in WaitList : ~Contains(s.wait[v], t)
  PROVE  LET r == [s EXCEPT !.wait[w] = <<t>> \o @]
         IN  /\ Sound(r, {}) /\ SameThreads(r, s) /\ r.error = s.error
             /\ r.tick = s.tick /\ OnWait(r, s, w, t)
<1> DEFINE old == s.wait[w]
           new == <<t>> \o old
           r == [s EXCEPT !.wait[w] = <<t>> \o @]
<1>0. /\ s \in KernelState
      /\ \A v \in WaitList : s.wait[v] \in Seq(Thread) /\ IsInjective(s.wait[v])
  BY DEF Sound, KernelState, ListsSound
<1>1. r = [s EXCEPT !.wait[w] = new]
  BY <1>0 DEF KernelState
<1> HIDE DEF r, old
<1>2. old \in Seq(Thread) /\ IsInjective(old) /\ ~Contains(old, t)
  BY <1>0 DEF old
<1>3. /\ new \in Seq(Thread) /\ IsInjective(new)
      /\ \A x : Contains(new, x) <=> Contains(old, x) \/ x = t
  BY <1>2, ConsKeepsOne
<1> HIDE DEF new
<1>4. /\ r \in KernelState
      /\ r.wait[w] = new
      /\ \A v \in WaitList : v # w => r.wait[v] = s.wait[v]
      /\ r.ready = s.ready /\ r.group = s.group /\ r.defunct = s.defunct
      /\ r.timers = s.timers /\ r.error = s.error /\ r.tick = s.tick
      /\ SameThreads(r, s)
  BY <1>0, <1>1, <1>3 DEF KernelState, SameThreads
<1>5. OnWait(r, s, w, t)
  BY <1>3, <1>4 DEF OnWait, old
<1>6. WaitSound(r, {})
  <2>1. WaitSound(s, {}) /\ r.stat = s.stat
    BY <1>4 DEF Sound, SameThreads
  <2> QED BY <1>5, <2>1 DEF WaitSound, OnWait
<1>7. /\ ListsSound(r) /\ ReadySound(r, {}) /\ DefunctSound(r, {})
      /\ TimersSound(r, {})
  BY <1>0, <1>3, <1>4 DEF Sound, ListsSound, ReadySound, DefunctSound,
                          TimersSound, SameThreads
<1> QED BY <1>4, <1>5, <1>6, <1>7 DEF Sound, r

\* How a call outside of ipc.c waits, at the end of a list or at its front.
LEMMA AwaitSound ==
  ASSUME NEW s, Sound(s, {}), NEW w \in WaitList, NEW t \in Thread,
         s.stat[t] \in {"READY", "RUNNING"}, NEW timeout \in Int
  PROVE  /\ Blocked(AwaitLast(s, w, t, timeout), s, w, t, "EOK")
         /\ Blocked(AwaitFirst(s, w, t, timeout), s, w, t, "EOK")
         /\ AwaitLast(s, w, t, timeout).tick = s.tick
         /\ AwaitFirst(s, w, t, timeout).tick = s.tick
<1> DEFINE u == Suspended(s, t)
           last == WaitInsert(u, w, t, "FIFO")
           first == [u EXCEPT !.wait[w] = <<t>> \o @]
<1>1. /\ Sound(u, {}) /\ OnlyStat(u, s, t, "SUSPEND")
      /\ u.wait = s.wait /\ Told(u, s, t, "EOK") /\ u.tick = s.tick
      /\ \A v \in WaitList : ~Contains(u.wait[v], t)
  BY SuspendedSound
<1>2. /\ AwaitLast(s, w, t, timeout) = Armed(last, t, timeout)
      /\ AwaitFirst(s, w, t, timeout) = Armed(first, t, timeout)
  BY DEF AwaitLast, AwaitFirst
<1> HIDE DEF u
<1>3. u.stat[t] = "SUSPEND" /\ t \notin {}
  BY <1>1 DEF OnlyStat
<1>4. /\ Sound(last, {}) /\ SameThreads(last, u) /\ SameClock(last, u)
      /\ last.timers = u.timers /\ last.error = u.error
      /\ OnWait(last, u, w, t)
  BY <1>1, <1>3, WaitInsertSound
<1>5. /\ Sound(first, {}) /\ SameThreads(first, u) /\ first.error = u.error
      /\ first.tick = u.tick /\ OnWait(first, u, w, t)
  BY <1>1, <1>3, WaitFirstSound
<1> HIDE DEF last, first
<1>6. last.tick = u.tick
  BY <1>4 DEF SameClock
<1>7. ASSUME NEW z, Sound(z, {}), SameThreads(z, u), z.error = u.error,
             z.tick = u.tick, OnWait(z, u, w, t)
      PROVE  /\ Blocked(Armed(z, t, timeout), s, w, t, "EOK")
             /\ Armed(z, t, timeout).tick = s.tick
  <2> DEFINE r == Armed(z, t, timeout)
  <2>1. z.stat[t] = "SUSPEND"
    BY <1>3, <1>7 DEF SameThreads
  <2>2. Sound(r, {}) /\ SameThreads(r, z) /\ SameWaits(r, z) /\ r.tick = z.tick
    BY <1>7, <2>1, ArmedSound
  <2> HIDE DEF r
  <2>3. OnlyStat(r, s, t, "SUSPEND")
    BY <1>1, <1>7, <2>2 DEF OnlyStat, SameThreads
  <2>4. OnWait(r, s, w, t) /\ Told(r, s, t, "EOK")
    BY <1>1, <1>7, <2>2 DEF OnWait, Told, SameWaits
  <2>5. r.tick = s.tick
    BY <1>1, <1>7, <2>2
  <2>6. Blocked(r, s, w, t, "EOK")
    BY <2>2, <2>3, <2>4 DEF Blocked
  <2> QED BY <2>5, <2>6 DEF r
<1> QED BY <1>2, <1>4, <1>5, <1>6, <1>7

\* A call of ipc.c waits.
LEMMA BlockBlocks ==
  ASSUME NEW s, Sound(s, {}), NEW w \in WaitList, NEW t \in Thread,
         s.stat[t] \in {"READY", "RUNNING"}, NEW how, NEW timeout \in Int
  PROVE  Blocked(Block(s, w, t, how, timeout), s, w, t, "EINTR")
<1> DEFINE r == Block(s, w, t, how, timeout)
<1>1. t \notin {}
  OBVIOUS
<1>2. /\ Sound(r, {}) /\ OnlyStat(r, s, t, "SUSPEND") /\ r.tick = s.tick
      /\ OnWait(r, s, w, t) /\ Told(r, s, t, "EINTR")
      /\ \A x : Contains(r.timers, x)
                  <=> Contains(s.timers, x) \/ (x = t /\ timeout > 0)
  BY <1>1, BlockSound
<1> HIDE DEF r
<1>3. Blocked(r, s, w, t, "EINTR")
  BY <1>2 DEF Blocked
<1> QED BY <1>3 DEF r

\* A thread that only sleeps is on no list.
LEMMA SleepBlocks ==
  ASSUME NEW s, Sound(s, {}), NEW t \in Thread,
         s.stat[t] \in {"READY", "RUNNING"}, NEW d \in Int
  PROVE  LET r == TimerStart(Suspended(s, t), t, d)
         IN  /\ Sound(r, {}) /\ OnlyStat(r, s, t, "SUSPEND")
             /\ r.wait = s.wait /\ Told(r, s, t, "EOK") /\ r.tick = s.tick
<1> DEFINE u == Suspended(s, t)
           r == TimerStart(u, t, d)
<1>1. /\ Sound(u, {}) /\ OnlyStat(u, s, t, "SUSPEND")
      /\ u.wait = s.wait /\ Told(u, s, t, "EOK") /\ u.tick = s.tick
      /\ \A v \in WaitList : ~Contains(u.wait[v], t)
  BY SuspendedSound
<1> HIDE DEF u
<1>2. u.stat[t] = "SUSPEND" /\ t \notin {}
  BY <1>1 DEF OnlyStat
<1>3. /\ Sound(r, {}) /\ SameThreads(r, u)
      /\ SameWaits(r, u) /\ r.tick = u.tick
      /\ \A x : Contains(r.timers, x) <=> Contains(u.timers, x) \/ x = t
  BY <1>1, <1>2, TimerStartSound
<1> HIDE DEF r
<1>4. OnlyStat(r, s, t, "SUSPEND") /\ r.wait = s.wait /\ Told(r, s, t, "EOK")
  BY <1>1, <1>3 DEF OnlyStat, SameThreads, SameWaits, Told
<1> QED BY <1>1, <1>3, <1>4 DEF r, u

-----------------------------------------------------------------------------
(* The steps that keep the invariant *)

\* What the invariant says where the UART is not used.
LEMMA KInvFacts ==
  ASSUME KInv, NoUart
  PROVE  /\ Sound(k, {}) /\ CurrentSound(k, {}) /\ KernelOK
         /\ k \in KernelState /\ k.cur \in Thread /\ Idle \in Thread
         /\ pc \in [Thread -> ServicesPC]
         /\ \A t \in Thread, w \in WaitList : Waits(t, w) => k.stat[t] = "SUSPEND"
         /\ \A t \in Thread, v, w \in WaitList :
               Waits(t, v) /\ Waits(t, w) => v = w
BY KernelAssumption
   DEF KInv, KernelOK, NoUart, ControlOK, Sound, KernelState, WaitSound, Waits

\* A thread that executes, and has not just blocked itself, runs.
LEMMA ExecutingRuns ==
  ASSUME KInv, NoUart, NEW t \in Thread, Executes(t), pc[t] \notin Blocking
  PROVE  /\ t = k.cur /\ k.stat[t] = "RUNNING"
         /\ \A w \in WaitList : ~Waits(t, w)
BY KInvFacts DEF NoUart, CurrentRuns, Executes

\* The list a thread waits on follows from where it is.
LEMMA PlacesApart ==
  ASSUME NEW v \in WaitList, NEW w \in WaitList, NEW c,
         c \in Places(v), c \in Places(w)
  PROVE  Untold(v) = Untold(w) /\ c \notin Asleep
BY ServicesAssumption DEF Places, Untold, Asleep

\* Threads are released; nobody begins to wait, and a thread that changes its
\* place is not on a list or stays where those of its list are.
LEMMA ReleaseStep ==
  ASSUME KInv, NoUart, NEW X, NEW e \in Error, e # "EINTR",
         Released(k', k, X, e), ControlOK', CurrentRuns', NestOK',
         "usart" \notin live', isr' \in {"none", "tick"},
         \A t \in Thread :
            \/ pc'[t] = pc[t]
            \/ k.stat[t] # "SUSPEND"
            \/ /\ pc[t] \in Asleep => pc'[t] \in Asleep
               /\ \A w \in WaitList : pc[t] \in Places(w) => pc'[t] \in Places(w),
         \A t \in Thread : pc'[t] \in Places("event") =>
            pc[t] \in Places("event") \/ t \in X
  PROVE  KInv' /\ NoUart'
<1>1. /\ Sound(k', {}) /\ CurrentSound(k', {})
      /\ \A w \in WaitList, t \in Thread :
            Contains(k'.wait[w], t) <=> Contains(k.wait[w], t) /\ t \notin X
      /\ \A t \in Thread : k'.error[t] = IF t \in X THEN e ELSE k.error[t]
      /\ \A t \in Thread : k'.stat[t] = "SUSPEND" <=> k.stat[t] = "SUSPEND" /\ t \notin X
      /\ CanRun(k')
  BY DEF Released, NoUart
<1>2. KernelOK'
  BY <1>1 DEF KernelOK
<1>3. SuspendedKnown'
  <2> SUFFICES ASSUME NEW t \in Thread, k'.stat[t] = "SUSPEND"
               PROVE  pc'[t] \in Asleep \/ \E w \in WaitList : Contains(k'.wait[w], t)
    BY DEF SuspendedKnown, Waits
  <2>1. k.stat[t] = "SUSPEND" /\ t \notin X
    BY <1>1
  <2>2. pc[t] \in Asleep \/ \E w \in WaitList : Contains(k.wait[w], t)
    BY <2>1 DEF NoUart, SuspendedKnown, Waits
  <2>3. pc[t] \in Asleep => pc'[t] \in Asleep
    BY <2>1
  <2> QED BY <1>1, <2>1, <2>2, <2>3
<1>4. WaitsInPlace'
  <2> SUFFICES ASSUME NEW t \in Thread, NEW w \in WaitList, Contains(k'.wait[w], t)
               PROVE  pc'[t] \in Places(w) /\ k'.error[t] = Untold(w)
    BY DEF WaitsInPlace, Waits
  <2>1. Waits(t, w) /\ t \notin X
    BY <1>1 DEF Waits
  <2>2. pc[t] \in Places(w) /\ k.error[t] = Untold(w) /\ k.stat[t] = "SUSPEND"
    BY <2>1, KInvFacts DEF NoUart, WaitsInPlace
  <2> QED BY <1>1, <2>1, <2>2
<1>5. Answered'
  <2> SUFFICES ASSUME NEW t \in Thread, pc'[t] \in Places("event"),
                      k'.error[t] = "EINTR"
               PROVE  Contains(k'.wait["event"], t)
    BY DEF Answered, Waits
  <2>1. t \notin X /\ k.error[t] = "EINTR"
    BY <1>1
  <2>2. pc[t] \in Places("event") /\ "event" \in WaitList
    BY <2>1, ServicesAssumption
  <2>3. Waits(t, "event")
    BY <2>1, <2>2 DEF NoUart, Answered
  <2> QED BY <1>1, <2>1, <2>2, <2>3 DEF Waits
<1>6. NoUart'
  BY <1>1, <1>3, <1>4, <1>5 DEF NoUart
<1> QED BY <1>2, <1>6 DEF KInv

\* An interrupt handler releases threads that wait.
LEMMA HandlerStep ==
  ASSUME KInv, NoUart, NEW X, NEW e \in Error, e # "EINTR",
         Released(k', k, X, e), pc' = pc, live' = live,
         isr' \in {"none", "tick"}
  PROVE  KInv' /\ NoUart'
<1>1. ControlOK' /\ "usart" \notin live'
  BY DEF KInv, NoUart, ControlOK
<1>2. CurrentRuns'
  BY DEF NoUart, CurrentRuns, Released
<1>3. NestOK'
  BY DEF NoUart, NestOK, Released
<1>4. \A t \in Thread : pc'[t] = pc[t]
  OBVIOUS
<1> QED BY <1>1, <1>2, <1>3, <1>4, ReleaseStep

\* Where a function may go on, with the scheduler locked or not.
MayGo(c) ==
  /\ c \in ServicesPC \ Blocking
  /\ IF k.nest = 0 THEN c \notin Locked ELSE c \in Locked \cup {"reset_sched"}

\* The executing thread releases some and goes on at c.
LEMMA GoOnStep ==
  ASSUME KInv, NoUart, NEW t \in Thread, NEW c, NEW X, NEW e \in Error,
         e # "EINTR", Executes(t), t # Idle, pc[t] \notin Blocking, MayGo(c),
         c \in Places("event") => t \in X,
         Released(k', k, X, e), Goto(t, c), isr' = isr, live' \subseteq live
  PROVE  KInv' /\ NoUart'
<1>0. /\ t = k.cur /\ k.stat[t] = "RUNNING"
      /\ \A w \in WaitList : ~Waits(t, w)
  BY ExecutingRuns
<1>1. /\ pc' \in [Thread -> ServicesPC] /\ pc'[t] = c
      /\ \A u \in Thread : u # t => pc'[u] = pc[u]
  BY KInvFacts DEF Goto, MayGo
<1>2. ControlOK' /\ "usart" \notin live' /\ isr' \in {"none", "tick"}
  BY <1>1, KInvFacts DEF KInv, NoUart, ControlOK
<1>3. CurrentRuns'
  BY <1>0 DEF CurrentRuns, Released
<1>4. NestOK'
  <2>1. k'.nest = k.nest /\ (k.nest # 0 => k'.cur = k.cur)
    BY DEF Released
  <2>2. CASE k.nest = 0
    BY <1>1, <2>1, <2>2 DEF NoUart, NestOK, MayGo
  <2>3. CASE k.nest # 0
    BY <1>0, <1>1, <2>1, <2>3 DEF NoUart, NestOK, MayGo
  <2> QED BY <2>2, <2>3
<1>5. \A u \in Thread :
        \/ pc'[u] = pc[u]
        \/ k.stat[u] # "SUSPEND"
        \/ /\ pc[u] \in Asleep => pc'[u] \in Asleep
           /\ \A w \in WaitList : pc[u] \in Places(w) => pc'[u] \in Places(w)
  BY <1>0, <1>1
<1>6. \A u \in Thread : pc'[u] \in Places("event") =>
         pc[u] \in Places("event") \/ u \in X
  BY <1>1
<1>7. "usart" \notin live' /\ isr' \in {"none", "tick"} /\ ControlOK'
  BY <1>2
<1> QED BY <1>7, <1>3, <1>4, <1>5, <1>6, ReleaseStep

\* The points a thread goes on to when it has scheduled.
AfterBlock(b) ==
  IF b = "recv_sched" THEN "recv_return"
  ELSE IF b = "alloc_sched" THEN "alloc_woken"
  ELSE IF b = "queue_wait" THEN "queue_woken"
  ELSE IF b = "wait_sched" THEN "wait_return"
  ELSE IF b = "sleep_sched" THEN "sleep_return"
  ELSE "until_return"

\* A thread that has blocked itself schedules; somebody runs then.
LEMMA GiveUpStep ==
  ASSUME KInv, NoUart, NEW t \in Thread, Executes(t), t # Idle,
         pc[t] \in Blocking \ {"sleep_mark"}, k' = Schedule(k),
         Goto(t, AfterBlock(pc[t])), isr' = isr, live' = live
  PROVE  KInv' /\ NoUart' /\ Released(k', k, {}, "EOK")
<1> DEFINE c == AfterBlock(pc[t])
<1>0. k.nest = 0 /\ t = k.cur
  BY DEF NoUart, NestOK, Executes, Blocking, Locked
<1>1. /\ c \in ServicesPC \ (Blocking \cup Locked)
      /\ pc[t] \in Asleep => c \in Asleep
      /\ \A w \in WaitList : pc[t] \in Places(w) => c \in Places(w)
      /\ c \in Places("event") => pc[t] \in Places("event")
  BY DEF AfterBlock, Blocking, Locked, Asleep, Places, ServicesPC, PC, EventPC,
         PoolPC, QueuePC, CompletionPC, PeriodicPC
<1> HIDE DEF c
<1>2. /\ pc' \in [Thread -> ServicesPC] /\ pc'[t] = c
      /\ \A u \in Thread : u # t => pc'[u] = pc[u]
  BY <1>1, KInvFacts DEF Goto, c
<1>3. Released(k', k, {}, "EOK") /\ k'.stat[k'.cur] = "RUNNING"
  <2>1. Released(k, k, {}, "EOK")
    BY KInvFacts, NothingReleased
  <2> QED BY <1>0, <2>1, KInvFacts, ScheduleReleased DEF NoUart
<1>4. ControlOK' /\ "usart" \notin live' /\ isr' \in {"none", "tick"}
  BY <1>2, KInvFacts DEF KInv, NoUart, ControlOK
<1>5. CurrentRuns'
  BY <1>3 DEF CurrentRuns
<1>6. NestOK'
  BY <1>0, <1>1, <1>2, <1>3 DEF NoUart, NestOK, Released
<1>7. \A u \in Thread :
        \/ pc'[u] = pc[u]
        \/ k.stat[u] # "SUSPEND"
        \/ /\ pc[u] \in Asleep => pc'[u] \in Asleep
           /\ \A w \in WaitList : pc[u] \in Places(w) => pc'[u] \in Places(w)
  BY <1>1, <1>2
<1>8. \A u \in Thread : pc'[u] \in Places("event") =>
         pc[u] \in Places("event") \/ u \in {}
  BY <1>1, <1>2
<1>9. "EOK" \in Error /\ "EOK" # "EINTR"
  BY DEF Error
<1> QED BY <1>3, <1>4, <1>5, <1>6, <1>7, <1>8, <1>9, ReleaseStep

\* The scheduler is unlocked for a thread that does not reset a queue.
LEMMA Unlocked ==
  ASSUME KInv, NoUart, NEW t \in Thread, Executes(t),
         pc[t] \notin Locked \cup {"reset_sched"}
  PROVE  k.nest = 0
BY DEF NoUart, NestOK, Executes

\* The executing thread blocks itself on a list.
LEMMA BlockStep ==
  ASSUME KInv, NoUart, NEW t \in Thread, NEW c, NEW w \in WaitList,
         Executes(t), t # Idle, pc[t] \notin Blocking, k.nest = 0,
         c \in Blocking, c \in Places(w), Blocked(k', k, w, t, Untold(w)),
         Goto(t, c), isr' = isr, live' \subseteq live
  PROVE  KInv' /\ NoUart'
<1>0. /\ t = k.cur /\ \A v \in WaitList : ~Waits(t, v)
      /\ c \in ServicesPC /\ c \notin Locked
  BY ExecutingRuns DEF Blocking, Locked, ServicesPC, PC, EventPC, PoolPC, QueuePC,
                       CompletionPC, PeriodicPC
<1>1. /\ pc' \in [Thread -> ServicesPC] /\ pc'[t] = c
      /\ \A u \in Thread : u # t => pc'[u] = pc[u]
  BY <1>0, KInvFacts DEF Goto
<1>2. /\ Sound(k', {}) /\ k'.cur = k.cur /\ k'.nest = k.nest
      /\ k'.stat[t] = "SUSPEND"
      /\ \A u \in Thread : u # t => k'.stat[u] = k.stat[u]
      /\ \A v \in WaitList, x \in Thread :
           Contains(k'.wait[v], x) <=> Contains(k.wait[v], x) \/ (v = w /\ x = t)
      /\ \A x \in Thread : k'.error[x] = IF x = t THEN Untold(w) ELSE k.error[x]
  BY DEF Blocked, OnlyStat, OnWait, Told
<1>3. ControlOK' /\ "usart" \notin live' /\ isr' \in {"none", "tick"}
  BY <1>1, KInvFacts DEF KInv, NoUart, ControlOK
<1>4. KernelOK'
  BY <1>0, <1>2, KInvFacts DEF KernelOK, CurrentSound
<1>5. CurrentRuns' /\ CanRun(k')
  BY <1>0, <1>1, <1>2, KInvFacts DEF NoUart, CurrentRuns, CanRun
<1>6. SuspendedKnown'
  <2> SUFFICES ASSUME NEW u \in Thread, k'.stat[u] = "SUSPEND"
               PROVE  pc'[u] \in Asleep \/ \E v \in WaitList : Contains(k'.wait[v], u)
    BY DEF SuspendedKnown, Waits
  <2>1. CASE u = t
    BY <1>2, <2>1
  <2>2. CASE u # t
    BY <1>1, <1>2, <2>2 DEF NoUart, SuspendedKnown, Waits
  <2> QED BY <2>1, <2>2
<1>7. WaitsInPlace'
  <2> SUFFICES ASSUME NEW u \in Thread, NEW v \in WaitList, Contains(k'.wait[v], u)
               PROVE  pc'[u] \in Places(v) /\ k'.error[u] = Untold(v)
    BY DEF WaitsInPlace, Waits
  <2>1. CASE u = t
    BY <1>0, <1>1, <1>2, <2>1 DEF Waits
  <2>2. CASE u # t
    BY <1>1, <1>2, <2>2 DEF NoUart, WaitsInPlace, Waits
  <2> QED BY <2>1, <2>2
<1>8. Answered'
  <2> SUFFICES ASSUME NEW u \in Thread, pc'[u] \in Places("event"),
                      k'.error[u] = "EINTR"
               PROVE  Contains(k'.wait["event"], u)
    BY DEF Answered, Waits
  <2>1. CASE u = t
    <3>1. w = "event"
      BY <1>1, <1>2, <2>1 DEF Untold
    <3> QED BY <1>2, <2>1, <3>1
  <2>2. CASE u # t
    BY <1>1, <1>2, <2>2, ServicesAssumption DEF NoUart, Answered, Waits
  <2> QED BY <2>1, <2>2
<1>9. NestOK'
  BY <1>0, <1>1, <1>2 DEF NoUart, NestOK
<1> QED BY <1>3, <1>4, <1>5, <1>6, <1>7, <1>8, <1>9 DEF KInv, NoUart

\* The executing thread begins to sleep.
LEMMA SleepStep ==
  ASSUME KInv, NoUart, NEW t \in Thread, NEW c, Executes(t), t # Idle,
         pc[t] \notin Blocking, k.nest = 0, c \in {"sleep_mark", "until_sched"},
         Sound(k', {}), OnlyStat(k', k, t, "SUSPEND"), k'.wait = k.wait,
         Told(k', k, t, "EOK"), Goto(t, c), isr' = isr, live' \subseteq live
  PROVE  KInv' /\ NoUart'
<1>0. /\ t = k.cur /\ \A v \in WaitList : ~Waits(t, v)
      /\ c \in ServicesPC /\ c \notin Locked /\ c \in Blocking /\ c \in Asleep
      /\ c \notin Places("event")
  BY ExecutingRuns DEF Blocking, Locked, Asleep, Places, ServicesPC, PC,
                       PeriodicPC
<1>1. /\ pc' \in [Thread -> ServicesPC] /\ pc'[t] = c
      /\ \A u \in Thread : u # t => pc'[u] = pc[u]
  BY <1>0, KInvFacts DEF Goto
<1>2. /\ k'.cur = k.cur /\ k'.nest = k.nest
      /\ k'.stat[t] = "SUSPEND"
      /\ \A u \in Thread : u # t => k'.stat[u] = k.stat[u]
      /\ \A x \in Thread : x # t => k'.error[x] = k.error[x]
  BY DEF OnlyStat, Told
<1>3. ControlOK' /\ "usart" \notin live' /\ isr' \in {"none", "tick"}
  BY <1>1, KInvFacts DEF KInv, NoUart, ControlOK
<1>4. KernelOK'
  BY <1>0, <1>2, KInvFacts DEF KernelOK, CurrentSound
<1>5. CurrentRuns' /\ CanRun(k')
  BY <1>0, <1>1, <1>2, KInvFacts DEF NoUart, CurrentRuns, CanRun
<1>6. SuspendedKnown'
  <2> SUFFICES ASSUME NEW u \in Thread, k'.stat[u] = "SUSPEND"
               PROVE  pc'[u] \in Asleep \/ \E v \in WaitList : Contains(k'.wait[v], u)
    BY DEF SuspendedKnown, Waits
  <2>1. CASE u = t
    BY <1>0, <1>1, <2>1
  <2>2. CASE u # t
    BY <1>1, <1>2, <2>2 DEF NoUart, SuspendedKnown, Waits
  <2> QED BY <2>1, <2>2
<1>7. WaitsInPlace'
  <2> SUFFICES ASSUME NEW u \in Thread, NEW v \in WaitList, Contains(k'.wait[v], u)
               PROVE  pc'[u] \in Places(v) /\ k'.error[u] = Untold(v)
    BY DEF WaitsInPlace, Waits
  <2>1. u # t
    BY <1>0 DEF Waits
  <2> QED BY <1>1, <1>2, <2>1 DEF NoUart, WaitsInPlace, Waits
<1>8. Answered'
  <2> SUFFICES ASSUME NEW u \in Thread, pc'[u] \in Places("event"),
                      k'.error[u] = "EINTR"
               PROVE  Contains(k'.wait["event"], u)
    BY DEF Answered, Waits
  <2>1. u # t
    BY <1>0, <1>1
  <2> QED BY <1>1, <1>2, <2>1 DEF NoUart, Answered, Waits
<1>9. NestOK'
  BY <1>0, <1>1, <1>2 DEF NoUart, NestOK
<1> QED BY <1>3, <1>4, <1>5, <1>6, <1>7, <1>8, <1>9 DEF KInv, NoUart

\* rt_thread_sleep marks the sleep as interrupted.
LEMMA MarkStep ==
  ASSUME KInv, NoUart, NEW t \in Thread, SleepMark(t), live' = live
  PROVE  KInv' /\ NoUart' /\ Told(k', k, t, "EINTR") /\ k'.wait = k.wait
<1>0. /\ pc[t] = "sleep_mark" /\ t = k.cur /\ isr = "none"
      /\ k' = [k EXCEPT !.error[t] = "EINTR"] /\ isr' = isr
      /\ pc' = [pc EXCEPT ![t] = "sleep_sched"]
  BY DEF SleepMark, At, Executes, Goto
<1>1. /\ Sound(k', {}) /\ SameThreads(k', k) /\ k'.wait = k.wait
      /\ Told(k', k, t, "EINTR")
  <2>1. "EINTR" \in Error
    BY DEF Error
  <2> DEFINE r == [k EXCEPT !.error[t] = "EINTR"]
  <2>2. /\ Sound(r, {}) /\ SameThreads(r, k) /\ SameClock(r, k)
        /\ r.timers = k.timers /\ r.wait = k.wait /\ r.group = k.group
        /\ Told(r, k, t, "EINTR")
    BY <2>1, KInvFacts, SetErrorSound
  <2> HIDE DEF r
  <2> QED BY <1>0, <2>2 DEF r
<1>2. /\ "sleep_sched" \in ServicesPC /\ "sleep_sched" \notin Locked
      /\ "sleep_sched" \in Blocking /\ "sleep_sched" \in Asleep
      /\ "sleep_sched" \notin Places("event")
      /\ \A w : "sleep_mark" \notin Places(w)
  BY DEF Blocking, Locked, Asleep, Places, ServicesPC, PC
<1>3. /\ pc' \in [Thread -> ServicesPC] /\ pc'[t] = "sleep_sched"
      /\ \A u \in Thread : u # t => pc'[u] = pc[u]
  BY <1>0, <1>2, KInvFacts
<1>4. /\ k'.cur = k.cur /\ k'.nest = k.nest /\ k'.stat = k.stat
      /\ \A u \in Thread : u # t => k'.error[u] = k.error[u]
  BY <1>1 DEF SameThreads, Told
<1>5. ControlOK' /\ "usart" \notin live' /\ isr' \in {"none", "tick"}
  BY <1>0, <1>3, KInvFacts DEF KInv, NoUart, ControlOK
<1>6. KernelOK'
  BY <1>1, <1>4, KInvFacts DEF KernelOK, CurrentSound
<1>7. CurrentRuns' /\ CanRun(k')
  BY <1>0, <1>2, <1>3, <1>4 DEF NoUart, CurrentRuns, CanRun
<1>8. SuspendedKnown'
  BY <1>1, <1>2, <1>3, <1>4 DEF NoUart, SuspendedKnown, Waits
<1>9. WaitsInPlace'
  BY <1>0, <1>1, <1>2, <1>3, <1>4 DEF NoUart, WaitsInPlace, Waits
<1>10. Answered'
  BY <1>1, <1>2, <1>3, <1>4 DEF NoUart, Answered, Waits
<1>11. NestOK'
  BY <1>0, <1>2, <1>3, <1>4 DEF NoUart, NestOK, Locked
<1> QED BY <1>1, <1>5, <1>6, <1>7, <1>8, <1>9, <1>10, <1>11 DEF KInv, NoUart

\* A reset locks the scheduler, and unlocks it when nobody waits any more.
LEMMA LockStep ==
  ASSUME KInv, NoUart, NEW t \in Thread, NEW n \in {0, 1}, NEW c,
         Executes(t), pc[t] \in {"reset_lock", "reset_sched"},
         k' = [k EXCEPT !.nest = n], Goto(t, c), isr' = isr, live' = live,
         IF n = 1 THEN c = "pop_test" ELSE c = "reset_sched"
  PROVE  KInv' /\ NoUart' /\ k'.wait = k.wait /\ k'.error = k.error
<1>0. /\ t = k.cur /\ k.stat[t] = "RUNNING"
      /\ \A w \in WaitList : ~Waits(t, w)
  BY ExecutingRuns DEF Blocking
<1>1. /\ k'.cur = k.cur /\ k'.nest = n /\ k'.stat = k.stat
      /\ k'.wait = k.wait /\ k'.error = k.error
      /\ k' \in KernelState
      /\ k'.ready = k.ready /\ k'.group = k.group /\ k'.defunct = k.defunct
      /\ k'.prio = k.prio /\ k'.timers = k.timers
  <2>1. k \in KernelState
    BY KInvFacts
  <2>2. n \in Nat
    OBVIOUS
  <2> QED BY <2>1, <2>2 DEF KernelState
<1>2. Sound(k', {})
  <2> DEFINE r == [k EXCEPT !.nest = n]
  <2>1. k' = r
    OBVIOUS
  <2> HIDE DEF r
  <2>2. /\ r \in KernelState
        /\ r.ready = k.ready /\ r.group = k.group /\ r.wait = k.wait
        /\ r.defunct = k.defunct /\ r.stat = k.stat /\ r.prio = k.prio
        /\ r.timers = k.timers
    BY <1>1, <2>1
  <2>3. Sound(r, {})
    BY <2>2, KInvFacts, SoundFrame
  <2> QED BY <2>1, <2>3
<1>3. /\ c \in ServicesPC /\ c \notin Blocking /\ c \notin Asleep
      /\ c \notin Places("event") /\ c \in Locked \cup {"reset_sched"}
      /\ n = 0 => c \notin Locked
      /\ pc[t] \notin Blocking
  BY DEF Blocking, Locked, Asleep, Places, ServicesPC, QueuePC
<1>4. /\ pc' \in [Thread -> ServicesPC] /\ pc'[t] = c
      /\ \A u \in Thread : u # t => pc'[u] = pc[u]
  BY <1>3, KInvFacts DEF Goto
<1>5. ControlOK' /\ "usart" \notin live' /\ isr' \in {"none", "tick"}
  <2>1. t # Idle
    BY DEF KInv, ControlOK
  <2> QED BY <1>4, <2>1, KInvFacts DEF KInv, NoUart, ControlOK
<1>6. KernelOK'
  BY <1>1, <1>2, KInvFacts DEF KernelOK, CurrentSound
<1>7. CurrentRuns' /\ CanRun(k')
  BY <1>0, <1>1 DEF NoUart, CurrentRuns, CanRun
<1>8. SuspendedKnown'
  BY <1>0, <1>1, <1>4 DEF NoUart, SuspendedKnown, Waits
<1>9. WaitsInPlace'
  BY <1>0, <1>1, <1>4 DEF NoUart, WaitsInPlace, Waits
<1>10. Answered'
  BY <1>1, <1>3, <1>4 DEF NoUart, Answered, Waits
<1>11. NestOK'
  BY <1>0, <1>1, <1>3, <1>4 DEF NoUart, NestOK
<1> QED BY <1>1, <1>5, <1>6, <1>7, <1>8, <1>9, <1>10, <1>11 DEF KInv, NoUart

-----------------------------------------------------------------------------
(* rt_event_send                                                           *)

\* The loop over the waiters, one of them at a time.
LEMMA VisitRounds ==
  ASSUME NEW z, NEW ts \in Seq(Thread)
  PROVE  \E rounds :
           /\ rounds[0] = z
           /\ \A i \in 1 .. Len(ts) : rounds[i] = Visit(rounds[i-1], ts[i])
           /\ rounds[Len(ts)] = FoldLeft(Visit, z, ts)
<1> DEFINE n == Len(ts)
           Body(g, m) == [S \in SUBSET (1 .. m) |->
                            IF S = {} THEN z
                            ELSE Visit(g[S \ {Max(S)}], ts[Max(S)])]
           Has == {m \in 0 .. n : \E g : g = Body(g, m)}
<1>0. n \in Nat /\ DOMAIN ts = 1 .. n
  OBVIOUS
<1>1. FoldLeft(Visit, z, ts) = (CHOOSE g : g = Body(g, n))[1 .. n]
  BY <1>0 DEF FoldLeft, MapThenFoldSet
<1> HIDE DEF n
<1>2. 0 \in Has
  <2> DEFINE g == [S \in SUBSET (1 .. 0) |-> z]
  <2>1. SUBSET (1 .. 0) = {{}}
    OBVIOUS
  <2>2. g = Body(g, 0)
    BY <2>1
  <2> QED BY <1>0, <2>2
<1>3. ASSUME NEW m \in 0 .. n - 1, m \in Has PROVE m + 1 \in Has
  <2>1. PICK h : h = Body(h, m)
    BY <1>3
  <2> DEFINE g == [S \in SUBSET (1 .. m + 1) |->
                     IF m + 1 \in S
                     THEN Visit(h[S \ {m + 1}], ts[m + 1]) ELSE h[S]]
  <2>2. ASSUME NEW S \in SUBSET (1 .. m + 1)
        PROVE  g[S] = IF S = {} THEN z
                      ELSE Visit(g[S \ {Max(S)}], ts[Max(S)])
    <3>1. CASE m + 1 \in S
      <4>1. Max(S) = m + 1
        <5>1. m + 1 \in Nat
          BY <1>0
        <5> QED BY <3>1, <5>1, MaxOfUpTo
      <4>2. /\ S \ {m + 1} \in SUBSET (1 .. m + 1) /\ m + 1 \notin S \ {m + 1}
        OBVIOUS
      <4>3. g[S \ {m + 1}] = h[S \ {m + 1}]
        BY <4>2
      <4>4. g[S] = Visit(h[S \ {m + 1}], ts[m + 1])
        BY <3>1
      <4> HIDE DEF g
      <4> QED BY <3>1, <4>1, <4>3, <4>4
    <3>2. CASE m + 1 \notin S
      <4>1. S \in SUBSET (1 .. m) /\ S \ {Max(S)} \in SUBSET (1 .. m)
        <5>1. \A y \in S : y \in 1 .. m + 1 /\ y # m + 1
          BY <3>2
        <5>2. \A y \in S : y \in 1 .. m
          BY <1>0, <5>1
        <5> QED BY <5>2
      <4>2. g[S] = h[S]
        BY <3>2
      <4>3. g[S \ {Max(S)}] = h[S \ {Max(S)}]
        <5>1. /\ S \ {Max(S)} \in SUBSET (1 .. m + 1)
              /\ m + 1 \notin S \ {Max(S)}
          BY <3>2
        <5> QED BY <5>1
      <4>4. h[S] = IF S = {} THEN z
                   ELSE Visit(h[S \ {Max(S)}], ts[Max(S)])
        BY <2>1, <4>1
      <4> HIDE DEF g
      <4> QED BY <4>2, <4>3, <4>4
    <3> QED BY <3>1, <3>2
  <2>3. g = Body(g, m + 1)
    <3> DEFINE b == Body(g, m + 1)
    <3>1. \A S \in SUBSET (1 .. m + 1) : g[S] = b[S]
      BY <2>2
    <3>2. /\ g = [S \in SUBSET (1 .. m + 1) |-> g[S]]
          /\ b = [S \in SUBSET (1 .. m + 1) |-> b[S]]
      OBVIOUS
    <3> HIDE DEF g, b
    <3>3. [S \in SUBSET (1 .. m + 1) |-> g[S]]
             = [S \in SUBSET (1 .. m + 1) |-> b[S]]
      BY <3>1
    <3>4. g = b
      BY <3>2, <3>3, Zenon
    <3> QED BY <3>4 DEF b
  <2>4. m + 1 \in 0 .. n
    BY <1>0
  <2> HIDE DEF g
  <2> QED BY <2>3, <2>4
<1>4. n \in Has
  <2> HIDE DEF Has
  <2>1. \A i \in 0 .. n : i \in Has
    BY <1>0, <1>2, <1>3, SetInduction
  <2> QED BY <1>0, <2>1
<1> DEFINE iter == CHOOSE g : g = Body(g, n)
<1>5. iter = Body(iter, n)
  BY <1>4
<1> HIDE DEF iter
<1> DEFINE rounds == [i \in 0 .. n |-> iter[1 .. i]]
<1>6. rounds[0] = z
  <2>1. 1 .. 0 = {} /\ {} \in SUBSET (1 .. n)
    OBVIOUS
  <2>2. iter[{}] = z
    BY <1>5, <2>1
  <2> QED BY <1>0, <2>1, <2>2
<1>7. ASSUME NEW i \in 1 .. n
      PROVE  rounds[i] = Visit(rounds[i-1], ts[i])
  <2>1. /\ 1 .. i \in SUBSET (1 .. n) /\ 1 .. i # {} /\ i \in 1 .. i
        /\ (1 .. i) \ {i} = 1 .. i - 1
    <3> HIDE DEF rounds
    <3>1. i \in Nat /\ 1 <= i /\ i <= n
      BY <1>0
    <3>2. \A y : y \in 1 .. i => y \in 1 .. n
      BY <1>0, <3>1
    <3>3. \A y : y \in (1 .. i) \ {i} <=> y \in 1 .. i - 1
      BY <3>1
    <3> QED BY <3>1, <3>2, <3>3
  <2>2. Max(1 .. i) = i
    BY <1>0, <2>1, MaxOfUpTo
  <2>3. iter[1 .. i] = Visit(iter[1 .. i - 1], ts[i])
    BY <1>5, <2>1, <2>2
  <2>4. rounds[i] = iter[1 .. i] /\ rounds[i-1] = iter[1 .. i - 1]
    BY <1>0
  <2> QED BY <2>3, <2>4
<1>8. rounds[n] = FoldLeft(Visit, z, ts)
  BY <1>0, <1>1 DEF iter
<1> HIDE DEF rounds
<1> QED BY <1>6, <1>7, <1>8 DEF n

EventInfo == [set : SUBSET Bit, and : BOOLEAN, clear : BOOLEAN]

\* Of the flags in all, each thread of X has got what it asks for, those that
\* clear theirs each their own; what they have not cleared is in r.set.
Shared(r, all, X) ==
  /\ r.set \subseteq Bit /\ r.info \in [Thread -> EventInfo]
  /\ \A t \in Thread :
       /\ r.info[t].and = info[t].and /\ r.info[t].clear = info[t].clear
       /\ t \notin X => r.info[t] = info[t]
  /\ \A t \in X : /\ r.info[t].set \subseteq all \cap info[t].set
                  /\ Satisfied(info[t], r.info[t].set)
  /\ \A t, u \in X : t # u /\ info[t].clear /\ info[u].clear
                       => r.info[t].set \cap r.info[u].set = {}
  /\ \A b \in Bit : b \in r.set <=>
       b \in all /\ \A u \in X : info[u].clear => b \notin r.info[u].set

\* The loop has come as far as the threads of V, and has woken those of X.
SentTo(r, all, V, X) ==
  /\ X \subseteq V /\ V \subseteq Thread
  /\ Sound(r.k, {}) /\ AllWoken(r.k, k, X, "EOK") /\ Spares(r.k, k, {})
  /\ Shared(r, all, X)
  /\ \A t \in V \ X : ~Satisfied(info[t], r.set)

\* One more waiter is looked at.
LEMMA VisitSound ==
  ASSUME EventTypeOK, NEW r, NEW all \in SUBSET Bit, NEW V, NEW X,
         SentTo(r, all, V, X), NEW t \in Thread \ V, Waits(t, "event")
  PROVE  \E Y : SentTo(Visit(r, t), all, V \cup {t}, Y)
<1>0. /\ t \in Thread /\ t \notin X /\ t \notin V
      /\ info \in [Thread -> EventInfo] /\ r.info \in [Thread -> EventInfo]
      /\ r.info[t] = info[t] /\ info[t] \in EventInfo /\ "event" \in WaitList
      /\ r.set \subseteq Bit
  BY ServicesAssumption DEF SentTo, Shared, EventTypeOK, EventInfo
<1>1. CASE ~Satisfied(r.info[t], r.set)
  <2>1. Visit(r, t) = r
    BY <1>1 DEF Visit
  <2>2. SentTo(r, all, V \cup {t}, X)
    BY <1>0, <1>1 DEF SentTo
  <2> QED BY <2>1, <2>2
<1>2. CASE Satisfied(r.info[t], r.set)
  <2> DEFINE mine == [r.info[t] EXCEPT !.set = @ \cap r.set]
             s == [ResumeThread(r.k, t) EXCEPT !.error[t] = "EOK"]
             rest == Without(mine, r.set)
             told == [r.info EXCEPT ![t] = mine]
             Y == X \cup {t}
             v == Visit(r, t)
  <2>1. v.k = s /\ v.set = rest /\ v.info = told
    BY <1>2 DEF Visit
  <2>2. Sound(s, {}) /\ AllWoken(s, k, Y, "EOK") /\ Spares(s, k, {})
    <3>1. Contains(r.k.wait["event"], t) /\ "EOK" \in Error
      BY <1>0 DEF SentTo, AllWoken, Waits, Error
    <3>2. Woken(s, r.k, {}, t, "EOK") /\ Spares(s, r.k, {})
      BY <1>0, <3>1, ResumeAndTell, WakeSpares DEF SentTo
    <3> HIDE DEF s
    <3>3. AllWoken(s, k, Y, "EOK")
      BY <1>0, <3>2, OneMoreWoken DEF SentTo
    <3>4. Spares(s, k, {})
      BY <3>2, SparesTrans DEF SentTo
    <3> QED BY <3>2, <3>3, <3>4 DEF Woken
  <2> HIDE DEF s, v
  <2>3. /\ mine \in EventInfo /\ mine.set = info[t].set \cap r.set
        /\ mine.and = info[t].and /\ mine.clear = info[t].clear
    BY <1>0 DEF EventInfo
  <2> HIDE DEF mine
  <2>4. /\ told \in [Thread -> EventInfo] /\ told[t] = mine
        /\ \A u \in Thread : u # t => told[u] = r.info[u]
    BY <1>0, <2>3
  <2> HIDE DEF told
  <2>5. Satisfied(info[t], mine.set)
    BY <1>0, <1>2, <2>3 DEF Satisfied
  <2>6. \A b \in Bit : b \in rest <=>
           b \in r.set /\ (info[t].clear => b \notin mine.set)
    BY <1>0, <2>3 DEF Without
  <2>7. rest \subseteq r.set
    BY <2>3 DEF Without
  <2> HIDE DEF rest
  <2>8. r.set \subseteq all
    BY <1>0 DEF SentTo, Shared
  <2>9. Shared(v, all, Y)
    <3>1. v.set \subseteq Bit /\ v.info \in [Thread -> EventInfo]
      BY <1>0, <2>1, <2>4, <2>7
    <3>2. \A u \in Thread :
            /\ v.info[u].and = info[u].and /\ v.info[u].clear = info[u].clear
            /\ u \notin Y => v.info[u] = info[u]
      BY <2>1, <2>3, <2>4 DEF SentTo, Shared
    <3>3. \A u \in Y : /\ v.info[u].set \subseteq all \cap info[u].set
                       /\ Satisfied(info[u], v.info[u].set)
      BY <1>0, <2>1, <2>3, <2>4, <2>5, <2>8 DEF SentTo, Shared
    <3>4. ASSUME NEW u \in X, info[u].clear
          PROVE  v.info[u].set \cap mine.set = {}
      BY <1>0, <2>1, <2>3, <2>4, <3>4 DEF SentTo, Shared
    <3>5. \A u, w \in Y : u # w /\ info[u].clear /\ info[w].clear
                            => v.info[u].set \cap v.info[w].set = {}
      BY <1>0, <2>1, <2>4, <3>4 DEF SentTo, Shared
    <3>6. ASSUME NEW b \in Bit
          PROVE  b \in v.set <=>
                   b \in all /\ \A u \in Y : info[u].clear => b \notin v.info[u].set
      <4>1. b \in r.set <=>
              b \in all /\ \A u \in X : info[u].clear => b \notin v.info[u].set
        BY <1>0, <2>1, <2>4 DEF SentTo, Shared
      <4>2. v.info[t] = mine
        BY <2>1, <2>4
      <4> QED BY <2>1, <2>6, <4>1, <4>2
    <3> QED BY <3>1, <3>2, <3>3, <3>5, <3>6 DEF Shared
  <2>10. \A u \in (V \cup {t}) \ Y : ~Satisfied(info[u], rest)
    BY <2>7 DEF SentTo, Satisfied
  <2>11. SentTo(v, all, V \cup {t}, Y)
    BY <1>0, <2>1, <2>2, <2>9, <2>10 DEF SentTo
  <2> QED BY <2>11 DEF v
<1> QED BY <1>1, <1>2

\* Some waiters get the flags they ask for, and nobody is left for whom there
\* are enough of them.
LEMMA SentSound ==
  ASSUME Sound(k, {}), EventTypeOK, NEW sent \in SUBSET Bit
  PROVE  \E X : SentTo(Sent(sent), set \cup sent,
                       {x \in Thread : Waits(x, "event")}, X)
<1> DEFINE ts == k.wait["event"]
           n == Len(ts)
           all == set \cup sent
           First(i) == {ts[j] : j \in 1 .. i}
           z == [k |-> k, set |-> all, info |-> info]
<1>0. ts \in Seq(Thread) /\ IsInjective(ts) /\ n \in Nat /\ "event" \in WaitList
  BY ServicesAssumption DEF Sound, KernelState, ListsSound
<1>1. Sent(sent) = FoldLeft(Visit, z, ts)
  BY DEF Sent
<1>2. PICK rounds :
         /\ rounds[0] = z
         /\ \A i \in 1 .. n : rounds[i] = Visit(rounds[i-1], ts[i])
         /\ rounds[n] = FoldLeft(Visit, z, ts)
  BY <1>0, VisitRounds
<1>3. \A i \in 1 .. n : ts[i] \in Thread /\ Waits(ts[i], "event")
  BY <1>0 DEF Contains, Waits
<1>4. \A i, j \in 1 .. n : ts[i] = ts[j] => i = j
  BY <1>0 DEF IsInjective
<1>5. all \in SUBSET Bit
  BY DEF EventTypeOK
<1>6. SentTo(z, all, {}, {})
  <2>1. AllWoken(k, k, {}, "EOK") /\ Spares(k, k, {})
    BY SparesSame DEF AllWoken, SameClock
  <2>2. Shared(z, all, {})
    BY <1>5 DEF Shared, EventTypeOK, EventInfo
  <2> QED BY <2>1, <2>2 DEF SentTo
<1>7. First(n) = {x \in Thread : Waits(x, "event")}
  BY <1>0, <1>3 DEF Contains, Waits
<1> HIDE DEF ts, n, z, all
<1> DEFINE Good(i) == \E X : SentTo(rounds[i], all, First(i), X)
           Done == {i \in 0 .. n : Good(i)}
<1>8. 0 \in Done
  <2>1. First(0) = {}
    OBVIOUS
  <2>2. Good(0)
    <3> HIDE DEF First
    <3> QED BY <1>2, <1>6, <2>1
  <2> HIDE DEF Good
  <2> QED BY <1>0, <2>2
<1>9. ASSUME NEW i \in 0 .. n - 1, i \in Done PROVE i + 1 \in Done
  <2> DEFINE t == ts[i + 1]
             y == rounds[i]
  <2>1. i + 1 \in 1 .. n /\ (i + 1) - 1 = i
    BY <1>0
  <2>2. t \in Thread /\ Waits(t, "event")
    BY <1>3, <2>1
  <2>3. t \notin First(i)
    BY <1>0, <1>4, <2>1
  <2>4. First(i + 1) = First(i) \cup {t}
    BY <1>0
  <2>5. rounds[i + 1] = Visit(y, t)
    BY <1>2, <2>1
  <2>6. PICK X : SentTo(y, all, First(i), X)
    <3>1. Good(i)
      <4> HIDE DEF Good
      <4> QED BY <1>9
    <3> HIDE DEF First
    <3> QED BY <3>1
  <2> HIDE DEF First, t, y
  <2>7. \E Y : SentTo(Visit(y, t), all, First(i) \cup {t}, Y)
    BY <1>5, <2>2, <2>3, <2>6, VisitSound
  <2>8. Good(i + 1)
    BY <2>4, <2>5, <2>7
  <2> HIDE DEF Good
  <2> QED BY <1>0, <2>8
<1>10. n \in Done
  <2> HIDE DEF Done
  <2>1. \A i \in 0 .. n : i \in Done
    BY <1>0, <1>8, <1>9, SetInduction
  <2> QED BY <1>0, <2>1
<1>11. Good(n)
  <2> HIDE DEF Good
  <2> QED BY <1>10
<1> HIDE DEF First
<1> QED BY <1>1, <1>2, <1>7, <1>11 DEF all

-----------------------------------------------------------------------------
(* Whom a step concerns *)

\* A call of another service goes on as if nothing had happened.
Untouched(t) ==
  /\ pc'[t] = pc[t] /\ k'.error[t] = k.error[t]
  /\ \A w \in WaitList : Contains(k'.wait[w], t) <=> Contains(k.wait[w], t)

\* The points of a service, A, and those all services share.
Points(A) == A \cup {"run", "sched"}

\* A step concerns only threads that are, and stay, in calls of one service.
Foot(A) ==
  \A t \in Thread :
     Untouched(t) \/ (pc[t] \in Points(A) /\ pc'[t] \in Points(A))

\* Points where a thread neither has blocked itself nor resets a queue.
Plain == ServicesPC \ (Blocking \cup Locked \cup {"reset_sched"})

\* The executing thread t releases those of X, which wait for its service.
LEMMA GoOn ==
  ASSUME KInv, NoUart, NEW A, NEW t \in Thread, NEW c, NEW X,
         NEW e \in {"EOK", "ETIMEOUT", "ERROR"},
         Executes(t), t # Idle, pc[t] \in Plain, pc[t] \in Points(A),
         c \in Plain, c \in Points(A), c = "recv_return" => t \in X,
         \A x \in Thread : x \in X => x = t \/ pc[x] \in Points(A),
         Released(k', k, X, e), Goto(t, c), isr' = isr, live' \subseteq live
  PROVE  KInv' /\ NoUart' /\ Foot(A)
<1>1. k.nest = 0 /\ pc[t] \notin Blocking
  BY Unlocked DEF Plain
<1>2. MayGo(c) /\ (c \in Places("event") => t \in X)
  BY <1>1 DEF Plain, MayGo, Places, Blocking
<1>3. e \in Error /\ e # "EINTR"
  BY DEF Error
<1>4. KInv' /\ NoUart'
  BY <1>1, <1>2, <1>3, GoOnStep
<1>5. /\ pc'[t] = c /\ \A u \in Thread : u # t => pc'[u] = pc[u]
  BY KInvFacts DEF Goto
<1>6. \A x \in Thread : x \notin X => 
        /\ k'.error[x] = k.error[x]
        /\ \A w \in WaitList : Contains(k'.wait[w], x) <=> Contains(k.wait[w], x)
  BY DEF Released
<1>7. Foot(A)
  BY <1>5, <1>6 DEF Foot, Untouched
<1> QED BY <1>4, <1>7

\* A handler releases those of X, which wait for its service.
LEMMA Handle ==
  ASSUME KInv, NoUart, NEW A, NEW X, NEW e \in {"EOK", "ETIMEOUT", "ERROR"},
         \A x \in Thread : x \in X => pc[x] \in Points(A),
         Released(k', k, X, e), pc' = pc, isr' = isr, live' = live
  PROVE  KInv' /\ NoUart' /\ Foot(A)
<1>1. e \in Error /\ e # "EINTR" /\ isr' \in {"none", "tick"}
  BY DEF Error, NoUart
<1>2. KInv' /\ NoUart'
  BY <1>1, HandlerStep
<1>3. \A x \in Thread : x \notin X => 
        /\ k'.error[x] = k.error[x]
        /\ \A w \in WaitList : Contains(k'.wait[w], x) <=> Contains(k.wait[w], x)
  BY DEF Released
<1>4. Foot(A)
  BY <1>3 DEF Foot, Untouched
<1> QED BY <1>2, <1>4

\* The executing thread blocks itself on a list of its service.
LEMMA BlockOn ==
  ASSUME KInv, NoUart, NEW A, NEW t \in Thread, NEW c, NEW w \in WaitList,
         Executes(t), t # Idle, pc[t] \in Plain, pc[t] \in Points(A),
         c \in Blocking, c \in Places(w), c \in Points(A),
         Blocked(k', k, w, t, Untold(w)), Goto(t, c), isr' = isr, live' \subseteq live
  PROVE  KInv' /\ NoUart' /\ Foot(A)
<1>1. k.nest = 0 /\ pc[t] \notin Blocking
  BY Unlocked DEF Plain
<1>2. KInv' /\ NoUart'
  BY <1>1, BlockStep
<1>3. /\ pc'[t] = c /\ \A u \in Thread : u # t => pc'[u] = pc[u]
  BY KInvFacts DEF Goto
<1>4. \A x \in Thread : x # t => 
        /\ k'.error[x] = k.error[x]
        /\ \A v \in WaitList : Contains(k'.wait[v], x) <=> Contains(k.wait[v], x)
  BY DEF Blocked, OnWait, Told
<1>5. Foot(A)
  BY <1>3, <1>4 DEF Foot, Untouched
<1> QED BY <1>2, <1>5

\* A thread that has blocked itself schedules.
LEMMA GiveUp ==
  ASSUME KInv, NoUart, NEW A, NEW t \in Thread, NEW b, NEW c,
         At(t, b), b \in Blocking \ {"sleep_mark"}, c = AfterBlock(b),
         b \in A, c \in A, k' = Schedule(k), Goto(t, c), isr' = isr, live' = live
  PROVE  KInv' /\ NoUart' /\ Foot(A) /\ Released(k', k, {}, "EOK")
<1>1. Executes(t) /\ pc[t] = b /\ t # Idle
  BY DEF At, KInv, ControlOK, Blocking
<1>2. KInv' /\ NoUart' /\ Released(k', k, {}, "EOK")
  BY <1>1, GiveUpStep
<1>3. /\ pc'[t] = c /\ \A u \in Thread : u # t => pc'[u] = pc[u]
  BY KInvFacts DEF Goto
<1>4. Foot(A)
  BY <1>1, <1>2, <1>3 DEF Released, Foot, Untouched, Points
<1> QED BY <1>2, <1>4

\* Where a thread is that waits, and who may be released.
LEMMA WaiterPoints ==
  ASSUME KInv, NoUart, NEW w \in WaitList, NEW x \in Thread, Waits(x, w)
  PROVE  pc[x] \in Places(w) /\ k.error[x] = Untold(w) /\ k.stat[x] = "SUSPEND"
BY KInvFacts DEF NoUart, WaitsInPlace

\* A call returns: what it has noted is forgotten.
LEMMA BackOn ==
  ASSUME KInv, NoUart, NEW A, NEW t \in Thread, Executes(t), pc[t] # "run",
         pc[t] \in Plain, pc[t] \in A, Back(t), isr' = isr, live' = live
  PROVE  /\ KInv' /\ NoUart' /\ Foot(A)
         /\ Released(k', k, {t}, "EOK") /\ Goto(t, "run")
<1>1. t # Idle /\ k.stat[t] # "SUSPEND"
  BY ExecutingRuns DEF KInv, ControlOK, Plain
<1>2. k' = [k EXCEPT !.error[t] = "EOK"] /\ Goto(t, "run")
  BY DEF Back
<1>3. Released(k', k, {t}, "EOK")
  <2> DEFINE r == [k EXCEPT !.error[t] = "EOK"]
  <2>1. "EOK" \in Error
    BY DEF Error
  <2>2. Released(r, k, {t}, "EOK")
    BY <1>1, <2>1, KInvFacts, ErrorReleased
  <2> HIDE DEF r
  <2> QED BY <1>2, <2>2 DEF r
<1>4. /\ "run" \in Plain /\ "run" \in Points(A) /\ pc[t] \in Points(A)
      /\ \A x \in Thread : x \in {t} => x = t \/ pc[x] \in Points(A)
  BY DEF Plain, Points, Blocking, Locked, ServicesPC, PC
<1> QED BY <1>1, <1>2, <1>3, <1>4, GoOn

-----------------------------------------------------------------------------
(* Events                                                                  *)

RecvPC == {"recv_sched", "recv_return"}

\* What happens to the abstract event group.
GroupGoesOn ==
  Group!Next \/ UNCHANGED <<set, [t \in Thread |-> RecvCall(t)]>>

\* A thread that is not in rt_event_recv is in no call of the event group.
LEMMA NoRecvCall ==
  KInv /\ NoUart => \A t \in Thread : pc[t] \notin RecvPC =>
    ~Waits(t, "event") /\ RecvCall(t) = [at |-> "none"]
<1> SUFFICES ASSUME KInv, NoUart, NEW t \in Thread, pc[t] \notin RecvPC
             PROVE  ~Waits(t, "event") /\ RecvCall(t) = [at |-> "none"]
  OBVIOUS
<1>1. "event" \in WaitList /\ Places("event") = RecvPC
  BY ServicesAssumption DEF Places, RecvPC
<1>2. ~Waits(t, "event")
  BY <1>1, WaiterPoints
<1> QED BY <1>2 DEF RecvCall, RecvPC

\* The same in the next state.
LEMMA NoRecvCallNext ==
  (KInv /\ NoUart => \A t \in Thread : pc[t] \notin RecvPC =>
     ~Waits(t, "event") /\ RecvCall(t) = [at |-> "none"])'
BY NoRecvCall, PTL

\* The call of a thread stays as it is.
LEMMA SameRecvCall ==
  ASSUME NEW t \in Thread, k'.error[t] = k.error[t], info'[t] = info[t],
         Contains(k'.wait["event"], t) <=> Contains(k.wait["event"], t),
         pc'[t] = pc[t] \/ (pc[t] \in RecvPC /\ pc'[t] \in RecvPC)
  PROVE  RecvCall(t)' = RecvCall(t)
BY DEF RecvCall, Waits, Failed, RecvPC

\* No call changes, and the flags do not.
LEMMA SameRecvCalls ==
  ASSUME \A t \in Thread : RecvCall(t)' = RecvCall(t), set' = set
  PROVE  GroupGoesOn
BY DEF GroupGoesOn

\* The call of one thread changes.
LEMMA OneRecvCall ==
  ASSUME NEW t \in Thread, \A u \in Thread : u # t => RecvCall(u)' = RecvCall(u)
  PROVE  [u \in Thread |-> RecvCall(u)]'
           = [[u \in Thread |-> RecvCall(u)] EXCEPT ![t] = RecvCall(t)']
OBVIOUS

\* Nothing happens to the event group where another service is used.
LEMMA EventForeign ==
  ASSUME KInv, NoUart, KInv', NoUart', NEW A, Foot(A), A \cap RecvPC = {},
         UNCHANGED evars
  PROVE  GroupGoesOn
<1>1. set' = set /\ info' = info
  BY DEF evars
<1>2. ASSUME NEW t \in Thread PROVE RecvCall(t)' = RecvCall(t)
  <2>1. CASE Untouched(t)
    <3>1. "event" \in WaitList
      BY ServicesAssumption
    <3> QED BY <1>1, <2>1, <3>1, SameRecvCall DEF Untouched
  <2>2. CASE pc[t] \in Points(A) /\ pc'[t] \in Points(A)
    <3>1. pc[t] \notin RecvPC /\ pc'[t] \notin RecvPC
      BY <2>2 DEF Points, RecvPC
    <3>2. RecvCall(t) = [at |-> "none"]
      BY <3>1, NoRecvCall
    <3>3. RecvCall(t)' = [at |-> "none"]
      BY <3>1, NoRecvCallNext
    <3> QED BY <3>2, <3>3
  <2> QED BY <2>1, <2>2 DEF Foot
<1> QED BY <1>1, <1>2, SameRecvCalls

\* The threads that rt_event_send wakes.
LEMMA SentReleased ==
  ASSUME KInv, NoUart, EventTypeOK, NEW sent \in SUBSET Bit
  PROVE  \E X \in SUBSET Thread :
           /\ SentTo(Sent(sent), set \cup sent,
                     {x \in Thread : Waits(x, "event")}, X)
           /\ Released(Sent(sent).k, k, X, "EOK")
           /\ \A x \in X : Waits(x, "event") /\ pc[x] \in RecvPC
                           /\ k.stat[x] = "SUSPEND"
<1> DEFINE V == {x \in Thread : Waits(x, "event")}
           r == Sent(sent)
           all == set \cup sent
<1>1. PICK X : SentTo(r, all, V, X)
  BY KInvFacts, SentSound
<1>2. X \subseteq Thread /\ \A x \in X : Waits(x, "event")
  BY <1>1 DEF SentTo
<1>3. \A x \in X : pc[x] \in RecvPC /\ k.stat[x] = "SUSPEND"
  <2>1. "event" \in WaitList /\ Places("event") = RecvPC
    BY ServicesAssumption DEF Places, RecvPC
  <2> QED BY <1>2, <2>1, WaiterPoints
<1> HIDE DEF r, all, V
<1>4. Released(r.k, k, X, "EOK")
  <2>1. Sound(r.k, {}) /\ AllWoken(r.k, k, X, "EOK")
    BY <1>1 DEF SentTo
  <2>2. \A x \in Thread : x \in X => k.stat[x] = "SUSPEND"
    BY <1>3
  <2> QED BY <2>1, <2>2, KInvFacts, TogetherReleased
<1> QED BY <1>1, <1>2, <1>3, <1>4 DEF r, all, V

\* What they get is what the abstract event group gives them.
LEMMA SendImplements ==
  ASSUME KInv, NoUart, EventTypeOK, NEW sent \in SUBSET Bit,
         NEW X \in SUBSET Thread,
         SentTo(Sent(sent), set \cup sent, {x \in Thread : Waits(x, "event")}, X),
         \A x \in X : Waits(x, "event") /\ pc[x] \in RecvPC,
         Released(k', k, X, "EOK"), set' = Sent(sent).set, info' = Sent(sent).info,
         KInv', NoUart',
         \A u \in Thread : pc'[u] = pc[u] \/ (pc[u] \notin RecvPC /\ pc'[u] \notin RecvPC)
  PROVE  EventTypeOK' /\ GroupGoesOn
<1> DEFINE all == set \cup sent
           calls == [t \in Thread |-> RecvCall(t)]
           V == {x \in Thread : Waits(x, "event")}
           gets(t) == info'[t].set
<1>0. "event" \in WaitList
  BY ServicesAssumption
<1>1. /\ set' \subseteq Bit /\ info' \in [Thread -> EventInfo]
      /\ \A t \in Thread : t \notin X => info'[t] = info[t]
      /\ \A t \in X : /\ gets(t) \subseteq all \cap info[t].set
                      /\ Satisfied(info[t], gets(t))
      /\ \A t, u \in X : t # u /\ info[t].clear /\ info[u].clear
                           => gets(t) \cap gets(u) = {}
      /\ \A b \in Bit : b \in set' <=>
           b \in all /\ \A u \in X : info[u].clear => b \notin gets(u)
      /\ \A t \in V \ X : ~Satisfied(info[t], set')
  BY DEF SentTo, Shared
<1>2. EventTypeOK'
  BY <1>1 DEF EventTypeOK, EventInfo
<1>3. ASSUME NEW t \in X
      PROVE  /\ RecvCall(t) = [at |-> "waiting", request |-> info[t]]
             /\ RecvCall(t)' = [at |-> "granted", got |-> gets(t)]
  <2>1. Waits(t, "event") /\ pc'[t] \in RecvPC
    OBVIOUS
  <2>2. ~Contains(k'.wait["event"], t) /\ k'.error[t] = "EOK"
    BY <1>0 DEF Released
  <2> QED BY <2>1, <2>2 DEF RecvCall, RecvPC, Waits
<1>4. ASSUME NEW t \in Thread, t \notin X PROVE RecvCall(t)' = RecvCall(t)
  <2>1. /\ k'.error[t] = k.error[t] /\ info'[t] = info[t]
        /\ Contains(k'.wait["event"], t) <=> Contains(k.wait["event"], t)
    BY <1>0, <1>1, <1>4 DEF Released
  <2>2. CASE pc'[t] = pc[t]
    BY <2>1, <2>2, SameRecvCall
  <2>3. CASE pc[t] \notin RecvPC /\ pc'[t] \notin RecvPC
    BY <2>3, NoRecvCall, NoRecvCallNext
  <2> QED BY <2>2, <2>3
<1>5. \A t \in Thread : /\ calls[t].at = "waiting" <=> t \in V
                        /\ t \in V => calls[t].request = info[t]
  BY DEF RecvCall
<1>6. Group!Waiting = V
  BY <1>5 DEF Group!Waiting
<1>7. /\ \A t \in Thread : calls'[t] = RecvCall(t)'
      /\ V \subseteq Thread /\ X \subseteq V
  BY DEF SentTo
<1>8. \A t \in V : calls'[t].at = "granted" <=> t \in X
  <2>1. \A t \in V \ X : calls'[t].at = "waiting"
    BY <1>4, <1>5, <1>7
  <2>2. \A t \in X : calls'[t].at = "granted"
    BY <1>3, <1>7
  <2> QED BY <2>1, <2>2
<1>9. \A t \in X : calls'[t].got = gets(t)
  BY <1>3, <1>7
<1>10. all \subseteq Bit
  BY DEF EventTypeOK
<1>11. calls' = [t \in Thread |-> IF t \in X THEN [at |-> "granted", got |-> gets(t)]
                                            ELSE calls[t]]
  BY <1>3, <1>4
<1> HIDE DEF calls, all, V, gets
<1>12. Group!Send
  <2> DEFINE given == {t \in Group!Waiting : calls'[t].at = "granted"}
             clears == {t \in given : calls[t].request.clear}
             has(t) == calls'[t].got
  <2>1. given = X
    BY <1>6, <1>7, <1>8
  <2>2. clears = {t \in X : info[t].clear}
    BY <1>5, <1>7, <2>1
  <2>8. \A t \in X : t \in Thread /\ has(t) = gets(t)
                    /\ calls[t].request = info[t]
    BY <1>5, <1>7, <1>9
  <2> HIDE DEF given, clears, has
  <2>3. \A t \in given : /\ has(t) \subseteq all \cap calls[t].request.set
                         /\ Group!Holds(calls[t].request, has(t))
    BY <1>1, <2>1, <2>8 DEF Group!Holds, Satisfied
  <2>4. \A t, u \in clears : t # u => has(t) \cap has(u) = {}
    BY <1>1, <2>2, <2>8
  <2>5. set' = all \ UNION {has(t) : t \in clears}
    <3>1. \A b : b \in set' <=> b \in all \ UNION {has(t) : t \in clears}
      BY <1>1, <1>10, <2>2, <2>8
    <3> QED BY <3>1
  <2>6. \A t \in Group!Waiting \ given : ~Group!Holds(calls[t].request, set')
    BY <1>1, <1>5, <1>6, <1>7, <2>1 DEF Group!Holds, Satisfied
  <2>7. calls' = [t \in Thread |-> IF t \in given THEN Group!Has(has(t)) ELSE calls[t]]
    BY <1>11, <2>1, <2>8 DEF Group!Has
  <2> QED BY <2>3, <2>4, <2>5, <2>6, <2>7
          DEF Group!Send, given, clears, has, calls, all
<1> QED BY <1>2, <1>12 DEF GroupGoesOn, Group!Next

\* A thread at a point of a service is not the idle thread, and a thread that
\* calls one runs its own code.
LEMMA CallerFacts ==
  ASSUME KInv, NoUart, NEW A, NEW t \in Thread, NEW service, Calls(t, service)
  PROVE  /\ Executes(t) /\ t # Idle /\ pc[t] = "run" /\ service \in live
         /\ "run" \in Plain /\ "sched" \in Plain /\ pc[t] \in Plain
         /\ "run" \in Points(A) /\ "sched" \in Points(A) /\ pc[t] \in Points(A)
         /\ t = k.cur /\ k.stat[t] = "RUNNING" /\ k.nest = 0
         /\ \A w \in WaitList : ~Waits(t, w)
<1>1. Executes(t) /\ t # Idle /\ pc[t] = "run" /\ service \in live
  BY DEF Calls, At
<1>2. /\ "run" \in Plain /\ "sched" \in Plain
      /\ "run" \in Points(A) /\ "sched" \in Points(A)
  BY DEF Plain, Points, Blocking, Locked, ServicesPC, PC
<1>3. pc[t] \notin Blocking /\ pc[t] \notin Locked \cup {"reset_sched"}
  BY <1>1 DEF Blocking, Locked
<1> QED BY <1>1, <1>2, <1>3, ExecutingRuns, Unlocked

\* The thread that executes notes an error of its own.
LEMMA NoteError ==
  ASSUME KInv, NoUart, NEW t \in Thread, k.stat[t] # "SUSPEND",
         NEW e \in Error, k' = [k EXCEPT !.error[t] = e]
  PROVE  Released(k', k, {t}, e)
<1> DEFINE r == [k EXCEPT !.error[t] = e]
<1>1. Released(r, k, {t}, e)
  BY KInvFacts, ErrorReleased
<1> HIDE DEF r
<1> QED BY <1>1 DEF r

\* A step that concerns few of a service's points concerns its points.
LEMMA FootGrows ==
  ASSUME NEW A, NEW B, A \subseteq B, Foot(A)
  PROVE  Foot(B)
BY DEF Foot, Points

\* What every step of an event keeps to.
EventKept == KInv /\ NoUart /\ EventTypeOK

\* rt_event_send by a thread.
LEMMA EventSendStep ==
  ASSUME EventKept, NEW t \in Thread, EventSend(t)
  PROVE  EventKept' /\ Foot(EventPC) /\ GroupGoesOn
<1>0. KInv /\ NoUart /\ EventTypeOK
  BY DEF EventKept
<1>1. PICK flags \in Sends :
        LET r == Sent(flags) IN
        /\ k' = r.k /\ set' = r.set /\ info' = r.info
        /\ Goto(t, IF r.k = k THEN "run" ELSE "sched")
  BY DEF EventSend
<1> DEFINE r == Sent(flags)
           c == IF r.k = k THEN "run" ELSE "sched"
<1>2. /\ k' = r.k /\ set' = r.set /\ info' = r.info /\ Goto(t, c)
      /\ isr' = isr /\ live' = live /\ Calls(t, "event")
  BY <1>1 DEF EventSend, wvars
<1>3. flags \in SUBSET Bit
  BY EventAssumption
<1>4. PICK X \in SUBSET Thread :
        /\ SentTo(r, set \cup flags, {x \in Thread : Waits(x, "event")}, X)
        /\ Released(r.k, k, X, "EOK")
        /\ \A x \in X : Waits(x, "event") /\ pc[x] \in RecvPC
                        /\ k.stat[x] = "SUSPEND"
  BY <1>0, <1>3, SentReleased
<1>5. Released(k', k, X, "EOK")
  BY <1>2, <1>4
<1> HIDE DEF r
<1>6. /\ Executes(t) /\ t # Idle /\ pc[t] = "run" /\ pc[t] \in Plain
      /\ pc[t] \in Points(EventPC) /\ c \in Plain /\ c \in Points(EventPC)
      /\ t \notin X
  BY <1>0, <1>2, <1>4, CallerFacts
<1>7. /\ c # "recv_return" /\ c \notin RecvPC
      /\ \A x \in Thread : x \in X => x = t \/ pc[x] \in Points(EventPC)
  BY <1>4 DEF RecvPC, EventPC, Points
<1>8. KInv' /\ NoUart' /\ Foot(EventPC)
  <2>1. live' \subseteq live /\ "EOK" \in {"EOK", "ETIMEOUT", "ERROR"}
    BY <1>2
  <2>2. c = "recv_return" => t \in X
    BY <1>7
  <2> HIDE DEF c
  <2> QED BY <1>0, <1>2, <1>5, <1>6, <1>7, <2>1, <2>2, GoOn
<1>9. \A u \in Thread :
         pc'[u] = pc[u] \/ (pc[u] \notin RecvPC /\ pc'[u] \notin RecvPC)
  <2>1. pc[t] \notin RecvPC /\ pc'[t] \notin RecvPC
    BY <1>0, <1>2, <1>6, <1>7, KInvFacts DEF Goto, RecvPC
  <2>2. \A u \in Thread : u # t => pc'[u] = pc[u]
    BY <1>0, <1>2, KInvFacts DEF Goto
  <2> QED BY <2>1, <2>2
<1>10. EventTypeOK' /\ GroupGoesOn
  BY <1>0, <1>2, <1>3, <1>4, <1>5, <1>8, <1>9, SendImplements DEF r
<1> QED BY <1>8, <1>10 DEF EventKept

\* rt_event_send by a handler.
LEMMA IsrEventSendStep ==
  ASSUME EventKept, IsrEventSend
  PROVE  EventKept' /\ Foot(EventPC) /\ GroupGoesOn
<1>0. KInv /\ NoUart /\ EventTypeOK
  BY DEF EventKept
<1>1. PICK flags \in Sends :
        LET r == Sent(flags) IN
        /\ k' = IF r.k = k THEN k ELSE Schedule(r.k)
        /\ set' = r.set /\ info' = r.info
  BY DEF IsrEventSend
<1> DEFINE r == Sent(flags)
<1>2. /\ k' = (IF r.k = k THEN k ELSE Schedule(r.k))
      /\ set' = r.set /\ info' = r.info
      /\ isr' = isr /\ live' = live /\ pc' = pc
  BY <1>1 DEF IsrEventSend, wvars
<1>3. flags \in SUBSET Bit
  BY EventAssumption
<1>4. PICK X \in SUBSET Thread :
        /\ SentTo(r, set \cup flags, {x \in Thread : Waits(x, "event")}, X)
        /\ Released(r.k, k, X, "EOK")
        /\ \A x \in X : Waits(x, "event") /\ pc[x] \in RecvPC
                        /\ k.stat[x] = "SUSPEND"
  BY <1>0, <1>3, SentReleased
<1> HIDE DEF r
<1>5. Released(k', k, X, "EOK")
  <2>1. k \in KernelState /\ CanRun(k)
    BY <1>0, KInvFacts DEF NoUart
  <2>2. Released(Schedule(r.k), k, X, "EOK")
    BY <1>4, <2>1, ScheduleReleased
  <2> QED BY <1>2, <1>4, <2>2
<1>6. \A x \in Thread : x \in X => pc[x] \in Points(EventPC)
  BY <1>4 DEF RecvPC, EventPC, Points
<1>7. KInv' /\ NoUart' /\ Foot(EventPC)
  <2>1. "EOK" \in {"EOK", "ETIMEOUT", "ERROR"}
    OBVIOUS
  <2> QED BY <1>0, <1>2, <1>5, <1>6, <2>1, Handle
<1>8. \A u \in Thread :
         pc'[u] = pc[u] \/ (pc[u] \notin RecvPC /\ pc'[u] \notin RecvPC)
  BY <1>2
<1>9. EventTypeOK' /\ GroupGoesOn
  BY <1>0, <1>2, <1>3, <1>4, <1>5, <1>7, <1>8, SendImplements DEF r
<1> QED BY <1>7, <1>9 DEF EventKept

\* A thread goes on in its call, or begins or ends it; those of others stay.
LEMMA OthersStay ==
  ASSUME KInv, NoUart, NEW t \in Thread, NEW c, Goto(t, c),
         \A u \in Thread : u # t => info'[u] = info[u],
         \A u \in Thread : u # t =>
            /\ k'.error[u] = k.error[u]
            /\ Contains(k'.wait["event"], u) <=> Contains(k.wait["event"], u)
  PROVE  /\ pc'[t] = c /\ \A u \in Thread : u # t => RecvCall(u)' = RecvCall(u)
         /\ Group!Become(t, RecvCall(t)')
<1>1. pc'[t] = c /\ \A u \in Thread : u # t => pc'[u] = pc[u]
  BY KInvFacts DEF Goto
<1>2. \A u \in Thread : u # t => RecvCall(u)' = RecvCall(u)
  BY <1>1, SameRecvCall
<1>3. [u \in Thread |-> RecvCall(u)]'
           = [[u \in Thread |-> RecvCall(u)] EXCEPT ![t] = RecvCall(t)']
  BY <1>2, OneRecvCall
<1> QED BY <1>1, <1>2, <1>3 DEF Group!Become

\* rt_event_recv begins.
LEMMA RecvBegins ==
  ASSUME EventKept, NEW t \in Thread, Calls(t, "event"), Goto(t, "recv_return"),
         NEW e \in {"EOK", "ETIMEOUT"}, k' = [k EXCEPT !.error[t] = e],
         isr' = isr, live' = live,
         \A u \in Thread : u # t => info'[u] = info[u]
  PROVE  /\ KInv' /\ NoUart' /\ Foot(EventPC)
         /\ RecvCall(t) = Group!None /\ Group!Become(t, RecvCall(t)')
         /\ pc'[t] = "recv_return" /\ ~Contains(k'.wait["event"], t)
         /\ k'.error[t] = e
<1>0. KInv /\ NoUart /\ "event" \in WaitList /\ e \in Error
  BY ServicesAssumption DEF EventKept, Error
<1>1. /\ Executes(t) /\ t # Idle /\ pc[t] = "run" /\ pc[t] \in Plain
      /\ pc[t] \in Points(EventPC) /\ k.stat[t] = "RUNNING"
  BY <1>0, CallerFacts
<1>2. Released(k', k, {t}, e)
  BY <1>0, <1>1, NoteError
<1>3. /\ "recv_return" \in Plain /\ "recv_return" \in Points(EventPC)
      /\ pc[t] \notin RecvPC
  BY <1>1 DEF Plain, Points, EventPC, ServicesPC, Blocking, Locked, RecvPC
<1>4. KInv' /\ NoUart' /\ Foot(EventPC)
  <2>1. /\ live' \subseteq live /\ e \in {"EOK", "ETIMEOUT", "ERROR"}
        /\ t \in {t}
        /\ \A x \in Thread : x \in {t} => x = t \/ pc[x] \in Points(EventPC)
    OBVIOUS
  <2> QED BY <1>0, <1>1, <1>2, <1>3, <2>1, GoOn
<1>5. \A u \in Thread : u # t =>
            /\ k'.error[u] = k.error[u]
            /\ Contains(k'.wait["event"], u) <=> Contains(k.wait["event"], u)
  BY <1>0, <1>2 DEF Released
<1>6. /\ pc'[t] = "recv_return"
      /\ Group!Become(t, RecvCall(t)')
  BY <1>0, <1>5, OthersStay
<1>7. ~Contains(k'.wait["event"], t) /\ k'.error[t] = e
  BY <1>0, <1>2 DEF Released
<1>8. RecvCall(t) = Group!None
  BY <1>0, <1>3, NoRecvCall DEF Group!None
<1> QED BY <1>4, <1>6, <1>7, <1>8

\* rt_event_recv finds the flags it asks for,
LEMMA RecvNowStep ==
  ASSUME EventKept, NEW t \in Thread, RecvNow(t)
  PROVE  EventKept' /\ Foot(EventPC) /\ GroupGoesOn
<1>0. info \in [Thread -> EventInfo] /\ set \subseteq Bit
  BY DEF EventKept, EventTypeOK, EventInfo
<1>1. PICK r \in Requests :
        /\ Satisfied(r, set)
        /\ info' = [info EXCEPT ![t] = [r EXCEPT !.set = @ \cap set]]
        /\ set' = Without(r, set)
  BY DEF RecvNow
<1>2. /\ Calls(t, "event") /\ Goto(t, "recv_return")
      /\ k' = [k EXCEPT !.error[t] = "EOK"] /\ isr' = isr /\ live' = live
  BY DEF RecvNow, wvars
<1>3. r \in Group!Request /\ r \in EventInfo
  BY EventAssumption DEF Group!Request, EventInfo
<1> DEFINE mine == [r EXCEPT !.set = @ \cap set]
<1>4. mine \in EventInfo /\ mine.set = r.set \cap set
  BY <1>0, <1>3 DEF EventInfo
<1> HIDE DEF mine
<1>5. /\ info' \in [Thread -> EventInfo] /\ info'[t] = mine
      /\ \A u \in Thread : u # t => info'[u] = info[u]
  BY <1>0, <1>1, <1>4 DEF mine
<1>6. /\ KInv' /\ NoUart' /\ Foot(EventPC)
      /\ RecvCall(t) = Group!None /\ Group!Become(t, RecvCall(t)')
      /\ pc'[t] = "recv_return" /\ ~Contains(k'.wait["event"], t)
      /\ k'.error[t] = "EOK"
  <2>1. "EOK" \in {"EOK", "ETIMEOUT"}
    OBVIOUS
  <2> QED BY <1>2, <1>5, <2>1, RecvBegins
<1>7. RecvCall(t)' = Group!Has(r.set \cap set)
  BY <1>4, <1>5, <1>6 DEF RecvCall, Waits, Failed, Group!Has
<1>8. set' = (IF r.clear THEN set \ r.set ELSE set) /\ set' \subseteq Bit
  BY <1>0, <1>1 DEF Without
<1>9. Group!Holds(r, set)
  BY <1>1 DEF Satisfied, Group!Holds
<1>10. Group!Recv(t)
  <2>1. [u \in Thread |-> RecvCall(u)][t] = Group!None
    BY <1>6
  <2>2. Group!Become(t, Group!Has(r.set \cap set))
    BY <1>6, <1>7
  <2> QED BY <1>3, <1>8, <1>9, <2>1, <2>2 DEF Group!Recv
<1> QED BY <1>5, <1>6, <1>8, <1>10
        DEF EventKept, EventTypeOK, EventInfo, GroupGoesOn, Group!Next

\* does not and may not wait,
LEMMA RecvRefusedStep ==
  ASSUME EventKept, NEW t \in Thread, RecvRefused(t)
  PROVE  EventKept' /\ Foot(EventPC) /\ GroupGoesOn
<1>1. PICK r \in Requests : ~Satisfied(r, set)
  BY DEF RecvRefused
<1>2. /\ Calls(t, "event") /\ Goto(t, "recv_return") /\ set' = set /\ info' = info
      /\ k' = [k EXCEPT !.error[t] = "ETIMEOUT"] /\ isr' = isr /\ live' = live
  BY DEF RecvRefused, wvars, evars
<1>3. r \in Group!Request /\ ~Group!Holds(r, set)
  BY <1>1, EventAssumption DEF Group!Request, Satisfied, Group!Holds
<1>4. /\ KInv' /\ NoUart' /\ Foot(EventPC)
      /\ RecvCall(t) = Group!None /\ Group!Become(t, RecvCall(t)')
      /\ pc'[t] = "recv_return" /\ ~Contains(k'.wait["event"], t)
      /\ k'.error[t] = "ETIMEOUT"
  <2>1. /\ "ETIMEOUT" \in {"EOK", "ETIMEOUT"}
        /\ \A u \in Thread : u # t => info'[u] = info[u]
    BY <1>2
  <2> QED BY <1>2, <2>1, RecvBegins
<1>5. RecvCall(t)' = Group!Refused
  BY <1>4 DEF RecvCall, Waits, Failed, Group!Refused
<1>6. Group!Refuse(t)
  <2>1. [u \in Thread |-> RecvCall(u)][t] = Group!None
    BY <1>4
  <2>2. Group!Become(t, Group!Refused)
    BY <1>4, <1>5
  <2> QED BY <1>2, <1>3, <2>1, <2>2 DEF Group!Refuse
<1>7. EventTypeOK'
  BY <1>2 DEF EventKept, EventTypeOK
<1> QED BY <1>4, <1>6, <1>7 DEF EventKept, GroupGoesOn, Group!Next

\* or waits,
LEMMA RecvWaitStep ==
  ASSUME EventKept, NEW t \in Thread, RecvWait(t)
  PROVE  EventKept' /\ Foot(EventPC) /\ GroupGoesOn
<1>0. /\ KInv /\ NoUart /\ "event" \in WaitList
      /\ info \in [Thread -> EventInfo] /\ set \subseteq Bit
  BY ServicesAssumption DEF EventKept, EventTypeOK, EventInfo
<1>1. PICK r \in Requests : ~Satisfied(r, set) /\ info' = [info EXCEPT ![t] = r]
  BY DEF RecvWait
<1>2. PICK timeout \in Timeouts \ {NoWait} :
        k' = Block(k, "event", t, EventFlag, timeout)
  BY DEF RecvWait
<1>3. /\ Calls(t, "event") /\ Goto(t, "recv_sched") /\ set' = set
      /\ isr' = isr /\ live' = live
  BY DEF RecvWait, wvars
<1>4. r \in Group!Request /\ r \in EventInfo /\ ~Group!Holds(r, set)
  BY <1>1, EventAssumption DEF Group!Request, EventInfo, Satisfied, Group!Holds
<1>5. timeout \in Int
  BY WaitingAssumption, TickHalfFacts DEF Forever, NoWait
<1>6. /\ info' \in [Thread -> EventInfo] /\ info'[t] = r
      /\ \A u \in Thread : u # t => info'[u] = info[u]
  BY <1>0, <1>1, <1>4
<1>7. /\ Executes(t) /\ t # Idle /\ pc[t] = "run" /\ pc[t] \in Plain
      /\ pc[t] \in Points(EventPC) /\ k.stat[t] = "RUNNING"
  BY <1>0, <1>3, CallerFacts
<1>8. Blocked(k', k, "event", t, Untold("event"))
  <2>1. k.stat[t] \in {"READY", "RUNNING"} /\ Sound(k, {})
    BY <1>0, <1>7, KInvFacts
  <2>2. Blocked(Block(k, "event", t, EventFlag, timeout), k, "event", t, "EINTR")
    BY <1>0, <1>5, <2>1, BlockBlocks
  <2> QED BY <1>2, <2>2 DEF Untold
<1>9. KInv' /\ NoUart' /\ Foot(EventPC)
  <2>1. /\ "recv_sched" \in Blocking /\ "recv_sched" \in Places("event")
        /\ "recv_sched" \in Points(EventPC) /\ live' \subseteq live
    BY <1>3 DEF Blocking, Places, Points, EventPC
  <2> QED BY <1>0, <1>3, <1>7, <1>8, <2>1, BlockOn
<1>10. /\ Contains(k'.wait["event"], t)
       /\ \A u \in Thread : u # t =>
            /\ k'.error[u] = k.error[u]
            /\ Contains(k'.wait["event"], u) <=> Contains(k.wait["event"], u)
  BY <1>0, <1>8 DEF Blocked, OnWait, Told
<1>11. Group!Become(t, RecvCall(t)')
  BY <1>0, <1>3, <1>6, <1>10, OthersStay
<1>12. RecvCall(t)' = Group!Wants(r)
  BY <1>6, <1>10 DEF RecvCall, Waits, Failed, Group!Wants
<1>13. RecvCall(t) = Group!None
  BY <1>0, <1>7, NoRecvCall DEF RecvPC, Group!None
<1>14. Group!Wait(t)
  <2>1. [u \in Thread |-> RecvCall(u)][t] = Group!None
    BY <1>13
  <2>2. Group!Become(t, Group!Wants(r))
    BY <1>11, <1>12
  <2> QED BY <1>3, <1>4, <2>1, <2>2 DEF Group!Wait
<1> QED BY <1>0, <1>3, <1>6, <1>9, <1>14
        DEF EventKept, EventTypeOK, EventInfo, GroupGoesOn, Group!Next

\* schedules,
LEMMA RecvScheduleStep ==
  ASSUME EventKept, NEW t \in Thread, RecvSchedule(t)
  PROVE  EventKept' /\ Foot(EventPC) /\ GroupGoesOn
<1>0. KInv /\ NoUart /\ "event" \in WaitList
  BY ServicesAssumption DEF EventKept
<1>1. /\ At(t, "recv_sched") /\ k' = Schedule(k) /\ Goto(t, "recv_return")
      /\ isr' = isr /\ live' = live /\ set' = set /\ info' = info
  BY DEF RecvSchedule, ScheduleIn, wvars, evars
<1>2. KInv' /\ NoUart' /\ Foot(EventPC) /\ Released(k', k, {}, "EOK")
  <2>1. /\ "recv_sched" \in Blocking \ {"sleep_mark"}
        /\ "recv_return" = AfterBlock("recv_sched")
        /\ "recv_sched" \in EventPC /\ "recv_return" \in EventPC
    BY DEF Blocking, AfterBlock, EventPC
  <2> QED BY <1>0, <1>1, <2>1, GiveUp
<1>3. ASSUME NEW u \in Thread PROVE RecvCall(u)' = RecvCall(u)
  <2>1. pc'[u] = pc[u] \/ (pc[u] \in RecvPC /\ pc'[u] \in RecvPC)
    BY <1>0, <1>1, KInvFacts DEF At, Goto, RecvPC
  <2>2. /\ k'.error[u] = k.error[u]
        /\ Contains(k'.wait["event"], u) <=> Contains(k.wait["event"], u)
    BY <1>0, <1>2 DEF Released
  <2> QED BY <1>1, <2>1, <2>2, SameRecvCall
<1>4. GroupGoesOn
  BY <1>1, <1>3, SameRecvCalls
<1> QED BY <1>1, <1>2, <1>4 DEF EventKept, EventTypeOK

\* and returns.
LEMMA RecvReturnStep ==
  ASSUME EventKept, NEW t \in Thread, RecvReturn(t)
  PROVE  EventKept' /\ Foot(EventPC) /\ GroupGoesOn
<1>0. /\ KInv /\ NoUart /\ "event" \in WaitList
      /\ info \in [Thread -> EventInfo] /\ set \subseteq Bit
  BY ServicesAssumption DEF EventKept, EventTypeOK, EventInfo
<1>1. /\ Executes(t) /\ pc[t] = "recv_return" /\ Back(t)
      /\ info' = [info EXCEPT ![t] = Nothing]
      /\ isr' = isr /\ live' = live /\ set' = set
  BY DEF RecvReturn, At, wvars
<1>2. /\ pc[t] # "run" /\ pc[t] \in Plain /\ pc[t] \in EventPC
      /\ pc[t] \notin Blocking
  BY <1>1 DEF Plain, EventPC, ServicesPC, Blocking, Locked
<1>3. /\ KInv' /\ NoUart' /\ Foot(EventPC)
      /\ Released(k', k, {t}, "EOK") /\ Goto(t, "run")
  BY <1>0, <1>1, <1>2, BackOn
<1>4. /\ info' \in [Thread -> EventInfo]
      /\ \A u \in Thread : u # t => info'[u] = info[u]
  BY <1>0, <1>1 DEF EventInfo, Nothing
<1>5. \A u \in Thread : u # t =>
        /\ k'.error[u] = k.error[u]
        /\ Contains(k'.wait["event"], u) <=> Contains(k.wait["event"], u)
  BY <1>0, <1>3 DEF Released
<1>6. pc'[t] = "run" /\ Group!Become(t, RecvCall(t)')
  BY <1>0, <1>3, <1>4, <1>5, OthersStay
<1>7. RecvCall(t)' = Group!None
  BY <1>3, <1>6, NoRecvCallNext DEF RecvPC, Group!None
<1>8. ~Waits(t, "event")
  BY <1>0, <1>1, <1>2, ExecutingRuns
<1>9. k.error[t] \in Error /\ k.error[t] # "EINTR"
  <2>1. k.error[t] \in Error
    BY <1>0, KInvFacts DEF KernelState
  <2>2. k.error[t] # "EINTR"
    BY <1>0, <1>1, <1>8 DEF NoUart, Answered, Places
  <2> QED BY <2>1, <2>2
<1>10. RecvCall(t).at \in {"granted", "refused"}
  <2>1. CASE k.error[t] = "EOK"
    <3>1. RecvCall(t) = [at |-> "granted", got |-> info[t].set]
      BY <1>1, <1>8, <2>1 DEF RecvCall, Waits, Failed
    <3> QED BY <3>1
  <2>2. CASE k.error[t] # "EOK"
    <3>1. RecvCall(t) = [at |-> "refused"]
      BY <1>1, <1>8, <1>9, <2>2 DEF RecvCall, Waits, Failed, Error
    <3> QED BY <3>1
  <2> QED BY <2>1, <2>2
<1>11. Group!Return(t)
  <2>1. [u \in Thread |-> RecvCall(u)][t].at \in {"granted", "refused"}
    BY <1>10
  <2>2. Group!Become(t, Group!None)
    BY <1>6, <1>7
  <2> QED BY <1>1, <2>1, <2>2 DEF Group!Return
<1> QED BY <1>0, <1>1, <1>3, <1>4, <1>11
        DEF EventKept, EventTypeOK, EventInfo, GroupGoesOn, Group!Next

\* Some waiters are turned away.
LEMMA TurnedAway ==
  ASSUME KInv, NoUart, NEW X, NEW e \in {"ETIMEOUT", "ERROR"},
         Released(k', k, X, e), info' = info, NEW t \in Thread, t \in X,
         Waits(t, "event"), pc'[t] = pc[t]
  PROVE  /\ RecvCall(t) = [at |-> "waiting", request |-> info[t]]
         /\ RecvCall(t)' = Group!Refused
<1>1. "event" \in WaitList
  BY ServicesAssumption
<1>2. pc'[t] \in {"recv_sched", "recv_return"}
  BY <1>1, WaiterPoints DEF Places
<1>3. ~Contains(k'.wait["event"], t) /\ k'.error[t] = e
  BY <1>1 DEF Released
<1> QED BY <1>2, <1>3 DEF RecvCall, Waits, Failed, Group!Refused

\* rt_event_control(RESET) drops the flags and turns every waiter away.
LEMMA EventResetStep ==
  ASSUME EventKept, NEW t \in Thread, EventReset(t)
  PROVE  EventKept' /\ Foot(EventPC) /\ GroupGoesOn
<1>0. /\ KInv /\ NoUart /\ "event" \in WaitList
      /\ Sound(k, {}) /\ CurrentSound(k, {})
  BY KInvFacts, ServicesAssumption DEF EventKept
<1>1. /\ Calls(t, "event") /\ k' = IpcListResumeAll(k, "event") /\ Goto(t, "sched")
      /\ set' = {} /\ info' = info /\ isr' = isr /\ live' = live
  BY DEF EventReset, wvars
<1> DEFINE X == {x \in Thread : Contains(k.wait["event"], x)}
           r == IpcListResumeAll(k, "event")
<1>2. Released(r, k, X, "ERROR") /\ r.cur = k.cur
  BY <1>0, AllReleased
<1>3. \A x : x \in X <=> x \in Thread /\ Waits(x, "event")
  BY DEF Waits
<1> HIDE DEF X, r
<1>4. Released(k', k, X, "ERROR")
  BY <1>1, <1>2 DEF r
<1>5. /\ Executes(t) /\ t # Idle /\ pc[t] = "run" /\ pc[t] \in Plain
      /\ "sched" \in Plain /\ "sched" \in Points(EventPC)
      /\ pc[t] \in Points(EventPC) /\ k.stat[t] = "RUNNING" /\ ~Waits(t, "event")
  BY <1>0, <1>1, CallerFacts
<1>6. \A x \in Thread : x \in X => x = t \/ pc[x] \in Points(EventPC)
  BY <1>0, <1>3, WaiterPoints DEF Places, Points, EventPC
<1>7. KInv' /\ NoUart' /\ Foot(EventPC)
  <2>1. /\ "ERROR" \in {"EOK", "ETIMEOUT", "ERROR"} /\ live' \subseteq live
        /\ "sched" # "recv_return"
    BY <1>1
  <2> QED BY <1>0, <1>1, <1>4, <1>5, <1>6, <2>1, GoOn
<1>8. /\ pc'[t] = "sched" /\ \A u \in Thread : u # t => pc'[u] = pc[u]
  BY <1>0, <1>1, KInvFacts DEF Goto
<1>9. ASSUME NEW u \in Thread, u \in X
      PROVE  /\ RecvCall(u) = [at |-> "waiting", request |-> info[u]]
             /\ RecvCall(u)' = Group!Refused
  <2>1. Waits(u, "event") /\ u # t /\ "ERROR" \in {"ETIMEOUT", "ERROR"}
    BY <1>3, <1>5, <1>9
  <2>2. pc'[u] = pc[u]
    BY <1>8, <2>1
  <2> QED BY <1>0, <1>1, <1>4, <1>9, <2>1, <2>2, TurnedAway
<1>10. ASSUME NEW u \in Thread, u \notin X
       PROVE  RecvCall(u)' = RecvCall(u) /\ RecvCall(u).at # "waiting"
  <2>1. /\ k'.error[u] = k.error[u]
        /\ Contains(k'.wait["event"], u) <=> Contains(k.wait["event"], u)
        /\ ~Waits(u, "event")
    BY <1>0, <1>3, <1>4, <1>10 DEF Released
  <2>2. RecvCall(u).at # "waiting"
    BY <2>1 DEF RecvCall, Waits, Failed
  <2>3. CASE u # t
    BY <1>1, <1>8, <2>1, <2>2, <2>3, SameRecvCall
  <2>4. CASE u = t
    BY <1>0, <1>5, <1>7, <1>8, <2>2, <2>4, NoRecvCall, NoRecvCallNext DEF RecvPC
  <2> QED BY <2>3, <2>4
<1>11. Group!Reset
  <2> DEFINE calls == [u \in Thread |-> RecvCall(u)]
  <2>1. \A u \in Thread : calls[u].at = "waiting" <=> u \in X
    <3>1. \A u \in Thread : u \in X => RecvCall(u).at = "waiting"
      BY <1>9
    <3> QED BY <1>10, <3>1
  <2>2. Group!Waiting = X
    BY <1>3, <2>1 DEF Group!Waiting
  <2>3. calls' = [u \in Thread |-> IF u \in X THEN Group!Refused ELSE calls[u]]
    BY <1>9, <1>10
  <2> HIDE DEF calls
  <2> QED BY <1>1, <2>2, <2>3 DEF Group!Reset, calls
<1> QED BY <1>1, <1>7, <1>11
        DEF EventKept, EventTypeOK, EventInfo, GroupGoesOn, Group!Next

\* Detaching touches nobody's call until it wakes the waiters.
LEMMA EventDetachStep ==
  ASSUME EventKept, NEW t \in Thread,
         \/ EventDetach(t)
         \/ /\ DrainTest(t, "event", "event_test", "event_wake", "run")
            /\ UNCHANGED <<wvars, evars>>
  PROVE  EventKept' /\ Foot(EventPC) /\ GroupGoesOn
<1> DEFINE A == {"event_test", "event_wake"}
<1>0. KInv /\ NoUart
  BY DEF EventKept
<1>1. PICK c \in {"run", "event_test", "event_wake"} :
        /\ Executes(t) /\ pc[t] \in {"run", "event_test"} /\ t # Idle
        /\ Goto(t, c) /\ k' = k /\ isr' = isr /\ live' \subseteq live
        /\ UNCHANGED evars
  <2>1. CASE EventDetach(t)
    BY <2>1 DEF EventDetach, Calls, At
  <2>2. ASSUME DrainTest(t, "event", "event_test", "event_wake", "run"),
               UNCHANGED <<wvars, evars>>
        PROVE  \E c \in {"run", "event_test", "event_wake"} :
                 /\ Executes(t) /\ pc[t] \in {"run", "event_test"} /\ t # Idle
                 /\ Goto(t, c) /\ k' = k /\ isr' = isr /\ live' \subseteq live
                 /\ UNCHANGED evars
    <3>1. t # Idle
      BY <1>0, <2>2 DEF DrainTest, At, KInv, ControlOK
    <3> QED BY <2>2, <3>1 DEF DrainTest, At, wvars
  <2> QED BY <2>1, <2>2
<1>2. Released(k', k, {}, "EOK")
  <2>1. Released(k, k, {}, "EOK")
    BY <1>0, KInvFacts, NothingReleased
  <2> QED BY <1>1, <2>1
<1>3. KInv' /\ NoUart' /\ Foot(A)
  <2>1. /\ c \in Plain /\ c \in Points(A) /\ pc[t] \in Plain /\ pc[t] \in Points(A)
        /\ c # "recv_return" /\ "EOK" \in {"EOK", "ETIMEOUT", "ERROR"}
        /\ \A x \in Thread : x \in {} => x = t \/ pc[x] \in Points(A)
    BY <1>1 DEF Plain, Points, ServicesPC, PC, EventPC, Blocking, Locked
  <2> HIDE DEF A
  <2> QED BY <1>0, <1>1, <1>2, <2>1, GoOn
<1>4. Foot(EventPC)
  <2>1. A \subseteq EventPC
    BY DEF EventPC
  <2> HIDE DEF A
  <2> QED BY <1>3, <2>1, FootGrows
<1>5. GroupGoesOn
  <2>1. A \cap RecvPC = {}
    BY DEF RecvPC
  <2> HIDE DEF A
  <2> QED BY <1>0, <1>1, <1>3, <2>1, EventForeign
<1>6. EventTypeOK'
  BY <1>1 DEF EventKept, EventTypeOK, evars
<1> QED BY <1>3, <1>4, <1>5, <1>6 DEF EventKept

\* The first waiter of a list is woken with the given error.
LEMMA FirstReleased ==
  ASSUME KInv, NoUart, NEW w \in WaitList, NEW e \in Error, k.wait[w] # <<>>,
         k' = Wake(k, w, e)
  PROVE  \E x \in Thread : Waits(x, w) /\ Released(k', k, {x}, e)
<1>0. Sound(k, {}) /\ CurrentSound(k, {})
  BY KInvFacts
<1> DEFINE x == Head(k.wait[w])
           r == Wake(k, w, e)
<1>1. x \in Thread /\ Contains(k.wait[w], x) /\ Woken(r, k, {}, x, e)
  BY <1>0, WakeSound
<1> HIDE DEF x, r
<1>2. Released(r, k, {x}, e)
  BY <1>0, <1>1, WokenReleased
<1> QED BY <1>1, <1>2 DEF Waits, r

\* A waiter is turned away by rt_event_detach.
LEMMA EventWakeStep ==
  ASSUME EventKept, NEW t \in Thread,
         DrainWake(t, "event", "event_test", "event_wake"),
         UNCHANGED <<wvars, evars>>
  PROVE  EventKept' /\ Foot(EventPC) /\ GroupGoesOn
<1>0. KInv /\ NoUart /\ "event" \in WaitList /\ "ERROR" \in Error
  BY ServicesAssumption DEF EventKept, Error
<1>1. /\ Executes(t) /\ pc[t] = "event_wake" /\ k.wait["event"] # <<>>
      /\ k' = Wake(k, "event", "ERROR") /\ Goto(t, "event_test")
      /\ isr' = isr /\ live' = live /\ set' = set /\ info' = info
  BY DEF DrainWake, At, wvars, evars
<1>2. PICK x \in Thread : Waits(x, "event") /\ Released(k', k, {x}, "ERROR")
  BY <1>0, <1>1, FirstReleased
<1>3. /\ pc[t] \in Plain /\ "event_test" \in Plain /\ pc[t] \in Points(EventPC)
      /\ "event_test" \in Points(EventPC) /\ pc[t] \notin Blocking
      /\ pc[t] \notin RecvPC /\ "event_test" \notin RecvPC
  BY <1>1 DEF Plain, Points, ServicesPC, EventPC, Blocking, Locked, RecvPC
<1>4. t # Idle
  BY <1>0, <1>1 DEF KInv, ControlOK
<1>5. pc[x] \in Points(EventPC) /\ x # t
  BY <1>0, <1>1, <1>2, <1>3, WaiterPoints, ExecutingRuns DEF Places, Points, EventPC
<1>6. KInv' /\ NoUart' /\ Foot(EventPC)
  <2>1. /\ "ERROR" \in {"EOK", "ETIMEOUT", "ERROR"} /\ live' \subseteq live
        /\ "event_test" # "recv_return"
        /\ \A y \in Thread : y \in {x} => y = t \/ pc[y] \in Points(EventPC)
    BY <1>1, <1>5
  <2> QED BY <1>0, <1>1, <1>2, <1>3, <1>4, <2>1, GoOn
<1>7. pc'[t] = "event_test" /\ \A u \in Thread : u # t => pc'[u] = pc[u]
  BY <1>0, <1>1, KInvFacts DEF Goto
<1>8. /\ RecvCall(x) = [at |-> "waiting", request |-> info[x]]
      /\ RecvCall(x)' = Group!Refused
  <2>1. /\ pc'[x] = pc[x] /\ x \in {x} /\ "ERROR" \in {"ETIMEOUT", "ERROR"}
    BY <1>5, <1>7
  <2> QED BY <1>0, <1>1, <1>2, <2>1, TurnedAway
<1>9. ASSUME NEW u \in Thread, u # x PROVE RecvCall(u)' = RecvCall(u)
  <2>1. /\ k'.error[u] = k.error[u]
        /\ Contains(k'.wait["event"], u) <=> Contains(k.wait["event"], u)
    BY <1>0, <1>2, <1>9 DEF Released
  <2>2. CASE u # t
    BY <1>1, <1>7, <2>1, <2>2, SameRecvCall
  <2>3. CASE u = t
    BY <1>0, <1>3, <1>6, <1>7, <2>3, NoRecvCall, NoRecvCallNext
  <2> QED BY <2>2, <2>3
<1>10. Group!Refuse(x)
  <2>1. Group!Become(x, Group!Refused)
    BY <1>8, <1>9, OneRecvCall DEF Group!Become
  <2>2. [u \in Thread |-> RecvCall(u)][x].at = "waiting"
    BY <1>8
  <2> QED BY <1>1, <2>1, <2>2 DEF Group!Refuse
<1>11. EventTypeOK'
  BY <1>1 DEF EventKept, EventTypeOK
<1> QED BY <1>6, <1>10, <1>11 DEF EventKept, GroupGoesOn, Group!Next

\* The steps of an event, all together.
LEMMA EventStepKeeps ==
  ASSUME EventKept, EventNext
  PROVE  EventKept' /\ Foot(EventPC) /\ GroupGoesOn
<1>1. CASE IsrEventSend
  BY <1>1, IsrEventSendStep
<1>2. ASSUME NEW t \in Thread, EventStep(t)
      PROVE  EventKept' /\ Foot(EventPC) /\ GroupGoesOn
  <2>1. CASE EventSend(t) \/ RecvNow(t) \/ RecvRefused(t) \/ RecvWait(t)
    BY <2>1, EventSendStep, RecvNowStep, RecvRefusedStep, RecvWaitStep
  <2>2. CASE RecvSchedule(t) \/ RecvReturn(t) \/ EventReset(t)
    BY <2>2, RecvScheduleStep, RecvReturnStep, EventResetStep
  <2>3. CASE EventDetach(t)
    BY <2>3, EventDetachStep
  <2>4. CASE EventDrain(t)
    BY <2>4, EventDetachStep, EventWakeStep DEF EventDrain
  <2> QED BY <1>2, <2>1, <2>2, <2>3, <2>4 DEF EventStep
<1> QED BY <1>1, <1>2 DEF EventNext

\* A thread whose wait times out is turned away.
LEMMA EventTick ==
  ASSUME EventKept, KInv', NoUart', NEW W \in SUBSET Thread,
         Released(k', k, W, "ETIMEOUT"), \A t \in W : k.stat[t] = "SUSPEND",
         \A t, u \in W : t = u, pc' = pc, UNCHANGED evars
  PROVE  EventTypeOK' /\ GroupGoesOn
<1>0. KInv /\ NoUart /\ "event" \in WaitList /\ set' = set /\ info' = info
  BY ServicesAssumption DEF EventKept, evars
<1>1. ASSUME NEW u \in Thread, u \notin W \/ pc[u] \notin RecvPC
      PROVE  RecvCall(u)' = RecvCall(u)
  <2>1. CASE pc[u] \notin RecvPC
    BY <1>0, <2>1, NoRecvCall, NoRecvCallNext
  <2>2. CASE u \notin W
    <3>1. /\ k'.error[u] = k.error[u]
          /\ Contains(k'.wait["event"], u) <=> Contains(k.wait["event"], u)
      BY <1>0, <2>2 DEF Released
    <3> QED BY <1>0, <3>1, SameRecvCall
  <2> QED BY <1>1, <2>1, <2>2
<1>2. ASSUME NEW t \in Thread, t \in W, pc[t] \in RecvPC
      PROVE  Group!Refuse(t)
  <2>1. pc[t] \notin Asleep /\ \A w \in WaitList : pc[t] \in Places(w) => w = "event"
    BY <1>2, ServicesAssumption DEF RecvPC, Asleep, Places
  <2>2. Waits(t, "event")
    BY <1>0, <1>2, <2>1 DEF NoUart, SuspendedKnown, WaitsInPlace
  <2>3. /\ RecvCall(t) = [at |-> "waiting", request |-> info[t]]
        /\ RecvCall(t)' = Group!Refused
    <3>1. "ETIMEOUT" \in {"ETIMEOUT", "ERROR"} /\ pc'[t] = pc[t]
      OBVIOUS
    <3> QED BY <1>0, <1>2, <2>2, <3>1, TurnedAway
  <2>4. \A u \in Thread : u # t => RecvCall(u)' = RecvCall(u)
    BY <1>1, <1>2
  <2>5. Group!Become(t, Group!Refused)
    BY <2>3, <2>4, OneRecvCall DEF Group!Become
  <2>6. [u \in Thread |-> RecvCall(u)][t].at = "waiting"
    BY <2>3
  <2> QED BY <1>0, <2>5, <2>6 DEF Group!Refuse
<1>3. EventTypeOK'
  BY <1>0 DEF EventKept, EventTypeOK
<1>4. CASE \E t \in W : pc[t] \in RecvPC
  <2>1. PICK t \in W : pc[t] \in RecvPC
    BY <1>4
  <2>2. Group!Refuse(t)
    BY <1>2, <2>1
  <2> QED BY <1>3, <2>2 DEF GroupGoesOn, Group!Next
<1>5. CASE ~\E t \in W : pc[t] \in RecvPC
  <2>1. \A u \in Thread : RecvCall(u)' = RecvCall(u)
    BY <1>1, <1>5
  <2> QED BY <1>0, <1>3, <2>1, SameRecvCalls
<1> QED BY <1>4, <1>5

-----------------------------------------------------------------------------
(* rt_schedule at the end of a call, and the delays of thread.c            *)

SleepPC == {"sleep_mark", "sleep_sched", "sleep_return"}

\* Nobody but the thread that goes to sleep is concerned.
LEMMA SleepOn ==
  ASSUME KInv, NoUart, NEW A, NEW t \in Thread, NEW c, NEW d \in Int, Executes(t),
         t # Idle, pc[t] \in Plain, pc[t] \in Points(A), c \in Points(A),
         c \in {"sleep_mark", "until_sched"},
         k' = TimerStart(Suspended(k, t), t, d), Goto(t, c), isr' = isr, live' = live
  PROVE  KInv' /\ NoUart' /\ Foot(A)
<1>1. k.nest = 0 /\ pc[t] \notin Blocking
  BY Unlocked DEF Plain
<1>2. k.stat[t] \in {"READY", "RUNNING"}
  BY <1>1, ExecutingRuns
<1> DEFINE r == TimerStart(Suspended(k, t), t, d)
<1>3. /\ Sound(r, {}) /\ OnlyStat(r, k, t, "SUSPEND")
      /\ r.wait = k.wait /\ Told(r, k, t, "EOK") /\ r.tick = k.tick
  BY <1>2, KInvFacts, SleepBlocks
<1> HIDE DEF r
<1>4. /\ Sound(k', {}) /\ OnlyStat(k', k, t, "SUSPEND")
      /\ k'.wait = k.wait /\ Told(k', k, t, "EOK")
  BY <1>3 DEF r
<1>5. KInv' /\ NoUart'
  <2>1. live' \subseteq live
    OBVIOUS
  <2> QED BY <1>1, <1>4, <2>1, SleepStep
<1>6. /\ pc'[t] = c /\ \A u \in Thread : u # t => pc'[u] = pc[u]
  BY KInvFacts DEF Goto
<1>7. Foot(A)
  BY <1>4, <1>6 DEF Foot, Untouched, Told
<1> QED BY <1>5, <1>7

\* rt_schedule at the end of a call.
LEMMA CallScheduleStep ==
  ASSUME KInv, NoUart, NEW t \in Thread, CallSchedule(t), live' = live
  PROVE  KInv' /\ NoUart' /\ Foot(SleepPC) /\ Released(k', k, {}, "EOK")
<1>1. /\ Executes(t) /\ pc[t] = "sched" /\ k' = Schedule(k) /\ Goto(t, "run")
      /\ isr' = isr /\ live' \subseteq live
  BY DEF CallSchedule, At
<1>2. t # Idle
  BY <1>1 DEF KInv, ControlOK
<1>3. Released(k', k, {}, "EOK")
  <2>1. Released(k, k, {}, "EOK")
    BY KInvFacts, NothingReleased
  <2> QED BY <1>1, <2>1, KInvFacts, ScheduleReleased DEF NoUart
<1>4. /\ pc[t] \in Plain /\ "run" \in Plain /\ pc[t] \in Points(SleepPC)
      /\ "run" \in Points(SleepPC) /\ "run" # "recv_return"
      /\ "EOK" \in {"EOK", "ETIMEOUT", "ERROR"}
      /\ \A x \in Thread : x \in {} => x = t \/ pc[x] \in Points(SleepPC)
  BY <1>1 DEF Plain, Points, ServicesPC, PC, Blocking, Locked
<1> QED BY <1>1, <1>2, <1>3, <1>4, GoOn

\* The steps of rt_thread_sleep.
LEMMA SleepKeeps ==
  ASSUME KInv, NoUart, NEW t \in Thread, Sleep(t), live' = live
  PROVE  KInv' /\ NoUart' /\ Foot(SleepPC)
<1>1. CASE SleepBlock(t)
  <2>1. PICK d \in Delays : k' = ArmSleep([k EXCEPT !.error[t] = "EOK"], t, d)
    BY <1>1 DEF SleepBlock
  <2>2. k' = TimerStart(Suspended(k, t), t, d)
    BY <2>1 DEF ArmSleep, Suspended
  <2>3. /\ Executes(t) /\ pc[t] = "run" /\ t # Idle /\ Goto(t, "sleep_mark")
        /\ isr' = isr /\ d \in Int
    BY <1>1, ThreadsAssumption, TickHalfFacts DEF SleepBlock, At
  <2>4. /\ pc[t] \in Plain /\ pc[t] \in Points(SleepPC)
        /\ "sleep_mark" \in Points(SleepPC)
        /\ "sleep_mark" \in {"sleep_mark", "until_sched"}
    BY <2>3 DEF Plain, Points, SleepPC, ServicesPC, PC, Blocking, Locked
  <2> QED BY <2>2, <2>3, <2>4, SleepOn
<1>2. CASE SleepMark(t)
  <2>1. KInv' /\ NoUart' /\ Told(k', k, t, "EINTR") /\ k'.wait = k.wait
    BY <1>2, MarkStep
  <2>2. /\ pc[t] = "sleep_mark" /\ pc'[t] = "sleep_sched"
        /\ \A u \in Thread : u # t => pc'[u] = pc[u]
    BY <1>2, KInvFacts DEF SleepMark, At, Goto
  <2> QED BY <2>1, <2>2 DEF Foot, Untouched, Points, SleepPC, Told
<1>3. CASE SleepSchedule(t)
  <2>1. /\ At(t, "sleep_sched") /\ k' = Schedule(k) /\ Goto(t, "sleep_return")
        /\ isr' = isr
    BY <1>3 DEF SleepSchedule
  <2>2. /\ "sleep_sched" \in Blocking \ {"sleep_mark"}
        /\ "sleep_return" = AfterBlock("sleep_sched")
        /\ "sleep_sched" \in SleepPC /\ "sleep_return" \in SleepPC
    BY DEF Blocking, AfterBlock, SleepPC
  <2> QED BY <2>1, <2>2, GiveUp
<1>4. CASE SleepReturn(t)
  <2>1. /\ Executes(t) /\ pc[t] = "sleep_return" /\ Goto(t, "run") /\ isr' = isr
        /\ k' = IF k.error[t] = "ETIMEOUT" THEN [k EXCEPT !.error[t] = "EOK"] ELSE k
        /\ live' \subseteq live
    BY <1>4 DEF SleepReturn, At
  <2>2. /\ pc[t] \in Plain /\ "run" \in Plain /\ pc[t] \in Points(SleepPC)
        /\ "run" \in Points(SleepPC) /\ pc[t] \notin Blocking /\ "run" # "recv_return"
        /\ "EOK" \in {"EOK", "ETIMEOUT", "ERROR"} /\ "EOK" \in Error
    BY <2>1 DEF Plain, Points, SleepPC, ServicesPC, PC, Blocking, Locked, Error
  <2>3. t # Idle /\ k.stat[t] # "SUSPEND"
    BY <2>1, <2>2, ExecutingRuns DEF KInv, ControlOK
  <2>4. PICK X \in SUBSET {t} : Released(k', k, X, "EOK")
    <3>1. CASE k.error[t] = "ETIMEOUT"
      BY <2>1, <2>2, <2>3, <3>1, NoteError
    <3>2. CASE k.error[t] # "ETIMEOUT"
      <4>1. Released(k, k, {}, "EOK")
        BY KInvFacts, NothingReleased
      <4> QED BY <2>1, <3>2, <4>1
    <3> QED BY <3>1, <3>2
  <2>5. \A x \in Thread : x \in X => x = t \/ pc[x] \in Points(SleepPC)
    OBVIOUS
  <2> QED BY <2>1, <2>2, <2>3, <2>4, <2>5, GoOn
<1> QED BY <1>1, <1>2, <1>3, <1>4 DEF Sleep

-----------------------------------------------------------------------------
(* rt_thread_delay_until                                                   *)

\* The steps of rt_thread_delay_until.
LEMMA PeriodicKeeps ==
  ASSUME KInv, NoUart, lastWake \in [Periodics -> Tick],
         NEW t \in Thread, PeriodicStep(t)
  PROVE  KInv' /\ NoUart' /\ Foot(PeriodicPC)
<1>1. CASE UntilNow(t)
  <2>1. /\ Calls(t, "sleep") /\ isr' = isr /\ pc' = pc /\ live' \subseteq live
        /\ k' = [k EXCEPT !.error[t] = "EOK"] /\ Goto(t, "run")
    BY <1>1, KInvFacts DEF UntilNow, Calls, At, Goto, wvars
  <2>2. /\ Executes(t) /\ t # Idle /\ pc[t] \in Plain /\ "run" \in Plain
        /\ pc[t] \in Points(PeriodicPC) /\ "run" \in Points(PeriodicPC)
        /\ k.stat[t] = "RUNNING"
    BY <2>1, CallerFacts
  <2>3. Released(k', k, {t}, "EOK")
    BY <2>1, <2>2, NoteError DEF Error
  <2>4. /\ "EOK" \in {"EOK", "ETIMEOUT", "ERROR"} /\ "run" # "recv_return"
        /\ \A x \in Thread : x \in {t} => x = t \/ pc[x] \in Points(PeriodicPC)
    OBVIOUS
  <2> QED BY <2>1, <2>2, <2>3, <2>4, GoOn
<1>2. CASE UntilBlock(t)
  <2>1. PICK inc \in Delays : k' = TimerStart(Suspended(k, t), t, TicksLeft(t, inc))
    BY <1>2 DEF UntilBlock
  <2>2. /\ Calls(t, "sleep") /\ isr' = isr /\ live' = live /\ Goto(t, "until_sched")
    BY <1>2 DEF UntilBlock, wvars
  <2>3. /\ Executes(t) /\ t # Idle /\ pc[t] \in Plain /\ pc[t] \in Points(PeriodicPC)
    BY <2>2, CallerFacts
  <2>4. TicksLeft(t, inc) \in Int
    <3>1. lastWake[t] \in Int /\ inc \in Int /\ k.tick \in Int
      BY <1>2, KInvFacts, ThreadsAssumption, TickHalfFacts
         DEF UntilBlock, KernelState, Tick
    <3>2. TickMod \in Int /\ TickMod > 0
      BY TickAssumption
    <3> DEFINE wake == (lastWake[t] + inc) % TickMod
    <3>3. wake \in Int
      BY <3>1, <3>2
    <3> HIDE DEF wake
    <3>4. (wake - k.tick) % TickMod \in Int
      BY <3>1, <3>2, <3>3
    <3> QED BY <3>4 DEF wake, TicksLeft, TicksFrom
  <2>5. /\ "until_sched" \in Points(PeriodicPC)
        /\ "until_sched" \in {"sleep_mark", "until_sched"}
    BY DEF Points, PeriodicPC
  <2> QED BY <2>1, <2>2, <2>3, <2>4, <2>5, SleepOn
<1>3. CASE UntilSchedule(t)
  <2>1. /\ At(t, "until_sched") /\ k' = Schedule(k) /\ Goto(t, "until_return")
        /\ isr' = isr /\ live' = live
    BY <1>3 DEF UntilSchedule, ScheduleIn, wvars
  <2>2. /\ "until_sched" \in Blocking \ {"sleep_mark"}
        /\ "until_return" = AfterBlock("until_sched")
        /\ "until_sched" \in PeriodicPC /\ "until_return" \in PeriodicPC
    BY DEF Blocking, AfterBlock, PeriodicPC
  <2> QED BY <2>1, <2>2, GiveUp
<1>4. CASE UntilReturn(t)
  <2>1. /\ Executes(t) /\ pc[t] = "until_return" /\ Back(t)
        /\ isr' = isr /\ live' = live
    BY <1>4 DEF UntilReturn, At, wvars
  <2>2. pc[t] # "run" /\ pc[t] \in Plain /\ pc[t] \in PeriodicPC
    BY <2>1 DEF Plain, PeriodicPC, ServicesPC, Blocking, Locked
  <2> QED BY <2>1, <2>2, BackOn
<1> QED BY <1>1, <1>2, <1>3, <1>4 DEF PeriodicStep

\* The time of the last wake-up is a value of the tick counter.
LEMMA LastWakeTyped ==
  ASSUME KInv, NoUart, lastWake \in [Periodics -> Tick],
         NEW t \in Thread, PeriodicStep(t)
  PROVE  lastWake' \in [Periodics -> Tick]
<1>0. TickMod \in Nat /\ TickMod > 2 /\ k.tick \in Tick
  BY TickAssumption, KInvFacts DEF KernelState
<1>1. CASE UntilNow(t)
  BY <1>0, <1>1 DEF UntilNow
<1>2. CASE UntilBlock(t)
  <2>1. PICK inc \in Delays :
          lastWake' = [lastWake EXCEPT ![t] = (@ + inc) % TickMod]
    BY <1>2 DEF UntilBlock
  <2>2. inc \in Nat /\ t \in Periodics /\ lastWake[t] \in Nat
    BY <1>2, ThreadsAssumption, TickHalfFacts DEF UntilBlock, Tick
  <2>3. ((lastWake[t] + inc) % TickMod) \in Tick
    BY <1>0, <2>2 DEF Tick
  <2> QED BY <2>1, <2>3
<1>3. CASE UntilSchedule(t) \/ UntilReturn(t)
  BY <1>3 DEF UntilSchedule, UntilReturn
<1> QED BY <1>1, <1>2, <1>3 DEF PeriodicStep

-----------------------------------------------------------------------------
(* Waking the first waiter of a list outside of ipc.c                      *)

\* Whoever waits there has been told already that all is well: ResumeFirst
\* releases the first one, if there is one.
LEMMA ResumeFirstReleased ==
  ASSUME KInv, NoUart, NEW w \in WaitList, w # "event"
  PROVE  LET r == ResumeFirst(k, w)
             X == IF k.wait[w] = <<>> THEN {} ELSE {Head(k.wait[w])}
         IN  /\ Released(r, k, X, "EOK") /\ r.cur = k.cur
             /\ r = k <=> k.wait[w] = <<>>
             /\ \A x \in X : x \in Thread /\ Waits(x, w)
<1> DEFINE r == ResumeFirst(k, w)
           X == IF k.wait[w] = <<>> THEN {} ELSE {Head(k.wait[w])}
<1>0. Sound(k, {}) /\ CurrentSound(k, {}) /\ k.wait[w] \in Seq(Thread)
  BY KInvFacts DEF KernelState
<1>1. CASE k.wait[w] = <<>>
  <2>1. Released(k, k, {}, "EOK")
    BY <1>0, NothingReleased
  <2> QED BY <1>1, <2>1 DEF ResumeFirst
<1>2. CASE k.wait[w] # <<>>
  <2> DEFINE x == Head(k.wait[w])
             z == ResumeThread(k, x)
  <2>1. x \in Thread /\ Contains(k.wait[w], x)
    BY <1>0, <1>2, HeadFacts
  <2> HIDE DEF x
  <2>2. k.stat[x] = "SUSPEND" /\ k.error[x] = "EOK" /\ x \notin {}
    BY <2>1, WaiterPoints DEF Waits, Untold
  <2>3. /\ Sound(z, {})
        /\ OnlyStat(z, k, x, IF x = k.cur THEN "RUNNING" ELSE "READY")
        /\ \A y : Contains(z.timers, y) <=> Contains(k.timers, y) /\ y # x
        /\ x # k.cur => z.group # {}
        /\ OffWaits(z, k, x) /\ z.error = k.error /\ z.tick = k.tick
    BY <1>0, <2>1, <2>2, ResumeThreadSound
  <2> HIDE DEF z
  <2>4. Told(z, k, x, "EOK")
    BY <2>2, <2>3 DEF Told
  <2>5. Woken(z, k, {}, x, "EOK")
    BY <2>2, <2>3, <2>4 DEF Woken
  <2>6. Released(z, k, {x}, "EOK") /\ z.cur = k.cur
    BY <1>0, <2>1, <2>5, WokenReleased
  <2>7. z # k
    BY <2>1, <2>6 DEF Released
  <2>8. r = z /\ X = {x}
    BY <1>2 DEF ResumeFirst, x, z
  <2> QED BY <1>2, <2>1, <2>6, <2>7, <2>8 DEF Waits
<1> QED BY <1>1, <1>2

\* A handler schedules when it has released somebody.
LEMMA ThenSchedules ==
  ASSUME KInv, NoUart, NEW r, NEW X, NEW e, Released(r, k, X, e)
  PROVE  Released(Schedule(r), k, X, e)
BY KInvFacts, ScheduleReleased DEF NoUart

-----------------------------------------------------------------------------
(* Completions                                                             *)

WaitingPC == {"wait_granted", "wait_refused", "wait_sched", "wait_return"}

\* What every step of a completion keeps to: only the waiter is in
\* rt_completion_wait, and it does not go on waiting past a signal.
CompletionKept ==
  /\ KInv /\ NoUart /\ flag \in BOOLEAN
  /\ \A t \in Thread : pc[t] \in WaitingPC => t = Waiter
  /\ Waits(Waiter, "done") => ~flag

\* What happens to the abstract signal.
SignalGoesOn == Completed!Next \/ UNCHANGED <<Given, WaitCall>>

\* What is known of the waiter.
LEMMA WaiterFacts ==
  ASSUME CompletionKept
  PROVE  /\ KInv /\ NoUart /\ flag \in BOOLEAN /\ Waiter \in Thread
         /\ Waiter # Idle /\ "done" \in WaitList
         /\ \A t \in Thread : Waits(t, "done") =>
              t = Waiter /\ pc[t] \in {"wait_sched", "wait_return"}
              /\ k.error[t] = "EOK" /\ ~flag
         /\ \A t \in Thread : Waits(t, "done") => \A w \in WaitList \ {"done"} : ~Waits(t, w)
<1>0. /\ KInv /\ NoUart /\ flag \in BOOLEAN /\ Waiter \in Thread
      /\ Waiter # Idle /\ "done" \in WaitList
  BY CompletionAssumption, ServicesAssumption DEF CompletionKept
<1>1. ASSUME NEW t \in Thread, Waits(t, "done")
      PROVE  /\ t = Waiter /\ pc[t] \in {"wait_sched", "wait_return"}
             /\ k.error[t] = "EOK" /\ ~flag
             /\ \A w \in WaitList \ {"done"} : ~Waits(t, w)
  <2>1. pc[t] \in Places("done") /\ k.error[t] = Untold("done")
    BY <1>0, <1>1, WaiterPoints
  <2>2. pc[t] \in {"wait_sched", "wait_return"} /\ k.error[t] = "EOK"
    BY <2>1 DEF Places, Untold
  <2>3. t = Waiter
    BY <2>2 DEF CompletionKept, WaitingPC
  <2>4. \A w \in WaitList \ {"done"} : ~Waits(t, w)
    BY <1>0, <1>1, KInvFacts
  <2> QED BY <1>1, <2>2, <2>3, <2>4 DEF CompletionKept
<1> QED BY <1>0, <1>1

\* A completion that nobody uses.
LEMMA CompletionForeign ==
  ASSUME CompletionKept, KInv', NoUart', NEW A, Foot(A), A \cap CompletionPC = {},
         flag' = flag
  PROVE  CompletionKept' /\ SignalGoesOn
<1>0. Waiter \in Thread /\ "done" \in WaitList
  BY WaiterFacts
<1>1. \A t \in Thread : /\ pc[t] \in CompletionPC => pc'[t] = pc[t]
                        /\ pc'[t] \in CompletionPC => pc'[t] = pc[t]
  BY DEF Foot, Untouched, Points, CompletionPC
<1>2. Contains(k'.wait["done"], Waiter) <=> Contains(k.wait["done"], Waiter)
  <2>1. CASE Untouched(Waiter)
    BY <1>0, <2>1 DEF Untouched
  <2>2. CASE pc[Waiter] \in Points(A) /\ pc'[Waiter] \in Points(A)
    <3>1. pc[Waiter] \notin Places("done") /\ pc'[Waiter] \notin Places("done")
      BY <2>2 DEF Points, Places, CompletionPC
    <3>2. ~Waits(Waiter, "done")
      BY <1>0, <3>1, WaiterPoints DEF CompletionKept
    <3>3. ~Contains(k'.wait["done"], Waiter)
      BY <1>0, <3>1 DEF NoUart, WaitsInPlace, Waits
    <3> QED BY <3>2, <3>3 DEF Waits
  <2> QED BY <1>0, <2>1, <2>2 DEF Foot
<1>3. CompletionKept'
  <2>1. \A t \in Thread : pc'[t] \in WaitingPC => t = Waiter
    BY <1>1 DEF CompletionKept, WaitingPC, CompletionPC
  <2> QED BY <1>2, <2>1 DEF CompletionKept, Waits
<1>4. UNCHANGED <<Given, WaitCall>>
  <2>1. CASE Untouched(Waiter)
    <3>1. pc'[Waiter] = pc[Waiter] /\ k'.error[Waiter] = k.error[Waiter]
      BY <2>1 DEF Untouched
    <3> QED BY <1>2, <3>1 DEF Given, WaitCall, TakesSignal, Waits
  <2>2. CASE pc[Waiter] \in Points(A) /\ pc'[Waiter] \in Points(A)
    <3>1. pc[Waiter] \notin WaitingPC /\ pc'[Waiter] \notin WaitingPC
      BY <2>2 DEF Points, WaitingPC, CompletionPC
    <3> QED BY <3>1 DEF Given, WaitCall, TakesSignal, Waits, WaitingPC
  <2> QED BY <1>0, <2>1, <2>2 DEF Foot
<1> QED BY <1>3, <1>4 DEF SignalGoesOn

\* The waiter, or a thread that signals, takes a step without touching lists.
LEMMA CompletionGoesTo ==
  ASSUME CompletionKept, NEW t \in Thread, NEW c, Executes(t), t # Idle,
         pc[t] \in Plain, pc[t] \in Points(CompletionPC), c \in Plain,
         c \in Points(CompletionPC), k' = k, Goto(t, c), isr' = isr, live' = live,
         c \in WaitingPC => t = Waiter, flag' \in {flag, FALSE}
  PROVE  /\ CompletionKept' /\ Foot(CompletionPC)
         /\ pc'[t] = c /\ \A u \in Thread : u # t => pc'[u] = pc[u]
<1>0. KInv /\ NoUart /\ flag \in BOOLEAN
  BY WaiterFacts
<1>1. Released(k', k, {}, "EOK")
  <2>1. Released(k, k, {}, "EOK")
    BY <1>0, KInvFacts, NothingReleased
  <2> QED BY <2>1
<1>2. KInv' /\ NoUart' /\ Foot(CompletionPC)
  <2>1. /\ c # "recv_return" /\ "EOK" \in {"EOK", "ETIMEOUT", "ERROR"}
        /\ live' \subseteq live
        /\ \A x \in Thread : x \in {} => x = t \/ pc[x] \in Points(CompletionPC)
    BY DEF Points, CompletionPC
  <2> QED BY <1>0, <1>1, <2>1, GoOn
<1>3. pc'[t] = c /\ \A u \in Thread : u # t => pc'[u] = pc[u]
  BY <1>0, KInvFacts DEF Goto
<1>4. CompletionKept'
  <2>1. \A u \in Thread : pc'[u] \in WaitingPC => u = Waiter
    BY <1>3 DEF CompletionKept
  <2>2. Contains(k'.wait["done"], Waiter) => ~flag'
    BY DEF CompletionKept, Waits
  <2> QED BY <1>0, <1>2, <2>1, <2>2 DEF CompletionKept, Waits
<1> QED BY <1>2, <1>3, <1>4

\* rt_completion_wait finds a signal, or does not and may not wait.
LEMMA WaitBegins ==
  ASSUME CompletionKept, NEW t \in Thread, WaitNow(t) \/ WaitRefused(t)
  PROVE  CompletionKept' /\ Foot(CompletionPC) /\ SignalGoesOn
<1>1. PICK c \in {"wait_granted", "wait_refused"} :
        /\ Calls(t, "completion") /\ t = Waiter /\ Goto(t, c) /\ flag' = FALSE
        /\ k' = k /\ isr' = isr /\ live' = live
        /\ flag = (c = "wait_granted")
  BY WaiterFacts DEF WaitNow, WaitRefused, wvars
<1>2. /\ Executes(t) /\ t # Idle /\ pc[t] = "run" /\ pc[t] \in Plain
      /\ pc[t] \in Points(CompletionPC)
  BY <1>1, WaiterFacts, CallerFacts
<1>3. c \in Plain /\ c \in Points(CompletionPC)
  BY <1>1 DEF Plain, Points, CompletionPC, ServicesPC, Blocking, Locked
<1>4. CompletionKept' /\ Foot(CompletionPC) /\ pc'[t] = c
  <2>1. (c \in WaitingPC => t = Waiter) /\ flag' \in {flag, FALSE}
    BY <1>1
  <2> QED BY <1>1, <1>2, <1>3, <2>1, CompletionGoesTo
<1>5. pc[Waiter] = "run" /\ pc'[Waiter] = c
  BY <1>1, <1>2, <1>4
<1>6. Completed!Wait
  BY <1>1, <1>5 DEF Completed!Wait, Given, WaitCall, TakesSignal, Waits
<1> QED BY <1>4, <1>6 DEF SignalGoesOn, Completed!Next

\* rt_completion_done finds the flag clear.
LEMMA DoneTestStep ==
  ASSUME CompletionKept, NEW t \in Thread, DoneTest(t)
  PROVE  CompletionKept' /\ Foot(CompletionPC) /\ SignalGoesOn
<1>1. /\ Calls(t, "completion") /\ Goto(t, "done_set") /\ flag' = flag
      /\ k' = k /\ isr' = isr /\ live' = live
  BY DEF DoneTest, wvars
<1>2. /\ Executes(t) /\ t # Idle /\ pc[t] = "run" /\ pc[t] \in Plain
      /\ pc[t] \in Points(CompletionPC)
  BY <1>1, WaiterFacts, CallerFacts
<1>3. /\ "done_set" \in Plain /\ "done_set" \in Points(CompletionPC)
      /\ "done_set" \notin WaitingPC
  BY DEF Plain, Points, CompletionPC, ServicesPC, Blocking, Locked, WaitingPC
<1>4. /\ CompletionKept' /\ Foot(CompletionPC) /\ pc'[t] = "done_set"
      /\ \A u \in Thread : u # t => pc'[u] = pc[u]
  <2>1. ("done_set" \in WaitingPC => t = Waiter) /\ flag' \in {flag, FALSE}
    BY <1>1, <1>3
  <2> QED BY <1>1, <1>2, <1>3, <2>1, CompletionGoesTo
<1>5. \/ pc'[Waiter] = pc[Waiter]
      \/ pc[Waiter] = "run" /\ pc'[Waiter] = "done_set"
  BY <1>2, <1>4, WaiterFacts
<1>6. UNCHANGED <<Given, WaitCall>>
  BY <1>1, <1>5 DEF Given, WaitCall, TakesSignal, Waits
<1> QED BY <1>4, <1>6 DEF SignalGoesOn

\* rt_completion_wait waits,
LEMMA WaitBlockStep ==
  ASSUME CompletionKept, NEW t \in Thread, WaitBlock(t)
  PROVE  CompletionKept' /\ Foot(CompletionPC) /\ SignalGoesOn
<1>0. KInv /\ NoUart /\ "done" \in WaitList
  BY WaiterFacts
<1>1. PICK timeout \in Timeouts \ {NoWait} : k' = AwaitLast(k, "done", t, timeout)
  BY DEF WaitBlock
<1>2. /\ Calls(t, "completion") /\ t = Waiter /\ ~flag /\ Goto(t, "wait_sched")
      /\ flag' = flag /\ isr' = isr /\ live' = live
  BY DEF WaitBlock, wvars
<1>3. /\ Executes(t) /\ t # Idle /\ pc[t] = "run" /\ pc[t] \in Plain
      /\ pc[t] \in Points(CompletionPC) /\ k.stat[t] = "RUNNING"
  BY <1>0, <1>2, CallerFacts
<1>4. Blocked(k', k, "done", t, Untold("done"))
  <2>1. k.stat[t] \in {"READY", "RUNNING"} /\ Sound(k, {})
    BY <1>0, <1>3, KInvFacts
  <2>2. timeout \in Int
    BY WaitingAssumption, TickHalfFacts DEF Forever, NoWait
  <2>3. Blocked(AwaitLast(k, "done", t, timeout), k, "done", t, "EOK")
    BY <1>0, <2>1, <2>2, AwaitSound
  <2> QED BY <1>1, <2>3 DEF Untold
<1>5. KInv' /\ NoUart' /\ Foot(CompletionPC)
  <2>1. /\ "wait_sched" \in Blocking /\ "wait_sched" \in Places("done")
        /\ "wait_sched" \in Points(CompletionPC) /\ live' \subseteq live
    BY <1>2 DEF Blocking, Places, Points, CompletionPC
  <2> QED BY <1>0, <1>2, <1>3, <1>4, <2>1, BlockOn
<1>6. pc'[t] = "wait_sched" /\ \A u \in Thread : u # t => pc'[u] = pc[u]
  BY <1>0, <1>2, KInvFacts DEF Goto
<1>7. Contains(k'.wait["done"], Waiter)
  BY <1>0, <1>2, <1>4 DEF Blocked, OnWait
<1>8. CompletionKept'
  <2>1. \A u \in Thread : pc'[u] \in WaitingPC => u = Waiter
    BY <1>2, <1>6 DEF CompletionKept
  <2> QED BY <1>2, <1>5, <2>1 DEF CompletionKept
<1>9. Completed!Wait
  BY <1>2, <1>3, <1>6, <1>7 DEF Completed!Wait, Given, WaitCall, TakesSignal, Waits
<1> QED BY <1>5, <1>8, <1>9 DEF SignalGoesOn, Completed!Next

\* schedules,
LEMMA WaitScheduleStep ==
  ASSUME CompletionKept, NEW t \in Thread, WaitSchedule(t)
  PROVE  CompletionKept' /\ Foot(CompletionPC) /\ SignalGoesOn
<1>0. KInv /\ NoUart /\ "done" \in WaitList /\ Waiter \in Thread
  BY WaiterFacts
<1>1. /\ At(t, "wait_sched") /\ k' = Schedule(k) /\ Goto(t, "wait_return")
      /\ isr' = isr /\ live' = live /\ flag' = flag
  BY DEF WaitSchedule, ScheduleIn, wvars
<1>2. KInv' /\ NoUart' /\ Foot(CompletionPC) /\ Released(k', k, {}, "EOK")
  <2>1. /\ "wait_sched" \in Blocking \ {"sleep_mark"}
        /\ "wait_return" = AfterBlock("wait_sched")
        /\ "wait_sched" \in CompletionPC /\ "wait_return" \in CompletionPC
    BY DEF Blocking, AfterBlock, CompletionPC
  <2> QED BY <1>0, <1>1, <2>1, GiveUp
<1>3. /\ pc[t] = "wait_sched" /\ pc'[t] = "wait_return"
      /\ \A u \in Thread : u # t => pc'[u] = pc[u]
  BY <1>0, <1>1, KInvFacts DEF Goto, At
<1>4. t = Waiter
  BY <1>3 DEF CompletionKept, WaitingPC
<1>5. /\ Contains(k'.wait["done"], Waiter) <=> Contains(k.wait["done"], Waiter)
      /\ k'.error[Waiter] = k.error[Waiter]
  BY <1>0, <1>2 DEF Released
<1>6. CompletionKept'
  BY <1>1, <1>2, <1>3, <1>4, <1>5 DEF CompletionKept, Waits
<1>7. UNCHANGED <<Given, WaitCall>>
  BY <1>1, <1>3, <1>4, <1>5 DEF Given, WaitCall, TakesSignal, Waits
<1> QED BY <1>2, <1>6, <1>7 DEF SignalGoesOn

\* and returns.
LEMMA WaitReturnStep ==
  ASSUME CompletionKept, NEW t \in Thread, WaitReturn(t)
  PROVE  CompletionKept' /\ Foot(CompletionPC) /\ SignalGoesOn
<1>0. KInv /\ NoUart /\ "done" \in WaitList /\ Waiter \in Thread /\ flag \in BOOLEAN
  BY WaiterFacts
<1>1. /\ Executes(t) /\ pc[t] \in {"wait_granted", "wait_refused", "wait_return"}
      /\ Back(t) /\ isr' = isr /\ live' = live
      /\ flag' = IF pc[t] = "wait_return" THEN FALSE ELSE flag
  BY DEF WaitReturn, At, wvars, FlagAfterWait
<1>2. /\ pc[t] # "run" /\ pc[t] \in Plain /\ pc[t] \in CompletionPC
      /\ pc[t] \notin Blocking /\ pc[t] \in WaitingPC /\ "run" \notin WaitingPC
  BY <1>1 DEF Plain, CompletionPC, ServicesPC, Blocking, Locked, WaitingPC
<1>3. /\ KInv' /\ NoUart' /\ Foot(CompletionPC)
      /\ Released(k', k, {t}, "EOK") /\ Goto(t, "run")
  BY <1>0, <1>1, <1>2, BackOn
<1>4. t = Waiter
  BY <1>2 DEF CompletionKept
<1>5. pc'[t] = "run" /\ \A u \in Thread : u # t => pc'[u] = pc[u]
  BY <1>0, <1>3, KInvFacts DEF Goto
<1>6. ~Waits(Waiter, "done")
  BY <1>0, <1>1, <1>2, <1>4, ExecutingRuns
<1>7. ~Contains(k'.wait["done"], Waiter)
  BY <1>0, <1>3, <1>4 DEF Released
<1>8. CompletionKept'
  <2>1. \A u \in Thread : pc'[u] \in WaitingPC => u = Waiter
    BY <1>2, <1>5 DEF CompletionKept
  <2>2. flag' \in BOOLEAN
    BY <1>0, <1>1
  <2> QED BY <1>3, <1>7, <2>1, <2>2 DEF CompletionKept, Waits
<1>9. Completed!Return
  <2>1. WaitCall' = "none" /\ Given' = flag'
    BY <1>4, <1>5, <1>8 DEF Given, WaitCall, TakesSignal, CompletionKept, Waits
  <2>2. CASE pc[t] = "wait_return"
    <3>1. pc[Waiter] = "wait_return" /\ flag' = FALSE
      BY <1>1, <1>4, <2>2
    <3>2. \/ WaitCall = "granted" /\ Given = FALSE
          \/ WaitCall = "refused"
      BY <1>6, <3>1 DEF Given, WaitCall, TakesSignal
    <3> QED BY <2>1, <3>1, <3>2 DEF Completed!Return
  <2>3. CASE pc[t] # "wait_return"
    <3>1. pc[Waiter] \in {"wait_granted", "wait_refused"} /\ flag' = flag
      BY <1>1, <1>4, <2>3
    <3>2. WaitCall \in {"granted", "refused"} /\ Given = flag
      BY <1>0, <3>1 DEF Given, WaitCall, TakesSignal
    <3> QED BY <2>1, <3>1, <3>2 DEF Completed!Return
  <2> QED BY <2>2, <2>3
<1> QED BY <1>3, <1>8, <1>9 DEF SignalGoesOn, Completed!Next

\* The flag is set and whoever waits is woken.
LEMMA SignalGiven ==
  ASSUME CompletionKept, KInv', NoUart', NEW X \in SUBSET Thread,
         Released(k', k, X, "EOK"), flag' = TRUE,
         \A u \in Thread : pc'[u] = pc[u] \/ (pc[u] \notin WaitingPC /\ pc'[u] \notin WaitingPC),
         \A x \in X : Waits(x, "done"), Waits(Waiter, "done") => Waiter \in X
  PROVE  CompletionKept' /\ SignalGoesOn
<1>0. KInv /\ NoUart /\ "done" \in WaitList /\ Waiter \in Thread /\ flag \in BOOLEAN
  BY WaiterFacts
<1>1. ~Contains(k'.wait["done"], Waiter)
  BY <1>0 DEF Released, Waits
<1>2. CompletionKept'
  BY <1>1 DEF CompletionKept, Waits
<1>3. CASE Waits(Waiter, "done")
  <2>1. /\ pc[Waiter] \in {"wait_sched", "wait_return"} /\ ~flag
    BY <1>0, <1>3, WaiterFacts
  <2>2. pc'[Waiter] = pc[Waiter] /\ k'.error[Waiter] = "EOK"
    BY <1>0, <1>3, <2>1 DEF Released, WaitingPC
  <2>3. Given = FALSE /\ WaitCall = "waiting"
    BY <1>3, <2>1 DEF Given, WaitCall, TakesSignal
  <2>4. Given' = FALSE /\ WaitCall' = "granted"
    BY <1>1, <2>1, <2>2 DEF Given, WaitCall, TakesSignal, Waits
  <2>5. Completed!Give
    BY <2>3, <2>4 DEF Completed!Give
  <2> QED BY <1>2, <2>5 DEF SignalGoesOn, Completed!Next
<1>4. CASE ~Waits(Waiter, "done")
  <2>1. k'.error[Waiter] = k.error[Waiter]
    BY <1>0, <1>4 DEF Released
  <2>2. WaitCall' = WaitCall /\ TakesSignal' = TakesSignal /\ WaitCall # "waiting"
    <3>1. CASE pc'[Waiter] = pc[Waiter]
      BY <1>1, <1>4, <2>1, <3>1 DEF WaitCall, TakesSignal, Waits
    <3>2. CASE pc[Waiter] \notin WaitingPC /\ pc'[Waiter] \notin WaitingPC
      BY <3>2 DEF WaitCall, TakesSignal, WaitingPC, Waits
    <3> QED BY <1>0, <3>1, <3>2
  <2>3. CASE TakesSignal
    <3>1. Given' = Given
      BY <2>2, <2>3 DEF Given
    <3> QED BY <1>2, <2>2, <3>1 DEF SignalGoesOn
  <2>4. CASE ~TakesSignal
    <3>1. Given' = TRUE
      BY <2>2, <2>4 DEF Given
    <3>2. Completed!Give
      BY <2>2, <3>1 DEF Completed!Give
    <3> QED BY <1>2, <3>2 DEF SignalGoesOn, Completed!Next
  <2> QED BY <2>3, <2>4
<1> QED BY <1>3, <1>4

\* rt_completion_done sets the flag, in a thread,
LEMMA DoneSetStep ==
  ASSUME CompletionKept, NEW t \in Thread, DoneSet(t)
  PROVE  CompletionKept' /\ Foot(CompletionPC) /\ SignalGoesOn
<1>0. KInv /\ NoUart /\ "done" \in WaitList /\ Waiter \in Thread
  BY WaiterFacts
<1> DEFINE r == ResumeFirst(k, "done")
           X == IF k.wait["done"] = <<>> THEN {} ELSE {Head(k.wait["done"])}
           c == IF k' = k THEN "run" ELSE "sched"
<1>1. /\ Executes(t) /\ pc[t] = "done_set" /\ flag' = TRUE
      /\ k' = r /\ Goto(t, c) /\ isr' = isr /\ live' = live
  BY DEF DoneSet, At, wvars
<1>2. /\ Released(r, k, X, "EOK") /\ r.cur = k.cur
      /\ r = k <=> k.wait["done"] = <<>>
      /\ \A x \in X : x \in Thread /\ Waits(x, "done")
  <2>1. "done" # "event"
    OBVIOUS
  <2> QED BY <1>0, <2>1, ResumeFirstReleased
<1>3. Waits(Waiter, "done") => Waiter \in X
  <2> SUFFICES ASSUME Waits(Waiter, "done") PROVE Waiter \in X
    OBVIOUS
  <2>1. k.wait["done"] \in Seq(Thread)
    BY <1>0, KInvFacts DEF KernelState
  <2>2. k.wait["done"] # <<>>
    BY EmptyFacts DEF Waits
  <2>3. Head(k.wait["done"]) \in Thread /\ Waits(Head(k.wait["done"]), "done")
    BY <2>1, <2>2, HeadFacts DEF Waits
  <2>4. Head(k.wait["done"]) = Waiter
    BY <2>3, WaiterFacts
  <2> QED BY <2>2, <2>4
<1> HIDE DEF r, X
<1>4. /\ pc[t] \in Plain /\ pc[t] \in Points(CompletionPC) /\ pc[t] \notin WaitingPC
      /\ c \in Plain /\ c \in Points(CompletionPC) /\ c \notin WaitingPC
      /\ c # "recv_return" /\ t # Idle
  BY <1>0, <1>1 DEF Plain, Points, CompletionPC, ServicesPC, PC, Blocking, Locked,
                    WaitingPC, KInv, ControlOK
<1> HIDE DEF c
<1>5. KInv' /\ NoUart' /\ Foot(CompletionPC)
  <2>1. \A x \in Thread : x \in X => x = t \/ pc[x] \in Points(CompletionPC)
    BY <1>2, WaiterFacts DEF Points, CompletionPC
  <2>2. "EOK" \in {"EOK", "ETIMEOUT", "ERROR"} /\ live' \subseteq live
    BY <1>1
  <2>3. Released(k', k, X, "EOK")
    BY <1>1, <1>2
  <2> QED BY <1>0, <1>1, <1>4, <2>1, <2>2, <2>3, GoOn
<1>6. \A u \in Thread :
        pc'[u] = pc[u] \/ (pc[u] \notin WaitingPC /\ pc'[u] \notin WaitingPC)
  <2>1. pc'[t] = c /\ \A u \in Thread : u # t => pc'[u] = pc[u]
    BY <1>0, <1>1, KInvFacts DEF Goto
  <2> QED BY <1>4, <2>1
<1>7. X \in SUBSET Thread
  BY <1>2
<1> QED BY <1>1, <1>2, <1>3, <1>5, <1>6, <1>7, SignalGiven

\* and in a handler.
LEMMA IsrDoneStep ==
  ASSUME CompletionKept, IsrDone
  PROVE  CompletionKept' /\ Foot(CompletionPC) /\ SignalGoesOn
<1>0. KInv /\ NoUart /\ "done" \in WaitList /\ Waiter \in Thread
  BY WaiterFacts
<1> DEFINE r == ResumeFirst(k, "done")
           X == IF k.wait["done"] = <<>> THEN {} ELSE {Head(k.wait["done"])}
<1>1. /\ flag' = TRUE /\ pc' = pc /\ isr' = isr /\ live' = live
      /\ k' = IF k.wait["done"] = <<>> THEN k ELSE Schedule(r)
  BY DEF IsrDone, wvars
<1>2. /\ Released(r, k, X, "EOK") /\ r.cur = k.cur
      /\ r = k <=> k.wait["done"] = <<>>
      /\ \A x \in X : x \in Thread /\ Waits(x, "done")
  <2>1. "done" # "event"
    OBVIOUS
  <2> QED BY <1>0, <2>1, ResumeFirstReleased
<1>3. Waits(Waiter, "done") => Waiter \in X
  <2> SUFFICES ASSUME Waits(Waiter, "done") PROVE Waiter \in X
    OBVIOUS
  <2>1. k.wait["done"] \in Seq(Thread)
    BY <1>0, KInvFacts DEF KernelState
  <2>2. k.wait["done"] # <<>>
    BY EmptyFacts DEF Waits
  <2>3. Head(k.wait["done"]) \in Thread /\ Waits(Head(k.wait["done"]), "done")
    BY <2>1, <2>2, HeadFacts DEF Waits
  <2>4. Head(k.wait["done"]) = Waiter
    BY <2>3, WaiterFacts
  <2> QED BY <2>2, <2>4
<1> HIDE DEF r, X
<1>4. Released(k', k, X, "EOK")
  <2>1. Released(Schedule(r), k, X, "EOK")
    BY <1>0, <1>2, ThenSchedules
  <2> QED BY <1>1, <1>2, <2>1
<1>5. KInv' /\ NoUart' /\ Foot(CompletionPC)
  <2>1. \A x \in Thread : x \in X => pc[x] \in Points(CompletionPC)
    BY <1>2, WaiterFacts DEF Points, CompletionPC
  <2>2. "EOK" \in {"EOK", "ETIMEOUT", "ERROR"}
    OBVIOUS
  <2> QED BY <1>0, <1>1, <1>4, <2>1, <2>2, Handle
<1>6. \A u \in Thread :
        pc'[u] = pc[u] \/ (pc[u] \notin WaitingPC /\ pc'[u] \notin WaitingPC)
  BY <1>1
<1>7. X \in SUBSET Thread
  BY <1>2
<1> QED BY <1>1, <1>2, <1>3, <1>4, <1>5, <1>6, <1>7, SignalGiven

\* The steps of a completion, all together.
LEMMA CompletionStepKeeps ==
  ASSUME CompletionKept, CompletionNext
  PROVE  CompletionKept' /\ Foot(CompletionPC) /\ SignalGoesOn
<1>1. CASE IsrDone
  BY <1>1, IsrDoneStep
<1>2. ASSUME NEW t \in Thread, CompletionStep(t)
      PROVE  CompletionKept' /\ Foot(CompletionPC) /\ SignalGoesOn
  <2>1. CASE WaitNow(t) \/ WaitRefused(t)
    BY <2>1, WaitBegins
  <2>2. CASE WaitBlock(t) \/ WaitSchedule(t) \/ WaitReturn(t)
    BY <2>2, WaitBlockStep, WaitScheduleStep, WaitReturnStep
  <2>3. CASE DoneTest(t) \/ DoneSet(t)
    BY <2>3, DoneTestStep, DoneSetStep
  <2> QED BY <1>2, <2>1, <2>2, <2>3 DEF CompletionStep
<1> QED BY <1>1, <1>2 DEF CompletionNext

\* The wait may time out.
LEMMA CompletionTick ==
  ASSUME CompletionKept, KInv', NoUart', NEW W \in SUBSET Thread,
         Released(k', k, W, "ETIMEOUT"), \A t \in W : k.stat[t] = "SUSPEND",
         pc' = pc, flag' = flag
  PROVE  CompletionKept' /\ SignalGoesOn
<1>0. KInv /\ NoUart /\ "done" \in WaitList /\ Waiter \in Thread
  BY WaiterFacts
<1>1. Contains(k'.wait["done"], Waiter) <=> Waits(Waiter, "done") /\ Waiter \notin W
  BY <1>0 DEF Released, Waits
<1>2. CompletionKept'
  BY <1>1 DEF CompletionKept, Waits
<1>3. CASE Waiter \in W /\ pc[Waiter] \in {"wait_sched", "wait_return"}
  <2>1. Waits(Waiter, "done")
    <3>1. /\ pc[Waiter] \notin Asleep
          /\ \A w \in WaitList : pc[Waiter] \in Places(w) => w = "done"
      BY <1>3, ServicesAssumption DEF Asleep, Places
    <3> QED BY <1>0, <1>3, <3>1 DEF NoUart, SuspendedKnown, WaitsInPlace
  <2>2. k'.error[Waiter] = "ETIMEOUT"
    BY <1>0, <1>3 DEF Released
  <2>3. Completed!Refuse
    BY <1>1, <1>3, <2>1, <2>2
       DEF Completed!Refuse, Given, WaitCall, TakesSignal, Waits
  <2> QED BY <1>2, <2>3 DEF SignalGoesOn, Completed!Next
<1>4. CASE Waiter \in W /\ pc[Waiter] \notin {"wait_sched", "wait_return"}
  <2>1. UNCHANGED <<Given, WaitCall>>
    BY <1>4 DEF Given, WaitCall, TakesSignal, Waits
  <2> QED BY <1>2, <2>1 DEF SignalGoesOn
<1>5. CASE Waiter \notin W
  <2>1. k'.error[Waiter] = k.error[Waiter]
    BY <1>0, <1>5 DEF Released
  <2>2. UNCHANGED <<Given, WaitCall>>
    BY <1>1, <1>5, <2>1 DEF Given, WaitCall, TakesSignal, Waits
  <2> QED BY <1>2, <2>2 DEF SignalGoesOn
<1> QED BY <1>3, <1>4, <1>5

-----------------------------------------------------------------------------
(* Memory pools                                                            *)

AllocPC == {"alloc_sched", "alloc_woken", "alloc_retry", "alloc_return"}

\* What is left of the timeout of a call that waits again.
LeftOK == left \in [Thread -> {Forever} \cup 0 .. TickHalf - 1]

\* The threads on their way to the list of blocks.
Comers == {t \in Thread : OnItsWay(t, "pool", AtTheirTry)}

\* What every step of a pool keeps to: besides the list and its counter, a
\* block is only held by a call that returns, and a thread that tries again
\* has been woken for a block.
PoolKept ==
  /\ KInv /\ NoUart /\ PoolTypeOK /\ BlocksWakeWaiters
  /\ \A t \in Thread : pc[t] # "alloc_return" => got[t] = RT_NULL
  /\ \A t \in Thread : pc[t] = "alloc_retry" => k.error[t] = "EOK"

\* What happens to the abstract allocator.
AllocGoesOn == Pool!Next \/ UNCHANGED <<Used, [t \in Thread |-> AllocCall(t)]>>

\* A step of the pool.
PoolGoes == PoolKept' /\ LeftOK' /\ Foot(PoolPC) /\ AllocGoesOn

\* What is known of the list of blocks.
LEMMA BlockFacts ==
  ASSUME PoolTypeOK
  PROVE  /\ list \in Seq(PoolBlock) /\ IsInjective(list)
         /\ count = Len(list) /\ count \in Nat
         /\ count = 0 <=> list = <<>>
         /\ Used \subseteq PoolBlock /\ RT_NULL \notin PoolBlock
         /\ \A b \in PoolBlock : b \in Used <=> ~Contains(list, b)
         /\ count = 0 => Used = PoolBlock
<1>1. list \in Seq(PoolBlock) /\ IsInjective(list) /\ count = Len(list)
  BY DEF PoolTypeOK
<1>2. count \in Nat /\ (count = 0 <=> list = <<>>)
  BY <1>1, EmptySeq
<1>3. /\ Used \subseteq PoolBlock
      /\ \A b \in PoolBlock : b \in Used <=> ~Contains(list, b)
  BY DEF Used
<1>4. count = 0 => Used = PoolBlock
  BY <1>2, <1>3, EmptyFacts
<1>5. RT_NULL \notin PoolBlock
  BY MemPoolAssumption DEF RT_NULL, PoolBlock
<1> QED BY <1>1, <1>2, <1>3, <1>4, <1>5

\* The first block is taken off the list.
LEMMA BlockTaken ==
  ASSUME PoolTypeOK, count > 0, count' = count - 1, list' = Tail(list)
  PROVE  /\ Head(list) \in PoolBlock \ Used /\ Used' = Used \cup {Head(list)}
         /\ list' \in Seq(PoolBlock) /\ IsInjective(list') /\ count' = Len(list')
<1>1. list # <<>>
  BY BlockFacts
<1>2. /\ list' \in Seq(PoolBlock) /\ IsInjective(list')
      /\ Len(list) > 0 /\ Len(list') = Len(list) - 1
      /\ \A x : Contains(list', x) <=> Contains(list, x) /\ x # Head(list)
  BY <1>1, BlockFacts, TailKeepsOne
<1>3. Head(list) \in PoolBlock /\ Contains(list, Head(list))
  BY <1>1, BlockFacts, HeadFacts
<1>4. Used' = Used \cup {Head(list)}
  BY <1>2, <1>3 DEF Used
<1>5. Head(list) \notin Used
  BY <1>3 DEF Used
<1> QED BY <1>2, <1>3, <1>4, <1>5, BlockFacts

\* A block is put back on the list.
LEMMA BlockFreed ==
  ASSUME PoolTypeOK, PutBack
  PROVE  /\ \E b \in Used : Used' = Used \ {b}
         /\ list' \in Seq(PoolBlock) /\ IsInjective(list') /\ count' = Len(list')
         /\ count' = count + 1 /\ got' = got /\ before' = before
<1>1. PICK b \in Freeable : list' = <<b>> \o list
  BY DEF PutBack
<1>2. count' = count + 1 /\ got' = got /\ before' = before
  BY DEF PutBack
<1>3. b \in PoolBlock /\ ~Contains(list, b)
  BY DEF Freeable
<1>4. /\ list' \in Seq(PoolBlock) /\ IsInjective(list')
      /\ \A x : Contains(list', x) <=> Contains(list, x) \/ x = b
  BY <1>1, <1>3, BlockFacts, ConsKeepsOne
<1>5. Len(list') = Len(list) + 1
  <2>1. <<b>> \in Seq(PoolBlock) /\ Len(<<b>>) = 1
    BY <1>3
  <2> QED BY <1>1, <2>1, BlockFacts, ConcatProperties
<1>6. b \in Used /\ Used' = Used \ {b}
  BY <1>3, <1>4 DEF Used
<1> QED BY <1>2, <1>4, <1>5, <1>6, BlockFacts

\* How many threads come.
LEMMA CountComers ==
  ASSUME NEW C \in SUBSET Thread, NEW D \in SUBSET Thread, NEW t \in Thread
  PROVE  /\ Cardinality(C) \in Nat
         /\ C \subseteq D => Cardinality(C) <= Cardinality(D)
         /\ C \ {t} \subseteq D => Cardinality(C) - 1 <= Cardinality(D)
         /\ t \notin C /\ C \cup {t} \subseteq D => Cardinality(C) + 1 <= Cardinality(D)
<1>1. IsFiniteSet(C) /\ IsFiniteSet(D)
  BY KernelAssumption, FS_Subset
<1>2. Cardinality(C) \in Nat /\ Cardinality(D) \in Nat
  BY <1>1, FS_CardinalityType
<1>3. /\ Cardinality(C \ {t}) \in {Cardinality(C), Cardinality(C) - 1}
      /\ t \notin C => Cardinality(C \cup {t}) = Cardinality(C) + 1
  BY <1>1, FS_RemoveElement, FS_AddElement
<1>4. C \subseteq D => Cardinality(C) <= Cardinality(D)
  BY <1>1, FS_Subset
<1>5. C \ {t} \subseteq D => Cardinality(C \ {t}) <= Cardinality(D)
  BY <1>1, FS_Subset
<1>6. C \cup {t} \subseteq D => Cardinality(C \cup {t}) <= Cardinality(D)
  BY <1>1, FS_Subset
<1> QED BY <1>2, <1>3, <1>4, <1>5, <1>6

\* Nobody has come to wait.
LEMMA NoNewWaiter ==
  ASSUME KInv, NoUart, KInv', NEW w \in WaitList,
         \A t \in Thread : Contains(k'.wait[w], t) => Waits(t, w),
         k.wait[w] = <<>>
  PROVE  k'.wait[w] = <<>>
<1>1. k'.wait[w] \in Seq(Thread)
  BY DEF KInv, KernelOK, Sound, KernelState
<1>2. \A t \in Thread : ~Contains(k'.wait[w], t)
  BY EmptyFacts DEF Waits
<1> QED BY <1>1, <1>2, HeadFacts

\* The call of one thread changes.
LEMMA OneAllocCall ==
  ASSUME NEW t \in Thread, \A u \in Thread : u # t => AllocCall(u)' = AllocCall(u)
  PROVE  [u \in Thread |-> AllocCall(u)]'
           = [[u \in Thread |-> AllocCall(u)] EXCEPT ![t] = AllocCall(t)']
OBVIOUS

\* The call of a thread stays as it is.
LEMMA SameAllocCall ==
  ASSUME NEW t \in Thread, got'[t] = got[t],
         \/ k'.error[t] = k.error[t] /\ pc'[t] = pc[t]
         \/ pc[t] \notin AllocPC /\ pc'[t] \notin AllocPC
  PROVE  AllocCall(t)' = AllocCall(t)
BY DEF AllocCall, Failed, AllocPC, AtTheirTry, Waits

\* No call is noticed to change.
LEMMA SameAllocCalls ==
  ASSUME \A t \in Thread : AllocCall(t)' = AllocCall(t), Used' = Used
  PROVE  AllocGoesOn
BY DEF AllocGoesOn

\* Nobody but t moves, and t comes to the return of its call.
LEMMA FinishFacts ==
  ASSUME PoolKept, LeftOK, NEW t \in Thread, Executes(t), t # Idle,
         pc[t] \in {"run", "alloc_woken", "alloc_retry"}, Finish(t), k' = k,
         isr' = isr, live' = live
  PROVE  /\ KInv' /\ NoUart' /\ Foot(PoolPC) /\ LeftOK'
         /\ before' \in [Thread -> Tick] /\ pc'[t] = "alloc_return"
         /\ \A u \in Thread : u # t => pc'[u] = pc[u]
         /\ Comers \ {t} \subseteq Comers'
         /\ \A u \in Thread : pc'[u] = "alloc_retry" => k'.error[u] = "EOK"
<1>0. KInv /\ NoUart
  BY DEF PoolKept
<1>1. /\ Goto(t, "alloc_return") /\ left' = [left EXCEPT ![t] = 0]
      /\ before' = [before EXCEPT ![t] = 0]
  BY DEF Finish
<1>2. Released(k', k, {}, "EOK")
  <2>1. Released(k, k, {}, "EOK")
    BY <1>0, KInvFacts, NothingReleased
  <2> QED BY <2>1
<1>3. KInv' /\ NoUart' /\ Foot(PoolPC)
  <2>1. /\ pc[t] \in Plain /\ "alloc_return" \in Plain /\ pc[t] \in Points(PoolPC)
        /\ "alloc_return" \in Points(PoolPC)
    BY DEF Plain, Points, ServicesPC, PC, PoolPC, Blocking, Locked
  <2>2. /\ "EOK" \in {"EOK", "ETIMEOUT", "ERROR"} /\ live' \subseteq live
        /\ "alloc_return" # "recv_return"
        /\ \A x \in Thread : x \in {} => x = t \/ pc[x] \in Points(PoolPC)
    OBVIOUS
  <2> QED BY <1>0, <1>1, <1>2, <2>1, <2>2, GoOn
<1>4. pc'[t] = "alloc_return" /\ \A u \in Thread : u # t => pc'[u] = pc[u]
  BY <1>0, <1>1, KInvFacts DEF Goto
<1>5. LeftOK'
  <2>1. 0 \in 0 .. TickHalf - 1
    BY TickHalfFacts DEF TickHalf
  <2> QED BY <1>1, <2>1 DEF LeftOK
<1>6. before' \in [Thread -> Tick]
  <2>1. 0 \in Tick
    BY TickHalfFacts DEF Tick
  <2> QED BY <1>1, <2>1 DEF PoolKept, PoolTypeOK
<1>7. Comers \ {t} \subseteq Comers'
  BY <1>4 DEF Comers, OnItsWay, Waits
<1>8. \A u \in Thread : pc'[u] = "alloc_retry" => k'.error[u] = "EOK"
  BY <1>4 DEF PoolKept
<1> QED BY <1>3, <1>4, <1>5, <1>6, <1>7, <1>8

\* A block is taken.
LEMMA TakeStep ==
  ASSUME PoolKept, LeftOK, NEW t \in Thread, Executes(t), t # Idle,
         pc[t] \in {"run", "alloc_retry"}, Take(t), isr' = isr, live' = live
  PROVE  PoolGoes
<1>0. KInv /\ NoUart /\ PoolTypeOK /\ got \in [Thread -> PoolBlock \cup {RT_NULL}]
  BY DEF PoolKept, PoolTypeOK
<1> DEFINE b == Head(list)
<1>1. /\ count > 0 /\ count' = count - 1 /\ list' = Tail(list)
      /\ got' = [got EXCEPT ![t] = b] /\ Finish(t) /\ k' = k
  BY DEF Take
<1>2. /\ b \in PoolBlock \ Used /\ Used' = Used \cup {b}
      /\ list' \in Seq(PoolBlock) /\ IsInjective(list') /\ count' = Len(list')
      /\ RT_NULL \notin PoolBlock
  BY <1>0, <1>1, BlockTaken, BlockFacts
<1> HIDE DEF b
<1>3. /\ KInv' /\ NoUart' /\ Foot(PoolPC) /\ LeftOK'
      /\ before' \in [Thread -> Tick] /\ pc'[t] = "alloc_return"
      /\ \A u \in Thread : u # t => pc'[u] = pc[u]
      /\ Comers \ {t} \subseteq Comers'
      /\ \A u \in Thread : pc'[u] = "alloc_retry" => k'.error[u] = "EOK"
  BY <1>1, FinishFacts
<1>4. got'[t] = b /\ \A u \in Thread : u # t => got'[u] = got[u]
  BY <1>0, <1>1
<1>5. PoolTypeOK'
  BY <1>0, <1>1, <1>2, <1>3 DEF PoolTypeOK
<1>6. BlocksWakeWaiters'
  <2>1. /\ Comers \in SUBSET Thread /\ Comers' \in SUBSET Thread
        /\ k.wait["pool"] = <<>> \/ count <= Cardinality(Comers)
    BY DEF PoolKept, BlocksWakeWaiters, Comers
  <2>2. /\ Cardinality(Comers) \in Nat
        /\ Cardinality(Comers) - 1 <= Cardinality(Comers')
    BY <1>3, <2>1, CountComers
  <2>3. Cardinality(Comers') \in Nat /\ count \in Nat
    BY <1>0, <2>1, CountComers, BlockFacts
  <2>4. k'.wait["pool"] = <<>> \/ count' <= Cardinality(Comers')
    BY <1>1, <2>1, <2>2, <2>3
  <2> QED BY <2>4 DEF BlocksWakeWaiters, Comers
<1>7. \A u \in Thread : pc'[u] # "alloc_return" => got'[u] = RT_NULL
  BY <1>3, <1>4 DEF PoolKept
<1>8. Pool!Alloc(t)
  <2>1. AllocCall(t) \in {Pool!None, Pool!Waiting}
    BY <1>0 DEF PoolKept, AllocCall, AtTheirTry, Failed, Waits, Pool!None, Pool!Waiting
  <2>2. AllocCall(t)' = Pool!Has(b)
    BY <1>2, <1>3, <1>4 DEF AllocCall, Failed, Waits, Pool!Has
  <2>3. ASSUME NEW u \in Thread, u # t PROVE AllocCall(u)' = AllocCall(u)
    BY <1>1, <1>3, <1>4, <2>3, SameAllocCall
  <2>4. Pool!Become(t, Pool!Has(b))
    BY <2>2, <2>3, OneAllocCall DEF Pool!Become
  <2>5. [u \in Thread |-> AllocCall(u)][t] \in {Pool!None, Pool!Waiting}
    BY <2>1
  <2> QED BY <1>2, <2>4, <2>5 DEF Pool!Alloc
<1> QED BY <1>3, <1>5, <1>6, <1>7, <1>8 DEF PoolGoes, PoolKept, AllocGoesOn, Pool!Next

\* The call ends without a block.
LEMMA EmptyHanded ==
  ASSUME PoolKept, LeftOK, NEW t \in Thread, Executes(t), t # Idle,
         pc[t] \in {"run", "alloc_woken", "alloc_retry"}, Finish(t), k' = k,
         isr' = isr, live' = live, UNCHANGED <<list, count, got>>,
         count = 0 \/ pc[t] = "alloc_woken",
         pc[t] = "alloc_woken" => k.error[t] # "EOK"
  PROVE  PoolGoes
<1>0. KInv /\ NoUart /\ PoolTypeOK /\ got \in [Thread -> PoolBlock \cup {RT_NULL}]
  BY DEF PoolKept, PoolTypeOK
<1>1. /\ KInv' /\ NoUart' /\ Foot(PoolPC) /\ LeftOK'
      /\ before' \in [Thread -> Tick] /\ pc'[t] = "alloc_return"
      /\ \A u \in Thread : u # t => pc'[u] = pc[u]
      /\ Comers \ {t} \subseteq Comers'
      /\ \A u \in Thread : pc'[u] = "alloc_retry" => k'.error[u] = "EOK"
  BY FinishFacts
<1>2. got[t] = RT_NULL
  BY DEF PoolKept
<1>3. PoolTypeOK' /\ Used' = Used
  BY <1>0, <1>1 DEF PoolTypeOK, Used
<1>4. BlocksWakeWaiters'
  <2>1. /\ Comers \in SUBSET Thread /\ Comers' \in SUBSET Thread
        /\ k.wait["pool"] = <<>> \/ count <= Cardinality(Comers)
    BY DEF PoolKept, BlocksWakeWaiters, Comers
  <2>2. count \in Nat /\ Cardinality(Comers') \in Nat /\ Cardinality(Comers) \in Nat
    BY <1>0, <2>1, CountComers, BlockFacts
  <2>3. CASE count = 0
    BY <2>2, <2>3 DEF BlocksWakeWaiters, Comers
  <2>4. CASE pc[t] = "alloc_woken"
    <3>1. t \notin Comers
      BY <2>4 DEF Comers, OnItsWay
    <3>2. Comers \subseteq Comers'
      BY <1>1, <3>1
    <3>3. Cardinality(Comers) <= Cardinality(Comers')
      BY <2>1, <3>2, CountComers
    <3>4. k'.wait["pool"] = <<>> \/ count' <= Cardinality(Comers')
      BY <2>1, <2>2, <3>3
    <3> QED BY <3>4 DEF BlocksWakeWaiters, Comers
  <2> QED BY <2>3, <2>4
<1>5. \A u \in Thread : pc'[u] # "alloc_return" => got'[u] = RT_NULL
  BY <1>1 DEF PoolKept
<1>6. AllocGoesOn
  <2>1. AllocCall(t)' = Pool!Refused
    BY <1>1, <1>2 DEF AllocCall, Failed, Waits, Pool!Refused
  <2>2. ASSUME NEW u \in Thread, u # t PROVE AllocCall(u)' = AllocCall(u)
    BY <1>1, <2>2, SameAllocCall
  <2>3. \/ AllocCall(t) = Pool!Waiting
        \/ AllocCall(t) = Pool!Refused
        \/ AllocCall(t) = Pool!None /\ count = 0
    BY DEF AllocCall, AtTheirTry, Failed, Waits, Pool!None, Pool!Waiting, Pool!Refused
  <2>4. CASE AllocCall(t) = Pool!Refused
    BY <1>3, <2>1, <2>2, <2>4, SameAllocCalls
  <2>5. CASE AllocCall(t) = Pool!Waiting \/ (AllocCall(t) = Pool!None /\ count = 0)
    <3>1. Pool!Become(t, Pool!Refused)
      BY <2>1, <2>2, OneAllocCall DEF Pool!Become
    <3>2. LET call == [u \in Thread |-> AllocCall(u)]
          IN  call[t] = Pool!Waiting \/ (call[t] = Pool!None /\ Used = PoolBlock)
      BY <1>0, <2>5, BlockFacts
    <3>3. Pool!Refuse(t)
      BY <1>3, <3>1, <3>2 DEF Pool!Refuse
    <3> QED BY <3>3 DEF AllocGoesOn, Pool!Next
  <2> QED BY <2>3, <2>4, <2>5
<1> QED BY <1>1, <1>3, <1>4, <1>5, <1>6 DEF PoolGoes, PoolKept

\* The thread waits, at the front of the list.
LEMMA AwaitBlockStep ==
  ASSUME PoolKept, LeftOK, NEW t \in Thread, Executes(t), t # Idle,
         pc[t] \in {"run", "alloc_retry"},
         NEW time \in {Forever} \cup 0 .. TickHalf - 1, AwaitBlock(t, time),
         isr' = isr, live' = live
  PROVE  PoolGoes
<1>0. /\ KInv /\ NoUart /\ PoolTypeOK /\ got \in [Thread -> PoolBlock \cup {RT_NULL}]
      /\ before \in [Thread -> Tick] /\ "pool" \in WaitList
  BY ServicesAssumption DEF PoolKept, PoolTypeOK
<1>1. /\ count = 0 /\ k' = AwaitFirst(k, "pool", t, time)
      /\ left' = [left EXCEPT ![t] = time]
      /\ before' = [before EXCEPT ![t] = IF time > 0 THEN k.tick ELSE 0]
      /\ Goto(t, "alloc_sched") /\ list' = list /\ count' = count /\ got' = got
  BY DEF AwaitBlock
<1>2. /\ pc[t] \in Plain /\ pc[t] \in Points(PoolPC) /\ pc[t] \notin Blocking
      /\ "alloc_sched" \in Blocking /\ "alloc_sched" \in Places("pool")
      /\ "alloc_sched" \in Points(PoolPC) /\ live' \subseteq live
  BY DEF Plain, Points, ServicesPC, PC, PoolPC, Blocking, Locked, Places
<1>3. Blocked(k', k, "pool", t, Untold("pool"))
  <2>1. k.stat[t] \in {"READY", "RUNNING"} /\ Sound(k, {})
    BY <1>0, <1>2, ExecutingRuns, KInvFacts
  <2>2. time \in Int
    BY TickHalfFacts DEF Forever
  <2>3. Blocked(AwaitFirst(k, "pool", t, time), k, "pool", t, "EOK")
    BY <1>0, <2>1, <2>2, AwaitSound
  <2> QED BY <1>1, <2>3 DEF Untold
<1>4. KInv' /\ NoUart' /\ Foot(PoolPC)
  BY <1>0, <1>1, <1>2, <1>3, BlockOn
<1>5. pc'[t] = "alloc_sched" /\ \A u \in Thread : u # t => pc'[u] = pc[u]
  BY <1>0, <1>1, KInvFacts DEF Goto
<1>6. \A u \in Thread : k'.error[u] = IF u = t THEN "EOK" ELSE k.error[u]
  BY <1>3 DEF Blocked, Told, Untold
<1>7. LeftOK'
  BY <1>1 DEF LeftOK
<1>8. PoolTypeOK' /\ Used' = Used
  <2>1. (IF time > 0 THEN k.tick ELSE 0) \in Tick
    <3>1. 0 \in Tick /\ k.tick \in Tick
      BY <1>0, TickHalfFacts, KInvFacts DEF Tick, KernelState
    <3> QED BY <3>1
  <2> QED BY <1>0, <1>1, <2>1 DEF PoolTypeOK, Used
<1>9. BlocksWakeWaiters'
  <2>1. Comers' \in SUBSET Thread
    BY DEF Comers
  <2>2. Cardinality(Comers') \in Nat
    BY <1>0, <2>1, CountComers
  <2> QED BY <1>1, <2>2 DEF BlocksWakeWaiters, Comers
<1>10. /\ \A u \in Thread : pc'[u] # "alloc_return" => got'[u] = RT_NULL
       /\ \A u \in Thread : pc'[u] = "alloc_retry" => k'.error[u] = "EOK"
  BY <1>1, <1>2, <1>5, <1>6 DEF PoolKept
<1>11. AllocGoesOn
  <2>1. AllocCall(t)' = Pool!Waiting
    BY <1>5, <1>6 DEF AllocCall, Failed, AtTheirTry, Waits, Pool!Waiting
  <2>2. ASSUME NEW u \in Thread, u # t PROVE AllocCall(u)' = AllocCall(u)
    BY <1>1, <1>5, <1>6, <2>2, SameAllocCall
  <2>3. CASE pc[t] = "run"
    <3>1. AllocCall(t) = Pool!None
      BY <2>3 DEF AllocCall, AtTheirTry, Failed, Waits, Pool!None
    <3>2. Pool!Become(t, Pool!Waiting)
      BY <2>1, <2>2, OneAllocCall DEF Pool!Become
    <3>3. [u \in Thread |-> AllocCall(u)][t] = Pool!None /\ Used = PoolBlock
      BY <1>0, <1>1, <3>1, BlockFacts
    <3>4. Pool!Wait(t)
      BY <1>8, <3>2, <3>3 DEF Pool!Wait
    <3> QED BY <3>4 DEF AllocGoesOn, Pool!Next
  <2>4. CASE pc[t] = "alloc_retry"
    <3>1. k.error[t] = "EOK"
      BY <2>4 DEF PoolKept
    <3>2. AllocCall(t) = Pool!Waiting
      BY <2>4, <3>1 DEF AllocCall, AtTheirTry, Failed, Waits, Pool!Waiting
    <3> QED BY <1>8, <2>1, <2>2, <3>2, SameAllocCalls
  <2> QED BY <2>3, <2>4
<1> QED BY <1>4, <1>7, <1>8, <1>9, <1>10, <1>11 DEF PoolGoes, PoolKept

\* The first try, with a timeout of its own.
LEMMA AllocStep ==
  ASSUME PoolKept, LeftOK, NEW t \in Thread, Alloc(t)
  PROVE  PoolGoes
<1>0. KInv /\ NoUart
  BY DEF PoolKept
<1>1. PICK time \in Retried[t] : Try(t, time)
  BY DEF Alloc
<1>2. /\ Executes(t) /\ t # Idle /\ pc[t] = "run" /\ isr' = isr /\ live' = live
      /\ pc[t] # "alloc_woken"
  BY DEF Alloc, Calls, At
<1>3. time \in {Forever} \cup 0 .. TickHalf - 1
  <2>1. time \in {Forever, NoWait} \cup 1 .. TickHalf - 1
    BY WaitingAssumption
  <2>2. 0 \in 0 .. TickHalf - 1 /\ TickHalf \in Nat
    BY TickHalfFacts DEF TickHalf
  <2> QED BY <2>1, <2>2 DEF NoWait
<1>4. CASE Take(t)
  BY <1>2, <1>4, TakeStep
<1>5. CASE NoneLeft(t, time)
  BY <1>2, <1>5, EmptyHanded DEF NoneLeft
<1>6. CASE AwaitBlock(t, time)
  BY <1>2, <1>3, <1>6, AwaitBlockStep
<1> QED BY <1>1, <1>4, <1>5, <1>6 DEF Try

\* Another one, with the time that is left.
LEMMA AllocRetryStep ==
  ASSUME PoolKept, LeftOK, NEW t \in Thread, AllocRetry(t)
  PROVE  PoolGoes
<1>0. KInv /\ NoUart
  BY DEF PoolKept
<1>1. Try(t, left[t])
  BY DEF AllocRetry
<1>2. /\ Executes(t) /\ pc[t] = "alloc_retry" /\ isr' = isr /\ live' = live
      /\ pc[t] # "alloc_woken" /\ pc[t] # "run"
  BY DEF AllocRetry, At
<1>3. left[t] \in {Forever} \cup 0 .. TickHalf - 1 /\ t # Idle
  BY <1>0, <1>2 DEF LeftOK, KInv, ControlOK
<1>4. CASE Take(t)
  BY <1>2, <1>3, <1>4, TakeStep
<1>5. CASE NoneLeft(t, left[t])
  BY <1>2, <1>3, <1>5, EmptyHanded DEF NoneLeft
<1>6. CASE AwaitBlock(t, left[t])
  BY <1>2, <1>3, <1>6, AwaitBlockStep
<1> QED BY <1>1, <1>4, <1>5, <1>6 DEF Try

\* rt_schedule after the thread has blocked itself.
LEMMA AllocScheduleStep ==
  ASSUME PoolKept, LeftOK, NEW t \in Thread, AllocSchedule(t)
  PROVE  PoolGoes
<1>0. KInv /\ NoUart /\ PoolTypeOK /\ "pool" \in WaitList
  BY ServicesAssumption DEF PoolKept
<1>1. /\ At(t, "alloc_sched") /\ k' = Schedule(k) /\ Goto(t, "alloc_woken")
      /\ isr' = isr /\ live' = live /\ left' = left /\ UNCHANGED pvars
  BY DEF AllocSchedule, ScheduleIn, wvars
<1>2. KInv' /\ NoUart' /\ Foot(PoolPC) /\ Released(k', k, {}, "EOK")
  <2>1. /\ "alloc_sched" \in Blocking \ {"sleep_mark"}
        /\ "alloc_woken" = AfterBlock("alloc_sched")
        /\ "alloc_sched" \in PoolPC /\ "alloc_woken" \in PoolPC
    BY DEF Blocking, AfterBlock, PoolPC
  <2> QED BY <1>0, <1>1, <2>1, GiveUp
<1>3. /\ pc[t] = "alloc_sched" /\ pc'[t] = "alloc_woken"
      /\ \A u \in Thread : u # t => pc'[u] = pc[u]
  BY <1>0, <1>1, KInvFacts DEF Goto, At
<1>4. \A u \in Thread : /\ k'.error[u] = k.error[u]
                        /\ Contains(k'.wait["pool"], u) <=> Waits(u, "pool")
  BY <1>0, <1>2 DEF Released, Waits
<1>5. PoolTypeOK' /\ Used' = Used /\ LeftOK'
  BY <1>0, <1>1 DEF PoolTypeOK, pvars, Used, LeftOK
<1>6. BlocksWakeWaiters'
  <2>1. Comers' = Comers
    BY <1>3, <1>4 DEF Comers, OnItsWay, AtTheirTry, Waits
  <2>2. k.wait["pool"] = <<>> => k'.wait["pool"] = <<>>
    BY <1>0, <1>2, <1>4, NoNewWaiter
  <2> QED BY <1>1, <2>1, <2>2 DEF PoolKept, BlocksWakeWaiters, Comers, pvars
<1>7. /\ \A u \in Thread : pc'[u] # "alloc_return" => got'[u] = RT_NULL
      /\ \A u \in Thread : pc'[u] = "alloc_retry" => k'.error[u] = "EOK"
  BY <1>1, <1>3, <1>4 DEF PoolKept, pvars
<1>8. ASSUME NEW u \in Thread PROVE AllocCall(u)' = AllocCall(u)
  <2>1. CASE u # t
    BY <1>1, <1>3, <1>4, <2>1, SameAllocCall DEF pvars
  <2>2. CASE u = t
    BY <1>1, <1>3, <1>4, <2>2 DEF AllocCall, AtTheirTry, Failed, Waits, pvars
  <2> QED BY <2>1, <2>2
<1> QED BY <1>2, <1>5, <1>6, <1>7, <1>8, SameAllocCalls DEF PoolGoes, PoolKept

\* What is left after a wait is less than what was left before it.
LEMMA TimeLeftTyped ==
  ASSUME PoolKept, LeftOK, NEW t \in Thread
  PROVE  TimeLeft(t) \in {Forever} \cup 0 .. TickHalf - 1
<1> DEFINE gone == TicksFrom(before[t], k.tick)
<1>1. gone \in Nat
  <2>1. /\ before[t] \in 0 .. TickMod - 1 /\ k.tick \in 0 .. TickMod - 1
        /\ TickMod \in Nat /\ TickMod > 2
    BY KInvFacts, TickHalfFacts DEF PoolKept, PoolTypeOK, Tick, KernelState
  <2> QED BY <2>1 DEF TicksFrom
<1> HIDE DEF gone
<1>2. left[t] \in {Forever} \cup 0 .. TickHalf - 1 /\ TickHalf \in Nat
  BY TickHalfFacts DEF LeftOK
<1>3. TimeLeft(t) = IF left[t] > 0
                    THEN (IF left[t] - gone < 0 THEN 0 ELSE left[t] - gone)
                    ELSE left[t]
  BY DEF TimeLeft, gone
<1>4. CASE left[t] > 0
  <2>1. left[t] \in 1 .. TickHalf - 1
    BY <1>2, <1>4 DEF Forever
  <2>2. CASE left[t] - gone < 0
    <3>1. TimeLeft(t) = 0
      BY <1>3, <1>4, <2>2
    <3>2. 0 \in 0 .. TickHalf - 1
      BY <1>2, <2>1
    <3> QED BY <3>1, <3>2
  <2>3. CASE ~(left[t] - gone < 0)
    BY <1>1, <1>2, <1>3, <1>4, <2>1, <2>3
  <2> QED BY <2>2, <2>3
<1>5. CASE ~(left[t] > 0)
  BY <1>2, <1>3, <1>5
<1> QED BY <1>4, <1>5

\* The thread runs again: it has failed, or tries once more.
LEMMA AllocWokenStep ==
  ASSUME PoolKept, LeftOK, NEW t \in Thread, AllocWoken(t)
  PROVE  PoolGoes
<1>0. KInv /\ NoUart /\ PoolTypeOK
  BY DEF PoolKept
<1>1. /\ Executes(t) /\ pc[t] = "alloc_woken" /\ k' = k /\ isr' = isr
      /\ live' = live /\ UNCHANGED <<list, count, got>>
  BY DEF AllocWoken, At
<1>2. t # Idle
  BY <1>0, <1>1 DEF KInv, ControlOK
<1>3. CASE k.error[t] # "EOK"
  <2>1. Finish(t)
    BY <1>3 DEF AllocWoken
  <2> QED BY <1>1, <1>2, <1>3, <2>1, EmptyHanded
<1>4. CASE k.error[t] = "EOK"
  <2>1. /\ left' = [left EXCEPT ![t] = TimeLeft(t)] /\ Goto(t, "alloc_retry")
        /\ before' = before
    BY <1>4 DEF AllocWoken
  <2>2. KInv' /\ NoUart' /\ Foot(PoolPC)
    <3>1. /\ pc[t] \in Plain /\ "alloc_retry" \in Plain
          /\ pc[t] \in Points(PoolPC) /\ "alloc_retry" \in Points(PoolPC)
      BY <1>1 DEF Plain, Points, ServicesPC, PC, PoolPC, Blocking, Locked
    <3>2. /\ "EOK" \in {"EOK", "ETIMEOUT", "ERROR"} /\ live' \subseteq live
          /\ "alloc_retry" # "recv_return"
          /\ \A x \in Thread : x \in {} => x = t \/ pc[x] \in Points(PoolPC)
      BY <1>1
    <3>3. Released(k, k, {}, "EOK")
      BY <1>0, KInvFacts, NothingReleased
    <3>4. Released(k', k, {}, "EOK")
      BY <1>1, <3>3
    <3> QED BY <1>0, <1>1, <1>2, <2>1, <3>1, <3>2, <3>4, GoOn
  <2>3. pc'[t] = "alloc_retry" /\ \A u \in Thread : u # t => pc'[u] = pc[u]
    BY <1>0, <2>1, KInvFacts DEF Goto
  <2>4. LeftOK'
    BY <2>1, TimeLeftTyped DEF LeftOK
  <2>5. PoolTypeOK' /\ Used' = Used
    BY <1>0, <1>1, <2>1 DEF PoolTypeOK, Used
  <2>6. BlocksWakeWaiters'
    <3>1. Comers' = Comers
      BY <1>1, <2>3 DEF Comers, OnItsWay, AtTheirTry, Waits
    <3> QED BY <1>1, <3>1 DEF PoolKept, BlocksWakeWaiters, Comers
  <2>7. /\ \A u \in Thread : pc'[u] # "alloc_return" => got'[u] = RT_NULL
        /\ \A u \in Thread : pc'[u] = "alloc_retry" => k'.error[u] = "EOK"
    BY <1>1, <1>4, <2>3 DEF PoolKept
  <2>8. ASSUME NEW u \in Thread PROVE AllocCall(u)' = AllocCall(u)
    <3>1. CASE u # t
      BY <1>1, <2>3, <3>1, SameAllocCall
    <3>2. CASE u = t
      BY <1>1, <2>3, <3>2 DEF AllocCall, AtTheirTry, Failed, Waits
    <3> QED BY <3>1, <3>2
  <2> QED BY <2>2, <2>4, <2>5, <2>6, <2>7, <2>8, SameAllocCalls DEF PoolGoes, PoolKept
<1> QED BY <1>3, <1>4

\* rt_mp_alloc returns.
LEMMA AllocReturnStep ==
  ASSUME PoolKept, LeftOK, NEW t \in Thread, AllocReturn(t)
  PROVE  PoolGoes
<1>0. /\ KInv /\ NoUart /\ PoolTypeOK /\ got \in [Thread -> PoolBlock \cup {RT_NULL}]
      /\ "pool" \in WaitList
  BY ServicesAssumption DEF PoolKept, PoolTypeOK
<1>1. /\ Executes(t) /\ pc[t] = "alloc_return" /\ Back(t) /\ isr' = isr
      /\ live' = live /\ left' = left /\ UNCHANGED <<list, count, before>>
      /\ got' = [got EXCEPT ![t] = RT_NULL]
  BY DEF AllocReturn, At, wvars
<1>2. pc[t] # "run" /\ pc[t] \in Plain /\ pc[t] \in PoolPC
  BY <1>1 DEF Plain, PoolPC, ServicesPC, Blocking, Locked
<1>3. /\ KInv' /\ NoUart' /\ Foot(PoolPC)
      /\ Released(k', k, {t}, "EOK") /\ Goto(t, "run")
  BY <1>0, <1>1, <1>2, BackOn
<1>4. pc'[t] = "run" /\ \A u \in Thread : u # t => pc'[u] = pc[u]
  BY <1>0, <1>3, KInvFacts DEF Goto
<1>5. /\ \A u \in Thread : u # t => k'.error[u] = k.error[u]
      /\ \A u \in Thread : Contains(k'.wait["pool"], u) => Waits(u, "pool")
  BY <1>0, <1>3 DEF Released, Waits
<1>6. PoolTypeOK' /\ Used' = Used /\ LeftOK'
  BY <1>0, <1>1 DEF PoolTypeOK, Used, LeftOK
<1>7. BlocksWakeWaiters'
  <2>1. Comers \subseteq Comers'
    BY <1>1, <1>4, <1>5 DEF Comers, OnItsWay, AtTheirTry, Waits
  <2>2. Comers \in SUBSET Thread /\ Comers' \in SUBSET Thread
    BY DEF Comers
  <2>3. /\ Cardinality(Comers) <= Cardinality(Comers')
        /\ Cardinality(Comers) \in Nat /\ Cardinality(Comers') \in Nat /\ count \in Nat
    BY <1>0, <2>1, <2>2, CountComers, BlockFacts
  <2>4. k.wait["pool"] = <<>> => k'.wait["pool"] = <<>>
    BY <1>0, <1>3, <1>5, NoNewWaiter
  <2>5. k.wait["pool"] = <<>> \/ count <= Cardinality(Comers)
    BY DEF PoolKept, BlocksWakeWaiters, Comers
  <2>6. k'.wait["pool"] = <<>> \/ count' <= Cardinality(Comers')
    BY <1>1, <2>3, <2>4, <2>5
  <2> QED BY <2>6 DEF BlocksWakeWaiters, Comers
<1>8. /\ \A u \in Thread : pc'[u] # "alloc_return" => got'[u] = RT_NULL
      /\ \A u \in Thread : pc'[u] = "alloc_retry" => k'.error[u] = "EOK"
  BY <1>0, <1>1, <1>4, <1>5 DEF PoolKept
<1>9. Pool!Return(t)
  <2>1. AllocCall(t)' = Pool!None
    BY <1>4 DEF AllocCall, AtTheirTry, Failed, Waits, Pool!None
  <2>2. ASSUME NEW u \in Thread, u # t PROVE AllocCall(u)' = AllocCall(u)
    BY <1>0, <1>1, <1>4, <1>5, <2>2, SameAllocCall
  <2>3. Pool!Become(t, Pool!None)
    BY <2>1, <2>2, OneAllocCall DEF Pool!Become
  <2>4. [u \in Thread |-> AllocCall(u)][t].at \in {"granted", "refused"}
    BY <1>1 DEF AllocCall, Failed, Waits
  <2> QED BY <1>6, <2>3, <2>4 DEF Pool!Return
<1> QED BY <1>3, <1>6, <1>7, <1>8, <1>9 DEF PoolGoes, PoolKept, AllocGoesOn, Pool!Next

\* A handler takes a block.
LEMMA IsrAllocStep ==
  ASSUME PoolKept, LeftOK, IsrAlloc
  PROVE  PoolGoes
<1>0. KInv /\ NoUart /\ PoolTypeOK
  BY DEF PoolKept
<1>1. /\ count > 0 /\ count' = count - 1 /\ list' = Tail(list) /\ k' = k
      /\ isr' = isr /\ pc' = pc /\ live' = live /\ left' = left
      /\ got' = got /\ before' = before
  BY DEF IsrAlloc, wvars
<1>2. /\ Head(list) \in PoolBlock \ Used /\ Used' = Used \cup {Head(list)}
      /\ list' \in Seq(PoolBlock) /\ IsInjective(list') /\ count' = Len(list')
      /\ count \in Nat
  BY <1>0, <1>1, BlockTaken, BlockFacts
<1>3. KInv' /\ NoUart' /\ Foot(PoolPC)
  <2>1. Released(k, k, {}, "EOK")
    BY <1>0, KInvFacts, NothingReleased
  <2>2. Released(k', k, {}, "EOK") /\ "EOK" \in {"EOK", "ETIMEOUT", "ERROR"}
    BY <1>1, <2>1
  <2>3. \A x \in Thread : x \in {} => pc[x] \in Points(PoolPC)
    OBVIOUS
  <2> QED BY <1>0, <1>1, <2>2, <2>3, Handle
<1>4. PoolTypeOK' /\ LeftOK'
  BY <1>0, <1>1, <1>2 DEF PoolTypeOK, LeftOK
<1>5. BlocksWakeWaiters'
  <2>1. Comers' = Comers /\ Comers \in SUBSET Thread /\ Idle \in Thread
    BY <1>1, KernelAssumption DEF Comers, OnItsWay, Waits
  <2>2. Cardinality(Comers) \in Nat
    BY <2>1, CountComers
  <2>3. k.wait["pool"] = <<>> \/ count <= Cardinality(Comers)
    BY DEF PoolKept, BlocksWakeWaiters, Comers
  <2>4. k'.wait["pool"] = <<>> \/ count' <= Cardinality(Comers')
    BY <1>1, <1>2, <2>1, <2>2, <2>3
  <2> QED BY <2>4 DEF BlocksWakeWaiters, Comers
<1>6. /\ \A u \in Thread : pc'[u] # "alloc_return" => got'[u] = RT_NULL
      /\ \A u \in Thread : pc'[u] = "alloc_retry" => k'.error[u] = "EOK"
  BY <1>1 DEF PoolKept
<1>7. \A u \in Thread : AllocCall(u)' = AllocCall(u)
  BY <1>1, SameAllocCall
<1>8. Pool!IsrAlloc
  BY <1>2, <1>7 DEF Pool!IsrAlloc
<1> QED BY <1>3, <1>4, <1>5, <1>6, <1>8 DEF PoolGoes, PoolKept, AllocGoesOn, Pool!Next

\* The first waiter's error is EOK before rt_mp_free says so.
LEMMA WakeForBlockIs ==
  ASSUME KInv, NoUart
  PROVE  WakeForBlock(k) = ResumeFirst(k, "pool")
<1>0. k \in KernelState /\ k.wait["pool"] \in Seq(Thread) /\ "pool" \in WaitList
  BY KInvFacts, ServicesAssumption DEF KernelState
<1>1. CASE k.wait["pool"] = <<>>
  BY <1>1 DEF WakeForBlock, ResumeFirst
<1>2. CASE k.wait["pool"] # <<>>
  <2> DEFINE x == Head(k.wait["pool"])
  <2>1. x \in Thread /\ Waits(x, "pool")
    BY <1>0, <1>2, HeadFacts DEF Waits
  <2>2. k.error[x] = "EOK"
    BY <1>0, <2>1, WaiterPoints DEF Untold
  <2> HIDE DEF x
  <2>3. [k.error EXCEPT ![x] = "EOK"] = k.error
    BY <1>0, <2>1, <2>2 DEF KernelState
  <2>4. [k EXCEPT !.error[x] = "EOK"] = [k EXCEPT !.error = k.error]
    BY <2>3
  <2>5. [k EXCEPT !.error = k.error] = k
    BY <1>0 DEF KernelState
  <2> QED BY <1>2, <2>4, <2>5 DEF WakeForBlock, x
<1> QED BY <1>1, <1>2

\* A block comes back, and the first waiter, if there is one, is woken for it.
LEMMA BlockComesBack ==
  ASSUME PoolKept, LeftOK, PutBack, KInv', NoUart', Foot(PoolPC), left' = left,
         NEW X \in SUBSET Thread, Released(k', k, X, "EOK"),
         \A u \in Thread : \/ pc'[u] = pc[u]
                           \/ pc[u] \notin AllocPC /\ pc'[u] \notin AllocPC,
         \A x \in X : Waits(x, "pool"), k.wait["pool"] # <<>> => X # {}
  PROVE  PoolGoes
<1>0. KInv /\ NoUart /\ PoolTypeOK /\ "pool" \in WaitList
  BY ServicesAssumption DEF PoolKept
<1>1. /\ \E b \in Used : Used' = Used \ {b}
      /\ list' \in Seq(PoolBlock) /\ IsInjective(list') /\ count' = Len(list')
      /\ count' = count + 1 /\ got' = got /\ before' = before /\ count \in Nat
  BY <1>0, BlockFreed, BlockFacts
<1>2. \A u \in Thread :
        /\ k'.error[u] = IF u \in X THEN "EOK" ELSE k.error[u]
        /\ Contains(k'.wait["pool"], u) <=> Waits(u, "pool") /\ u \notin X
  BY <1>0 DEF Released, Waits
<1>3. \A x \in X : pc[x] \in {"alloc_sched", "alloc_woken"} /\ k.error[x] = "EOK"
  BY <1>0, WaiterPoints DEF Places, Untold
<1>4. \A u \in Thread : k'.error[u] = k.error[u]
  BY <1>2, <1>3
<1>5. PoolTypeOK' /\ LeftOK'
  BY <1>0, <1>1 DEF PoolTypeOK, LeftOK
<1>6. BlocksWakeWaiters'
  <2>1. /\ Comers \in SUBSET Thread /\ Comers' \in SUBSET Thread
        /\ k.wait["pool"] = <<>> \/ count <= Cardinality(Comers)
    BY DEF PoolKept, BlocksWakeWaiters, Comers
  <2>2. CASE k.wait["pool"] = <<>>
    <3>1. k'.wait["pool"] = <<>>
      BY <1>0, <1>2, <2>2, NoNewWaiter
    <3> QED BY <3>1 DEF BlocksWakeWaiters
  <2>3. CASE k.wait["pool"] # <<>>
    <3>1. PICK x \in X : TRUE
      BY <2>3
    <3>2. x \in Thread /\ x \notin Comers
      BY <3>1 DEF Comers, OnItsWay
    <3>3. Comers \cup {x} \subseteq Comers'
      <4>1. x \in Comers'
        BY <1>2, <1>3, <3>1, <3>2 DEF Comers, OnItsWay, AtTheirTry, AllocPC, Waits
      <4>2. ASSUME NEW u \in Comers PROVE u \in Comers'
        <5>1. u \in Thread /\ pc[u] \in AtTheirTry /\ ~Waits(u, "pool") /\ k.error[u] = "EOK"
          BY <4>2 DEF Comers, OnItsWay
        <5>2. pc'[u] = pc[u] /\ k'.error[u] = "EOK" /\ ~Contains(k'.wait["pool"], u)
          BY <1>2, <1>4, <5>1 DEF AtTheirTry, AllocPC
        <5> QED BY <5>1, <5>2 DEF Comers, OnItsWay, Waits
      <4> QED BY <4>1, <4>2
    <3>4. /\ Cardinality(Comers) + 1 <= Cardinality(Comers')
          /\ Cardinality(Comers) \in Nat /\ Cardinality(Comers') \in Nat
      BY <2>1, <3>2, <3>3, CountComers
    <3>5. count' <= Cardinality(Comers')
      BY <1>1, <2>1, <2>3, <3>4
    <3> QED BY <3>5 DEF BlocksWakeWaiters, Comers
  <2> QED BY <2>2, <2>3
<1>7. /\ \A u \in Thread : pc'[u] # "alloc_return" => got'[u] = RT_NULL
      /\ \A u \in Thread : pc'[u] = "alloc_retry" => k'.error[u] = "EOK"
  BY <1>1, <1>4 DEF PoolKept, AllocPC
<1>8. \A u \in Thread : AllocCall(u)' = AllocCall(u)
  BY <1>1, <1>4, SameAllocCall
<1>9. Pool!Free
  BY <1>1, <1>8 DEF Pool!Free
<1> QED BY <1>5, <1>6, <1>7, <1>9 DEF PoolGoes, PoolKept, AllocGoesOn, Pool!Next

\* A thread gives a block back.
LEMMA FreeStep ==
  ASSUME PoolKept, LeftOK, NEW t \in Thread, Free(t)
  PROVE  PoolGoes
<1>0. KInv /\ NoUart /\ "pool" \in WaitList
  BY ServicesAssumption DEF PoolKept
<1> DEFINE r == ResumeFirst(k, "pool")
           X == IF k.wait["pool"] = <<>> THEN {} ELSE {Head(k.wait["pool"])}
           c == IF k.wait["pool"] = <<>> THEN "run" ELSE "sched"
<1>1. /\ Calls(t, "pool") /\ PutBack /\ k' = r /\ Goto(t, c)
      /\ isr' = isr /\ live' = live /\ left' = left
  BY <1>0, WakeForBlockIs DEF Free, wvars
<1>2. /\ Released(r, k, X, "EOK") /\ r.cur = k.cur
      /\ r = k <=> k.wait["pool"] = <<>>
      /\ \A x \in X : x \in Thread /\ Waits(x, "pool")
  <2>1. "pool" # "event"
    OBVIOUS
  <2> QED BY <1>0, <2>1, ResumeFirstReleased
<1>3. k.wait["pool"] # <<>> => X # {}
  OBVIOUS
<1>4. c \in {"run", "sched"}
  OBVIOUS
<1> HIDE DEF r, X, c
<1>5. /\ Executes(t) /\ t # Idle /\ pc[t] = "run" /\ pc[t] \in Plain
      /\ "run" \in Plain /\ "sched" \in Plain /\ "run" \in Points(PoolPC)
      /\ "sched" \in Points(PoolPC) /\ pc[t] \in Points(PoolPC)
  BY <1>0, <1>1, CallerFacts
<1>6. Released(k', k, X, "EOK")
  BY <1>1, <1>2
<1>7. KInv' /\ NoUart' /\ Foot(PoolPC)
  <2>1. \A x \in Thread : x \in X => x = t \/ pc[x] \in Points(PoolPC)
    BY <1>0, <1>2, WaiterPoints DEF Places, Points, PoolPC
  <2>2. /\ c \in Plain /\ c \in Points(PoolPC) /\ c # "recv_return"
        /\ "EOK" \in {"EOK", "ETIMEOUT", "ERROR"} /\ live' \subseteq live
    BY <1>1, <1>4, <1>5
  <2> QED BY <1>0, <1>1, <1>5, <1>6, <2>1, <2>2, GoOn
<1>8. \A u \in Thread : \/ pc'[u] = pc[u]
                        \/ pc[u] \notin AllocPC /\ pc'[u] \notin AllocPC
  <2>1. pc'[t] = c /\ \A u \in Thread : u # t => pc'[u] = pc[u]
    BY <1>0, <1>1, KInvFacts DEF Goto
  <2> QED BY <1>4, <1>5, <2>1 DEF AllocPC
<1>9. X \in SUBSET Thread /\ \A x \in X : Waits(x, "pool")
  BY <1>2
<1> QED BY <1>1, <1>3, <1>6, <1>7, <1>8, <1>9, BlockComesBack

\* So does a handler.
LEMMA IsrFreeStep ==
  ASSUME PoolKept, LeftOK, IsrFree
  PROVE  PoolGoes
<1>0. KInv /\ NoUart /\ "pool" \in WaitList
  BY ServicesAssumption DEF PoolKept
<1> DEFINE r == ResumeFirst(k, "pool")
           X == IF k.wait["pool"] = <<>> THEN {} ELSE {Head(k.wait["pool"])}
<1>1. /\ PutBack /\ k' = IF k.wait["pool"] = <<>> THEN k ELSE Schedule(r)
      /\ isr' = isr /\ pc' = pc /\ live' = live /\ left' = left
  BY <1>0, WakeForBlockIs DEF IsrFree, wvars
<1>2. /\ Released(r, k, X, "EOK") /\ r.cur = k.cur
      /\ r = k <=> k.wait["pool"] = <<>>
      /\ \A x \in X : x \in Thread /\ Waits(x, "pool")
  <2>1. "pool" # "event"
    OBVIOUS
  <2> QED BY <1>0, <2>1, ResumeFirstReleased
<1>3. k.wait["pool"] # <<>> => X # {}
  OBVIOUS
<1> HIDE DEF r, X
<1>4. Released(k', k, X, "EOK")
  <2>1. Released(Schedule(r), k, X, "EOK")
    BY <1>0, <1>2, ThenSchedules
  <2> QED BY <1>1, <1>2, <2>1
<1>5. KInv' /\ NoUart' /\ Foot(PoolPC)
  <2>1. \A x \in Thread : x \in X => pc[x] \in Points(PoolPC)
    BY <1>0, <1>2, WaiterPoints DEF Places, Points, PoolPC
  <2>2. "EOK" \in {"EOK", "ETIMEOUT", "ERROR"}
    OBVIOUS
  <2> QED BY <1>0, <1>1, <1>4, <2>1, <2>2, Handle
<1>6. X \in SUBSET Thread /\ \A x \in X : Waits(x, "pool")
  BY <1>2
<1>7. \A u \in Thread : pc'[u] = pc[u] \/ (pc[u] \notin AllocPC /\ pc'[u] \notin AllocPC)
  BY <1>1
<1> QED BY <1>1, <1>3, <1>4, <1>5, <1>6, <1>7, BlockComesBack

\* The pool does not see a thread: it stays where it is in rt_mp_alloc, or is
\* not in it.
AllocStill(u) ==
  \/ /\ k'.error[u] = k.error[u] /\ pc'[u] = pc[u]
     /\ Contains(k'.wait["pool"], u) <=> Contains(k.wait["pool"], u)
  \/ pc[u] \notin AllocPC /\ pc'[u] \notin AllocPC

\* Those who come still come, and nobody new waits.
LEMMA ComersStill ==
  ASSUME PoolKept, KInv', NoUart', UNCHANGED pvars, NEW X \in SUBSET Thread,
         \A u \in Thread : u \notin X => AllocStill(u),
         \A x \in X : /\ Waits(x, "pool") /\ ~Contains(k'.wait["pool"], x)
                      /\ pc'[x] = pc[x]
  PROVE  PoolKept'
<1>0. KInv /\ NoUart /\ PoolTypeOK /\ "pool" \in WaitList
  BY ServicesAssumption DEF PoolKept
<1>1. list' = list /\ count' = count /\ got' = got /\ before' = before
  BY DEF pvars
<1>2. \A u \in Thread : Contains(k'.wait["pool"], u) => Waits(u, "pool")
  <2> SUFFICES ASSUME NEW u \in Thread, Contains(k'.wait["pool"], u)
               PROVE  Waits(u, "pool")
    OBVIOUS
  <2>1. pc'[u] \in Places("pool")
    BY <1>0 DEF NoUart, WaitsInPlace, Waits
  <2>2. u \notin X /\ pc'[u] \in AllocPC
    BY <2>1 DEF Places, AllocPC
  <2> QED BY <2>2 DEF AllocStill, Waits
<1>3. Comers \subseteq Comers'
  <2> SUFFICES ASSUME NEW u \in Comers PROVE u \in Comers'
    OBVIOUS
  <2>1. u \in Thread /\ pc[u] \in AtTheirTry /\ ~Waits(u, "pool") /\ k.error[u] = "EOK"
    BY DEF Comers, OnItsWay
  <2>2. u \notin X /\ pc[u] \in AllocPC
    BY <2>1 DEF AllocPC, AtTheirTry
  <2>3. k'.error[u] = k.error[u] /\ pc'[u] = pc[u] /\ ~Contains(k'.wait["pool"], u)
    BY <2>1, <2>2 DEF AllocStill, Waits
  <2> QED BY <2>1, <2>3 DEF Comers, OnItsWay, Waits
<1>4. BlocksWakeWaiters'
  <2>1. /\ Comers \in SUBSET Thread /\ Comers' \in SUBSET Thread /\ Idle \in Thread
        /\ k.wait["pool"] = <<>> \/ count <= Cardinality(Comers)
    BY KernelAssumption DEF PoolKept, BlocksWakeWaiters, Comers
  <2>2. /\ Cardinality(Comers) <= Cardinality(Comers')
        /\ Cardinality(Comers) \in Nat /\ Cardinality(Comers') \in Nat /\ count \in Nat
    BY <1>0, <1>3, <2>1, CountComers, BlockFacts
  <2>3. k.wait["pool"] = <<>> => k'.wait["pool"] = <<>>
    BY <1>0, <1>2, NoNewWaiter
  <2>4. k'.wait["pool"] = <<>> \/ count' <= Cardinality(Comers')
    BY <1>1, <2>1, <2>2, <2>3
  <2> QED BY <2>4 DEF BlocksWakeWaiters, Comers
<1>5. ASSUME NEW u \in Thread
      PROVE  /\ pc'[u] # "alloc_return" => got'[u] = RT_NULL
             /\ pc'[u] = "alloc_retry" => k'.error[u] = "EOK"
  <2>1. CASE u \in X
    <3>1. pc'[u] = pc[u] /\ pc[u] \in Places("pool")
      BY <1>0, <2>1, WaiterPoints
    <3> QED BY <1>1, <3>1 DEF PoolKept, Places
  <2>2. CASE u \notin X
    BY <1>1, <2>2 DEF PoolKept, AllocStill, AllocPC
  <2> QED BY <2>1, <2>2
<1>6. PoolTypeOK'
  BY <1>0, <1>1 DEF PoolTypeOK
<1> QED BY <1>4, <1>5, <1>6 DEF PoolKept

\* A step the pool does not see.
LEMMA PoolUnseen ==
  ASSUME PoolKept, KInv', NoUart', UNCHANGED pvars, \A u \in Thread : AllocStill(u)
  PROVE  PoolKept' /\ AllocGoesOn
<1>1. PoolKept'
  <2>1. /\ \A u \in Thread : u \notin {} => AllocStill(u)
        /\ \A x \in {} : /\ Waits(x, "pool") /\ ~Contains(k'.wait["pool"], x)
                         /\ pc'[x] = pc[x]
        /\ {} \in SUBSET Thread
    OBVIOUS
  <2> QED BY <2>1, ComersStill
<1>2. Used' = Used /\ got' = got
  BY DEF pvars, Used
<1>3. \A u \in Thread : AllocCall(u)' = AllocCall(u)
  BY <1>2, SameAllocCall DEF AllocStill
<1> QED BY <1>1, <1>2, <1>3, SameAllocCalls

\* One waiter is turned away.
LEMMA PoolRefuses ==
  ASSUME PoolKept, KInv', NoUart', UNCHANGED pvars, NEW x \in Thread,
         Waits(x, "pool"), ~Contains(k'.wait["pool"], x), pc'[x] = pc[x],
         k'.error[x] \in {"ETIMEOUT", "ERROR"},
         \A u \in Thread : u # x => AllocStill(u)
  PROVE  PoolKept' /\ AllocGoesOn
<1>0. KInv /\ NoUart /\ "pool" \in WaitList
  BY ServicesAssumption DEF PoolKept
<1>1. PoolKept'
  <2>1. /\ \A u \in Thread : u \notin {x} => AllocStill(u)
        /\ \A y \in {x} : /\ Waits(y, "pool") /\ ~Contains(k'.wait["pool"], y)
                          /\ pc'[y] = pc[y]
        /\ {x} \in SUBSET Thread
    OBVIOUS
  <2> QED BY <2>1, ComersStill
<1>2. Used' = Used /\ got' = got
  BY DEF pvars, Used
<1>3. pc[x] \in {"alloc_sched", "alloc_woken"} /\ k.error[x] = "EOK"
  BY <1>0, WaiterPoints DEF Places, Untold
<1>4. AllocCall(x) = Pool!Waiting
  BY <1>3 DEF AllocCall, AtTheirTry, Failed, Waits, Pool!Waiting
<1>5. AllocCall(x)' = Pool!Refused
  BY <1>3 DEF AllocCall, AtTheirTry, Failed, Waits, Pool!Refused
<1>6. \A u \in Thread : u # x => AllocCall(u)' = AllocCall(u)
  BY <1>2, SameAllocCall DEF AllocStill
<1>7. Pool!Become(x, Pool!Refused)
  BY <1>5, <1>6, OneAllocCall DEF Pool!Become
<1>8. [u \in Thread |-> AllocCall(u)][x] = Pool!Waiting
  BY <1>4
<1>9. Pool!Refuse(x)
  BY <1>2, <1>7, <1>8 DEF Pool!Refuse
<1> QED BY <1>1, <1>9 DEF AllocGoesOn, Pool!Next

\* Nothing happens to the pool where another service is used.
LEMMA PoolForeign ==
  ASSUME PoolKept, KInv', NoUart', NEW A, Foot(A), A \cap AllocPC = {},
         UNCHANGED pvars
  PROVE  PoolKept' /\ AllocGoesOn
<1>1. "pool" \in WaitList
  BY ServicesAssumption
<1>2. \A u \in Thread : AllocStill(u)
  BY <1>1 DEF Foot, Untouched, AllocStill, Points, AllocPC
<1> QED BY <1>2, PoolUnseen

\* rt_mp_detach begins, or finds nobody or somebody to turn away.
LEMMA PoolDetachStep ==
  ASSUME PoolKept, LeftOK, NEW t \in Thread,
         \/ PoolDetach(t)
         \/ /\ DrainTest(t, "pool", "pool_test", "pool_wake", "run")
            /\ UNCHANGED <<wvars, pvars>>
  PROVE  PoolGoes
<1> DEFINE A == {"pool_test", "pool_wake"}
<1>0. KInv /\ NoUart
  BY DEF PoolKept
<1>1. PICK c \in {"run", "pool_test", "pool_wake"} :
        /\ Executes(t) /\ pc[t] \in {"run", "pool_test"} /\ t # Idle
        /\ Goto(t, c) /\ k' = k /\ isr' = isr /\ live' \subseteq live
        /\ left' = left /\ UNCHANGED pvars
  <2>1. CASE PoolDetach(t)
    BY <2>1 DEF PoolDetach, Calls, At
  <2>2. ASSUME DrainTest(t, "pool", "pool_test", "pool_wake", "run"),
               UNCHANGED <<wvars, pvars>>
        PROVE  \E c \in {"run", "pool_test", "pool_wake"} :
                 /\ Executes(t) /\ pc[t] \in {"run", "pool_test"} /\ t # Idle
                 /\ Goto(t, c) /\ k' = k /\ isr' = isr /\ live' \subseteq live
                 /\ left' = left /\ UNCHANGED pvars
    <3>1. t # Idle
      BY <1>0, <2>2 DEF DrainTest, At, KInv, ControlOK
    <3> QED BY <2>2, <3>1 DEF DrainTest, At, wvars
  <2> QED BY <2>1, <2>2
<1>2. Released(k', k, {}, "EOK")
  <2>1. Released(k, k, {}, "EOK")
    BY <1>0, KInvFacts, NothingReleased
  <2> QED BY <1>1, <2>1
<1>3. KInv' /\ NoUart' /\ Foot(A)
  <2>1. /\ c \in Plain /\ c \in Points(A) /\ pc[t] \in Plain /\ pc[t] \in Points(A)
        /\ c # "recv_return" /\ "EOK" \in {"EOK", "ETIMEOUT", "ERROR"}
        /\ \A x \in Thread : x \in {} => x = t \/ pc[x] \in Points(A)
    BY <1>1 DEF Plain, Points, ServicesPC, PC, PoolPC, Blocking, Locked
  <2> HIDE DEF A
  <2> QED BY <1>0, <1>1, <1>2, <2>1, GoOn
<1>4. Foot(PoolPC)
  <2>1. A \subseteq PoolPC
    BY DEF PoolPC
  <2> HIDE DEF A
  <2> QED BY <1>3, <2>1, FootGrows
<1>5. PoolKept' /\ AllocGoesOn
  <2>1. A \cap AllocPC = {}
    BY DEF AllocPC
  <2> HIDE DEF A
  <2> QED BY <1>1, <1>3, <2>1, PoolForeign
<1>6. LeftOK'
  BY <1>1 DEF LeftOK
<1> QED BY <1>4, <1>5, <1>6 DEF PoolGoes

\* rt_mp_detach turns the first waiter away.
LEMMA PoolWakeStep ==
  ASSUME PoolKept, LeftOK, NEW t \in Thread,
         DrainWake(t, "pool", "pool_test", "pool_wake"), UNCHANGED <<wvars, pvars>>
  PROVE  PoolGoes
<1>0. KInv /\ NoUart /\ "pool" \in WaitList /\ "ERROR" \in Error
  BY ServicesAssumption DEF PoolKept, Error
<1>1. /\ Executes(t) /\ pc[t] = "pool_wake" /\ k.wait["pool"] # <<>>
      /\ k' = Wake(k, "pool", "ERROR") /\ Goto(t, "pool_test")
      /\ isr' = isr /\ live' = live /\ left' = left /\ UNCHANGED pvars
  BY DEF DrainWake, At, wvars
<1>2. PICK x \in Thread : Waits(x, "pool") /\ Released(k', k, {x}, "ERROR")
  BY <1>0, <1>1, FirstReleased
<1>3. /\ pc[t] \in Plain /\ "pool_test" \in Plain /\ pc[t] \in Points(PoolPC)
      /\ "pool_test" \in Points(PoolPC) /\ pc[t] \notin Blocking
      /\ pc[t] \notin AllocPC /\ "pool_test" \notin AllocPC
  BY <1>1 DEF Plain, Points, ServicesPC, PoolPC, Blocking, Locked, AllocPC
<1>4. t # Idle
  BY <1>0, <1>1 DEF KInv, ControlOK
<1>5. pc[x] \in Points(PoolPC) /\ x # t
  BY <1>0, <1>1, <1>2, <1>3, WaiterPoints, ExecutingRuns DEF Places, Points, PoolPC
<1>6. KInv' /\ NoUart' /\ Foot(PoolPC)
  <2>1. /\ "ERROR" \in {"EOK", "ETIMEOUT", "ERROR"} /\ live' \subseteq live
        /\ "pool_test" # "recv_return"
        /\ \A y \in Thread : y \in {x} => y = t \/ pc[y] \in Points(PoolPC)
    BY <1>1, <1>5
  <2> QED BY <1>0, <1>1, <1>2, <1>3, <1>4, <2>1, GoOn
<1>7. pc'[t] = "pool_test" /\ \A u \in Thread : u # t => pc'[u] = pc[u]
  BY <1>0, <1>1, KInvFacts DEF Goto
<1>8. /\ ~Contains(k'.wait["pool"], x) /\ pc'[x] = pc[x]
      /\ k'.error[x] \in {"ETIMEOUT", "ERROR"}
  BY <1>0, <1>2, <1>5, <1>7 DEF Released
<1>9. \A u \in Thread : u # x => AllocStill(u)
  BY <1>0, <1>2, <1>3, <1>7 DEF Released, AllocStill
<1>10. PoolKept' /\ AllocGoesOn
  BY <1>1, <1>2, <1>6, <1>8, <1>9, PoolRefuses
<1>11. LeftOK'
  BY <1>1 DEF LeftOK
<1> QED BY <1>6, <1>10, <1>11 DEF PoolGoes

\* The steps of a memory pool, all together.
LEMMA PoolStepKeeps ==
  ASSUME PoolKept, LeftOK, PoolNext
  PROVE  PoolGoes
<1>1. CASE IsrAlloc \/ IsrFree
  BY <1>1, IsrAllocStep, IsrFreeStep
<1>2. ASSUME NEW t \in Thread, PoolStep(t)
      PROVE  PoolGoes
  <2>1. CASE Alloc(t) \/ AllocSchedule(t) \/ AllocWoken(t)
    BY <2>1, AllocStep, AllocScheduleStep, AllocWokenStep
  <2>2. CASE AllocRetry(t) \/ AllocReturn(t) \/ Free(t)
    BY <2>2, AllocRetryStep, AllocReturnStep, FreeStep
  <2>3. CASE PoolDetach(t)
    BY <2>3, PoolDetachStep
  <2>4. CASE PoolDrain(t)
    BY <2>4, PoolDetachStep, PoolWakeStep DEF PoolDrain
  <2> QED BY <1>2, <2>1, <2>2, <2>3, <2>4 DEF PoolStep
<1> QED BY <1>1, <1>2 DEF PoolNext

\* A thread whose wait times out is turned away.
LEMMA PoolTick ==
  ASSUME PoolKept, KInv', NoUart', NEW W \in SUBSET Thread,
         Released(k', k, W, "ETIMEOUT"), \A t \in W : k.stat[t] = "SUSPEND",
         \A t, u \in W : t = u, pc' = pc, UNCHANGED pvars
  PROVE  PoolKept' /\ AllocGoesOn
<1>0. KInv /\ NoUart /\ "pool" \in WaitList
  BY ServicesAssumption DEF PoolKept
<1>1. ASSUME NEW u \in Thread, u \notin W \/ pc[u] \notin AllocPC
      PROVE  AllocStill(u)
  <2>1. CASE u \notin W
    <3>1. /\ k'.error[u] = k.error[u]
          /\ Contains(k'.wait["pool"], u) <=> Contains(k.wait["pool"], u)
      BY <1>0, <2>1 DEF Released
    <3> QED BY <3>1 DEF AllocStill
  <2>2. CASE pc[u] \notin AllocPC
    BY <2>2 DEF AllocStill
  <2> QED BY <1>1, <2>1, <2>2
<1>2. CASE \E t \in W : pc[t] \in AllocPC
  <2>1. PICK t \in W : pc[t] \in AllocPC
    BY <1>2
  <2>2. pc[t] \notin Asleep /\ \A w \in WaitList : pc[t] \in Places(w) => w = "pool"
    BY <2>1, ServicesAssumption DEF AllocPC, Asleep, Places
  <2>3. Waits(t, "pool")
    BY <1>0, <2>1, <2>2 DEF NoUart, SuspendedKnown, WaitsInPlace
  <2>4. /\ ~Contains(k'.wait["pool"], t) /\ pc'[t] = pc[t]
        /\ k'.error[t] \in {"ETIMEOUT", "ERROR"}
    BY <1>0, <2>1 DEF Released
  <2>5. \A u \in Thread : u # t => AllocStill(u)
    BY <1>1, <2>1
  <2> QED BY <2>1, <2>3, <2>4, <2>5, PoolRefuses
<1>3. CASE ~\E t \in W : pc[t] \in AllocPC
  BY <1>1, <1>3, PoolUnseen
<1> QED BY <1>2, <1>3

-----------------------------------------------------------------------------
(* The array of a data queue                                               *)

\* The indices and the two marks agree.
Shaped(d) ==
  /\ d \in QueueState
  /\ ~(d.empty /\ d.full)
  /\ d.put = d.get <=> d.empty \/ d.full

\* The items, the oldest first.
InQueue(d) == [i \in 1 .. QueueLen(d) |-> d.slot[(d.get + i - 1) % Size]]

\* How many there are, and where.
LEMMA ShapeFacts ==
  ASSUME NEW d, Shaped(d)
  PROVE  /\ Size \in Nat /\ Size > 0
         /\ d.put \in 0 .. Size - 1 /\ d.get \in 0 .. Size - 1
         /\ QueueLen(d) \in 0 .. Size
         /\ d.empty <=> QueueLen(d) = 0
         /\ d.full <=> QueueLen(d) = Size
         /\ QueueLen(d) = IF d.empty THEN 0
                          ELSE IF d.put > d.get THEN d.put - d.get
                          ELSE Size + d.put - d.get
         /\ d.put = IF d.get + QueueLen(d) < Size THEN d.get + QueueLen(d)
                    ELSE d.get + QueueLen(d) - Size
<1>1. /\ Size \in Nat /\ Size > 0
      /\ d.put \in 0 .. Size - 1 /\ d.get \in 0 .. Size - 1
      /\ d.empty \in BOOLEAN /\ d.full \in BOOLEAN
  BY DataQueueAssumption DEF Shaped, QueueState
<1>2. QueueLen(d) = IF d.empty THEN 0
                    ELSE IF d.put > d.get THEN d.put - d.get
                    ELSE Size + d.put - d.get
  BY DEF QueueLen
<1>3. CASE d.empty
  <2>1. QueueLen(d) = 0 /\ d.put = d.get /\ ~d.full
    BY <1>2, <1>3 DEF Shaped
  <2> QED BY <1>1, <1>2, <1>3, <2>1
<1>4. CASE ~d.empty
  <2>1. d.full <=> d.put = d.get
    BY <1>4 DEF Shaped
  <2>2. CASE d.put > d.get
    BY <1>1, <1>2, <1>4, <2>1, <2>2
  <2>3. CASE ~(d.put > d.get)
    BY <1>1, <1>2, <1>4, <2>1, <2>3
  <2> QED BY <2>2, <2>3
<1> QED BY <1>3, <1>4

\* The place of the i-th item.
LEMMA PlaceOfItem ==
  ASSUME NEW d, Shaped(d), NEW i \in 1 .. Size
  PROVE  (d.get + i - 1) % Size = IF d.get + i - 1 < Size THEN d.get + i - 1
                                  ELSE d.get + i - 1 - Size
<1>1. /\ Size \in Nat /\ Size > 0 /\ d.get \in 0 .. Size - 1
  BY ShapeFacts
<1>2. /\ d.get + i - 1 \in Int /\ -Size < d.get + i - 1
      /\ d.get + i - 1 < 2 * Size /\ ~(d.get + i - 1 < 0)
  BY <1>1
<1> QED BY <1>1, <1>2, WrapFacts

\* The next place of an index.
LEMMA NextPlace ==
  ASSUME Size \in Nat, Size > 0, NEW j \in 0 .. Size - 1
  PROVE  /\ (j + 1) % Size \in 0 .. Size - 1
         /\ (j + 1) % Size = IF j + 1 < Size THEN j + 1 ELSE 0
<1>1. j + 1 \in Int /\ -Size < j + 1 /\ j + 1 < 2 * Size /\ ~(j + 1 < 0)
  OBVIOUS
<1>2. (j + 1) % Size = IF j + 1 < Size THEN j + 1 ELSE j + 1 - Size
  BY <1>1, WrapFacts
<1> QED BY <1>2

\* The list of the items.
LEMMA InQueueFacts ==
  ASSUME NEW d, Shaped(d)
  PROVE  /\ InQueue(d) \in Seq(Item \cup {NoItem}) /\ Len(InQueue(d)) = QueueLen(d)
         /\ \A i \in 1 .. QueueLen(d) :
              InQueue(d)[i] = d.slot[(d.get + i - 1) % Size]
<1> DEFINE n == QueueLen(d)
<1>1. n \in 0 .. Size /\ Size \in Nat /\ d.get \in 0 .. Size - 1
  BY ShapeFacts
<1>2. InQueue(d) = [i \in 1 .. n |-> d.slot[(d.get + i - 1) % Size]]
  BY DEF InQueue
<1> HIDE DEF n
<1>3. ASSUME NEW i \in 1 .. n
      PROVE  d.slot[(d.get + i - 1) % Size] \in Item \cup {NoItem}
  <2>1. i \in 1 .. Size
    BY <1>1
  <2>2. (d.get + i - 1) % Size \in 0 .. Size - 1
    BY <1>1, <2>1, PlaceOfItem
  <2>3. d.slot \in [0 .. Size - 1 -> Item \cup {NoItem}]
    BY DEF Shaped, QueueState
  <2> QED BY <2>2, <2>3
<1>4. InQueue(d) \in Seq(Item \cup {NoItem}) /\ Len(InQueue(d)) = n
  BY <1>1, <1>2, <1>3
<1> QED BY <1>2, <1>4 DEF n

\* An item that is put into the array is its last.
LEMMA EnterFacts ==
  ASSUME NEW d, Shaped(d), ~d.full, NEW x \in Item
  PROVE  /\ Shaped(Enter(d, x)) /\ QueueLen(Enter(d, x)) = QueueLen(d) + 1
         /\ QueueLen(d) < Size
         /\ InQueue(Enter(d, x)) = Append(InQueue(d), x)
<1> DEFINE e == Enter(d, x)
           put == (d.put + 1) % Size
           n == QueueLen(d)
<1>0. /\ Size \in Nat /\ Size > 0 /\ d.put \in 0 .. Size - 1
      /\ d.get \in 0 .. Size - 1 /\ n \in 0 .. Size - 1
      /\ d.put = IF d.get + n < Size THEN d.get + n ELSE d.get + n - Size
  BY ShapeFacts
<1>1. put \in 0 .. Size - 1 /\ put = IF d.put + 1 < Size THEN d.put + 1 ELSE 0
  BY <1>0, NextPlace
<1> HIDE DEF put
<1>2. /\ e.slot = [d.slot EXCEPT ![d.put] = x] /\ e.put = put /\ e.get = d.get
      /\ e.empty = FALSE /\ e.full = (put = d.get)
  <2>1. d.full \in BOOLEAN /\ d \in QueueState
    BY DEF Shaped, QueueState
  <2> QED BY <2>1 DEF Enter, QueueState, put
<1>3. e \in QueueState
  <2> DEFINE full == d.full \/ put = d.get
             slot == [d.slot EXCEPT ![d.put] = x]
  <2>1. slot \in [0 .. Size - 1 -> Item \cup {NoItem}] /\ full \in BOOLEAN
    BY DEF Shaped, QueueState
  <2>2. e = [d EXCEPT !.slot = slot, !.put = put, !.empty = FALSE, !.full = full]
    BY DEF Enter, Shaped, QueueState, put
  <2> HIDE DEF e, full, slot
  <2> QED BY <1>1, <2>1, <2>2 DEF Shaped, QueueState
<1> HIDE DEF e
<1>4. Shaped(e)
  BY <1>2, <1>3 DEF Shaped
<1> HIDE DEF n
<1>5. QueueLen(e) = n + 1
  <2>1. QueueLen(e) = IF put > d.get THEN put - d.get ELSE Size + put - d.get
    BY <1>2 DEF QueueLen
  <2>2. CASE d.put + 1 < Size
    BY <1>0, <1>1, <2>1, <2>2
  <2>3. CASE ~(d.put + 1 < Size)
    BY <1>0, <1>1, <2>1, <2>3
  <2> QED BY <2>2, <2>3
<1>6. InQueue(e) = Append(InQueue(d), x)
  <2>1. /\ InQueue(d) \in Seq(Item \cup {NoItem}) /\ Len(InQueue(d)) = n
        /\ \A i \in 1 .. n : InQueue(d)[i] = d.slot[(d.get + i - 1) % Size]
        /\ InQueue(e) \in Seq(Item \cup {NoItem}) /\ Len(InQueue(e)) = n + 1
        /\ \A i \in 1 .. n + 1 : InQueue(e)[i] = e.slot[(d.get + i - 1) % Size]
    <3>1. /\ InQueue(e) \in Seq(Item \cup {NoItem}) /\ Len(InQueue(e)) = QueueLen(e)
          /\ \A i \in 1 .. QueueLen(e) :
               InQueue(e)[i] = e.slot[(e.get + i - 1) % Size]
      BY <1>4, InQueueFacts
    <3>2. /\ InQueue(d) \in Seq(Item \cup {NoItem}) /\ Len(InQueue(d)) = n
          /\ \A i \in 1 .. n : InQueue(d)[i] = d.slot[(d.get + i - 1) % Size]
      BY InQueueFacts DEF n
    <3>3. e.get = d.get
      BY <1>2
    <3> QED BY <1>5, <3>1, <3>2, <3>3
  <2>2. /\ Append(InQueue(d), x) \in Seq(Item \cup {NoItem})
        /\ Len(Append(InQueue(d), x)) = n + 1
        /\ \A i \in 1 .. n : Append(InQueue(d), x)[i] = InQueue(d)[i]
        /\ Append(InQueue(d), x)[n + 1] = x
    <3>1. x \in Item \cup {NoItem}
      OBVIOUS
    <3> QED BY <2>1, <3>1, AppendProperties
  <2>3. ASSUME NEW i \in 1 .. n + 1
        PROVE  InQueue(e)[i] = Append(InQueue(d), x)[i]
    <3> DEFINE j == (d.get + i - 1) % Size
    <3>1. i \in 1 .. Size
      BY <1>0
    <3>2. j = IF d.get + i - 1 < Size THEN d.get + i - 1 ELSE d.get + i - 1 - Size
      BY <3>1, PlaceOfItem
    <3> HIDE DEF j
    <3>3. j \in 0 .. Size - 1
      BY <1>0, <3>1, <3>2
    <3>4. j = d.put <=> i = n + 1
      BY <1>0, <3>1, <3>2
    <3>5. e.slot[j] = IF j = d.put THEN x ELSE d.slot[j]
      BY <1>2, <3>3 DEF Shaped, QueueState
    <3>6. i \in 1 .. n <=> i # n + 1
      BY <1>0
    <3>7. InQueue(e)[i] = e.slot[j]
      BY <2>1 DEF j
    <3>8. CASE i = n + 1
      BY <2>2, <3>4, <3>5, <3>7, <3>8
    <3>9. CASE i # n + 1
      <4>1. InQueue(d)[i] = d.slot[j]
        BY <2>1, <3>6, <3>9 DEF j
      <4> QED BY <2>2, <3>4, <3>5, <3>6, <3>7, <3>9, <4>1
    <3> QED BY <3>8, <3>9
  <2> HIDE DEF n
  <2> QED BY <2>1, <2>2, <2>3, SeqEqual
<1> QED BY <1>0, <1>4, <1>5, <1>6 DEF e, n

\* The item that leaves it is its first.
LEMMA LeaveFacts ==
  ASSUME NEW d, Shaped(d), ~d.empty
  PROVE  /\ Shaped(Leave(d)) /\ QueueLen(Leave(d)) = QueueLen(d) - 1
         /\ QueueLen(d) > 0
         /\ InQueue(Leave(d)) = Tail(InQueue(d))
         /\ InQueue(d) # <<>> /\ Head(InQueue(d)) = d.slot[d.get]
         /\ d.slot[d.get] \in Item \cup {NoItem}
<1> DEFINE e == Leave(d)
           get == (d.get + 1) % Size
           n == QueueLen(d)
<1>0. /\ Size \in Nat /\ Size > 0 /\ d.put \in 0 .. Size - 1
      /\ d.get \in 0 .. Size - 1 /\ n \in 1 .. Size
      /\ d.put = IF d.get + n < Size THEN d.get + n ELSE d.get + n - Size
  BY ShapeFacts
<1>1. get \in 0 .. Size - 1 /\ get = IF d.get + 1 < Size THEN d.get + 1 ELSE 0
  BY <1>0, NextPlace
<1> HIDE DEF get
<1>2. /\ e.slot = [d.slot EXCEPT ![d.get] = NoItem] /\ e.put = d.put /\ e.get = get
      /\ e.full = FALSE /\ e.empty = (d.put = get)
  <2>1. d.empty \in BOOLEAN /\ d \in QueueState
    BY DEF Shaped, QueueState
  <2> QED BY <2>1 DEF Leave, QueueState, get
<1>3. e \in QueueState
  <2> DEFINE empty == d.empty \/ d.put = get
             slot == [d.slot EXCEPT ![d.get] = NoItem]
  <2>1. slot \in [0 .. Size - 1 -> Item \cup {NoItem}] /\ empty \in BOOLEAN
    BY DEF Shaped, QueueState
  <2>2. e = [d EXCEPT !.slot = slot, !.get = get, !.full = FALSE, !.empty = empty]
    BY DEF Leave, Shaped, QueueState, get
  <2> HIDE DEF e, empty, slot
  <2> QED BY <1>1, <2>1, <2>2 DEF Shaped, QueueState
<1> HIDE DEF e
<1>4. Shaped(e)
  BY <1>2, <1>3 DEF Shaped
<1> HIDE DEF n
<1>5. QueueLen(e) = n - 1
  <2>1. QueueLen(e) = IF d.put = get THEN 0
                      ELSE IF d.put > get THEN d.put - get ELSE Size + d.put - get
    BY <1>2 DEF QueueLen
  <2>2. CASE d.get + 1 < Size
    BY <1>0, <1>1, <2>1, <2>2
  <2>3. CASE ~(d.get + 1 < Size)
    BY <1>0, <1>1, <2>1, <2>3
  <2> QED BY <2>2, <2>3
<1>6. /\ InQueue(d) \in Seq(Item \cup {NoItem}) /\ Len(InQueue(d)) = n
      /\ \A i \in 1 .. n : InQueue(d)[i] = d.slot[(d.get + i - 1) % Size]
      /\ InQueue(e) \in Seq(Item \cup {NoItem}) /\ Len(InQueue(e)) = n - 1
      /\ \A i \in 1 .. n - 1 : InQueue(e)[i] = e.slot[(get + i - 1) % Size]
  <2>1. /\ InQueue(e) \in Seq(Item \cup {NoItem}) /\ Len(InQueue(e)) = QueueLen(e)
        /\ \A i \in 1 .. QueueLen(e) :
             InQueue(e)[i] = e.slot[(e.get + i - 1) % Size]
    BY <1>4, InQueueFacts
  <2>2. /\ InQueue(d) \in Seq(Item \cup {NoItem}) /\ Len(InQueue(d)) = n
        /\ \A i \in 1 .. n : InQueue(d)[i] = d.slot[(d.get + i - 1) % Size]
    BY InQueueFacts DEF n
  <2>3. e.get = get
    BY <1>2
  <2> QED BY <1>5, <2>1, <2>2, <2>3
<1>7. InQueue(d) # <<>>
  BY <1>0, <1>6, EmptySeq
<1>8. InQueue(e) = Tail(InQueue(d))
  <2>1. /\ Tail(InQueue(d)) \in Seq(Item \cup {NoItem})
        /\ Len(Tail(InQueue(d))) = n - 1
        /\ \A i \in 1 .. n - 1 : Tail(InQueue(d))[i] = InQueue(d)[i + 1]
    BY <1>6, <1>7, HeadTailProperties
  <2>2. ASSUME NEW i \in 1 .. n - 1
        PROVE  InQueue(e)[i] = Tail(InQueue(d))[i]
    <3> DEFINE j == (get + i - 1) % Size
    <3>1. i \in 1 .. Size /\ i + 1 \in 1 .. Size /\ i + 1 \in 1 .. n
      BY <1>0
    <3>2. j = IF get + i - 1 < Size THEN get + i - 1 ELSE get + i - 1 - Size
      BY <1>2, <1>4, <3>1, PlaceOfItem
    <3>3. (d.get + (i + 1) - 1) % Size
            = IF d.get + (i + 1) - 1 < Size THEN d.get + (i + 1) - 1
              ELSE d.get + (i + 1) - 1 - Size
      BY <3>1, PlaceOfItem
    <3> HIDE DEF j
    <3>4. j \in 0 .. Size - 1 /\ j # d.get
      BY <1>0, <1>1, <3>1, <3>2
    <3>5. (d.get + (i + 1) - 1) % Size = j
      BY <1>0, <1>1, <3>1, <3>2, <3>3
    <3>6. e.slot[j] = d.slot[j]
      BY <1>2, <3>4 DEF Shaped, QueueState
    <3>7. InQueue(d)[i + 1] = d.slot[j] /\ InQueue(e)[i] = e.slot[j]
      BY <1>6, <3>1, <3>5 DEF j
    <3> QED BY <2>1, <3>6, <3>7
  <2> HIDE DEF n
  <2> QED BY <1>6, <2>1, <2>2, SeqEqual
<1>9. Head(InQueue(d)) = d.slot[d.get]
  <2>1. 1 \in 1 .. Size /\ 1 \in 1 .. n
    BY <1>0
  <2>2. (d.get + 1 - 1) % Size = d.get
    <3>1. (d.get + 1 - 1) % Size = IF d.get + 1 - 1 < Size THEN d.get + 1 - 1
                                   ELSE d.get + 1 - 1 - Size
      BY <2>1, PlaceOfItem
    <3> QED BY <1>0, <3>1
  <2>3. InQueue(d)[1] = d.slot[d.get]
    BY <1>6, <2>1, <2>2
  <2> QED BY <1>6, <1>7, <2>3
<1>10. d.slot[d.get] \in Item \cup {NoItem}
  BY <1>0 DEF Shaped, QueueState
<1> QED BY <1>0, <1>4, <1>5, <1>7, <1>8, <1>9, <1>10 DEF e, n

\* A queue that has been reset.
LEMMA EmptiedFacts ==
  /\ Shaped(Emptied) /\ QueueLen(Emptied) = 0 /\ InQueue(Emptied) = <<>>
<1>1. 0 \in 0 .. Size - 1
  BY DataQueueAssumption
<1>2. Emptied \in QueueState
  BY <1>1 DEF Emptied, QueueState
<1>3. /\ Emptied.empty = TRUE /\ Emptied.full = FALSE /\ Emptied.put = Emptied.get
  BY DEF Emptied
<1>4. QueueLen(Emptied) = 0
  BY <1>3 DEF QueueLen
<1>5. InQueue(Emptied) = <<>>
  BY <1>4 DEF InQueue
<1> QED BY <1>2, <1>3, <1>4, <1>5 DEF Shaped

-----------------------------------------------------------------------------
(* Data queues                                                             *)

DataPC == {"queue_wait", "queue_woken", "queue_sched", "queue_return"}

\* A queue is being reset, and not all who wait to push have been woken.
Resetting == {"reset_lock", "pop_test", "pop_wake", "push_test", "push_wake"}

\* A request is where its thread is.
OpOK(t) ==
  /\ op[t].at = "pushing" => op[t].item \in Item
  /\ pc[t] \in {"queue_wait", "queue_woken"} => op[t].at \in {"pushing", "popping"}
  /\ pc[t] \in {"queue_sched", "queue_return"}
       => op[t].at \in {"pushed", "popped", "refused"}
  /\ pc[t] \notin DataPC => op[t] = Idles
  /\ Waits(t, "pop") => op[t].at = "popping"
  /\ Waits(t, "push") => op[t].at = "pushing"

\* The threads that have been woken to pop, or to push.
Coming(w, doing) ==
  {t \in Thread : OnItsWay(t, w, {"queue_wait", "queue_woken"}) /\ op[t].at = doing}

PopsWoken ==
  k.wait["pop"] = <<>> \/ QueueLen(q) <= Cardinality(Coming("pop", "popping"))

PushesWoken ==
  \/ k.wait["push"] = <<>> \/ QueueLen(q) > Lwm
  \/ Lwm + 1 - QueueLen(q) <= Cardinality(Coming("push", "pushing"))
  \/ \E t \in Thread : pc[t] \in Resetting

\* What every step of a data queue keeps to.
QueueKept ==
  /\ KInv /\ NoUart /\ QueueTypeOK /\ Shaped(q)
  /\ \A t \in Thread : OpOK(t)
  /\ PopsWoken /\ PushesWoken

\* What happens to the abstract queue.
QueueGoesOn == Queue!Next \/ UNCHANGED <<Items, [t \in Thread |-> DataCall(t)]>>

\* A step of the queue.
QueueGoes == QueueKept' /\ LeftOK' /\ Foot(QueuePC) /\ QueueGoesOn

\* Both wait lists together.
LEMMA WakesSuffice == PopsWoken /\ PushesWoken <=> QueueWakesSuffice
BY DEF PopsWoken, PushesWoken, QueueWakesSuffice, Coming, Resetting

\* What is known of the array.
LEMMA QueueFacts ==
  ASSUME QueueKept
  PROVE  /\ KInv /\ NoUart /\ Shaped(q) /\ Items = InQueue(q)
         /\ QueueLen(q) \in 0 .. Size /\ Size \in Nat /\ Lwm \in Nat /\ Lwm < Size
         /\ q.empty <=> QueueLen(q) = 0
         /\ q.full <=> QueueLen(q) = Size
         /\ Len(Items) = QueueLen(q) /\ (Items = <<>> <=> q.empty)
         /\ "pop" \in WaitList /\ "push" \in WaitList
         /\ Untold("pop") = "EOK" /\ Untold("push") = "EOK"
         /\ Places("pop") = {"queue_wait", "queue_woken"}
         /\ Places("push") = {"queue_wait", "queue_woken"}
<1>1. KInv /\ NoUart /\ Shaped(q) /\ "pop" \in WaitList /\ "push" \in WaitList
  BY ServicesAssumption DEF QueueKept
<1>2. Items = InQueue(q)
  BY DEF Items, InQueue
<1>3. /\ QueueLen(q) \in 0 .. Size /\ Size \in Nat
      /\ q.empty <=> QueueLen(q) = 0
      /\ q.full <=> QueueLen(q) = Size
  BY <1>1, ShapeFacts
<1>4. Lwm \in Nat /\ Lwm < Size
  BY DataQueueAssumption
<1>5. InQueue(q) \in Seq(Item \cup {NoItem}) /\ Len(InQueue(q)) = QueueLen(q)
  BY <1>1, InQueueFacts
<1>6. InQueue(q) = <<>> <=> q.empty
  BY <1>3, <1>5, EmptySeq
<1>7. /\ Untold("pop") = "EOK" /\ Untold("push") = "EOK"
      /\ Places("pop") = {"queue_wait", "queue_woken"}
      /\ Places("push") = {"queue_wait", "queue_woken"}
  BY DEF Untold, Places
<1> QED BY <1>1, <1>2, <1>3, <1>4, <1>5, <1>6, <1>7

\* Who is on the way, who waits, and what they ask for, after a step in which
\* only the threads of M move and those of X are woken.
LEMMA ComingMoves ==
  ASSUME QueueKept, KInv', NEW M \in SUBSET Thread, NEW X \in SUBSET Thread,
         NEW e, Released(k', k, X, e), M \cap X = {},
         \A u \in Thread \ M : pc'[u] = pc[u] /\ op'[u] = op[u],
         NEW w \in {"pop", "push"}, NEW doing
  PROVE  /\ \A u \in Coming(w, doing) : u \in M \/ u \in X \/ u \in Coming(w, doing)'
         /\ \A x \in X : Waits(x, w) => x \notin Coming(w, doing)
         /\ e = "EOK" => \A x \in X : Waits(x, w) /\ op[x].at = doing =>
                                        x \in Coming(w, doing)'
         /\ \A u \in Thread : Contains(k'.wait[w], u) => Waits(u, w)
         /\ k.wait[w] = <<>> => k'.wait[w] = <<>>
<1>0. KInv /\ NoUart /\ w \in WaitList /\ Places(w) = {"queue_wait", "queue_woken"}
  BY QueueFacts
<1>1. \A u \in Thread :
        /\ k'.error[u] = IF u \in X THEN e ELSE k.error[u]
        /\ Contains(k'.wait[w], u) <=> Waits(u, w) /\ u \notin X
  BY <1>0 DEF Released, Waits
<1>2. \A u \in Coming(w, doing) : u \in M \/ u \in X \/ u \in Coming(w, doing)'
  BY <1>1 DEF Coming, OnItsWay, Waits
<1>3. \A x \in X : Waits(x, w) => x \notin Coming(w, doing)
  BY DEF Coming, OnItsWay
<1>4. ASSUME e = "EOK", NEW x \in X, Waits(x, w), op[x].at = doing
      PROVE  x \in Coming(w, doing)'
  <2>1. pc[x] \in {"queue_wait", "queue_woken"} /\ x \notin M
    BY <1>0, <1>4, WaiterPoints
  <2> QED BY <1>1, <1>4, <2>1 DEF Coming, OnItsWay, Waits
<1>5. k.wait[w] = <<>> => k'.wait[w] = <<>>
  BY <1>0, <1>1, NoNewWaiter
<1> QED BY <1>1, <1>2, <1>3, <1>4, <1>5

\* The requests of the threads that do not move.
LEMMA OpsStay ==
  ASSUME QueueKept, NEW u \in Thread, pc'[u] = pc[u], op'[u] = op[u],
         Contains(k'.wait["pop"], u) => Waits(u, "pop"),
         Contains(k'.wait["push"], u) => Waits(u, "push")
  PROVE  OpOK(u)'
BY DEF QueueKept, OpOK, Waits

\* The call of one thread changes.
LEMMA OneDataCall ==
  ASSUME NEW t \in Thread, \A u \in Thread : u # t => op'[u] = op[u]
  PROVE  [u \in Thread |-> DataCall(u)]'
           = [[u \in Thread |-> DataCall(u)] EXCEPT ![t] = DataCall(t)']
BY DEF DataCall

\* No call changes.
LEMMA SameDataCalls ==
  ASSUME op' = op
  PROVE  UNCHANGED [t \in Thread |-> DataCall(t)]
BY DEF DataCall

\* What a request says.
LEMMA OpFacts ==
  ASSUME QueueKept, NEW t \in Thread
  PROVE  /\ op[t].at \in {"none", "pushing", "popping", "pushed", "popped", "refused"}
         /\ op[t].item \in Item \cup {NoItem}
         /\ op[t] = Op(op[t].at, op[t].item) /\ OpOK(t)
         /\ op \in [Thread -> [at : {"none", "pushing", "popping", "pushed",
                                     "popped", "refused"},
                               item : Item \cup {NoItem}]]
BY DEF QueueKept, QueueTypeOK, Op

\* A step the queue does not see.
LEMMA QueueForeign ==
  ASSUME QueueKept, KInv', NoUart', NEW A, Foot(A), A \cap QueuePC = {},
         UNCHANGED qvars
  PROVE  QueueKept' /\ QueueGoesOn
<1>0. q' = q /\ op' = op /\ KInv /\ NoUart /\ "pop" \in WaitList /\ "push" \in WaitList
  BY QueueFacts DEF qvars
<1>1. ASSUME NEW u \in Thread, NEW w \in {"pop", "push"}
      PROVE  Contains(k'.wait[w], u) <=> Waits(u, w)
  <2>1. CASE Untouched(u)
    BY <1>0, <2>1 DEF Untouched, Waits
  <2>2. CASE pc[u] \in Points(A) /\ pc'[u] \in Points(A)
    <3>1. pc[u] \notin Places(w) /\ pc'[u] \notin Places(w)
      BY <2>2 DEF Points, Places, QueuePC
    <3>2. ~Waits(u, w)
      BY <1>0, <3>1, WaiterPoints
    <3>3. ~Contains(k'.wait[w], u)
      BY <1>0, <3>1 DEF NoUart, WaitsInPlace, Waits
    <3> QED BY <3>2, <3>3
  <2> QED BY <2>1, <2>2 DEF Foot
<1>2. \A u \in Thread :
        \/ pc'[u] = pc[u] /\ k'.error[u] = k.error[u]
        \/ pc[u] \notin QueuePC /\ pc'[u] \notin QueuePC
  BY DEF Foot, Untouched, Points, QueuePC
<1>3. \A w \in {"pop", "push"} : k.wait[w] = <<>> => k'.wait[w] = <<>>
  BY <1>0, <1>1, NoNewWaiter
<1>4. \A w \in {"pop", "push"} : \A doing : Coming(w, doing)' = Coming(w, doing)
  BY <1>0, <1>1, <1>2 DEF Coming, OnItsWay, QueuePC, Waits
<1>5. \A u \in Thread : pc[u] \in Resetting => pc'[u] \in Resetting
  BY <1>2 DEF Resetting, QueuePC
<1>6. PopsWoken' /\ PushesWoken'
  BY <1>0, <1>3, <1>4, <1>5 DEF QueueKept, PopsWoken, PushesWoken
<1>7. ASSUME NEW u \in Thread PROVE OpOK(u)'
  BY <1>0, <1>1, <1>2 DEF QueueKept, OpOK, DataPC, QueuePC, Waits
<1>8. QueueTypeOK' /\ Shaped(q)' /\ Items' = Items
  BY <1>0 DEF QueueKept, QueueTypeOK, Shaped, Items
<1> QED BY <1>0, <1>6, <1>7, <1>8, SameDataCalls DEF QueueKept, QueueGoesOn

\* A call goes through, and the threads of X, which wait at the other end, are
\* woken.
LEMMA ThroughFacts ==
  ASSUME QueueKept, LeftOK, NEW t \in Thread, Executes(t), t # Idle,
         pc[t] \in {"run", "queue_woken"}, NEW done \in {"pushed", "popped"},
         NEW x \in Item \cup {NoItem}, NEW w \in {"pop", "push"},
         NEW X \in SUBSET Thread, NEW r, Released(r, k, X, "EOK"),
         \A y \in X : Waits(y, w), Through(t, done, x, r), isr' = isr, live' = live
  PROVE  /\ KInv' /\ NoUart' /\ Foot(QueuePC) /\ LeftOK'
         /\ Released(k', k, X, "EOK") /\ t \notin X
         /\ \A u \in Thread \ {t} : pc'[u] = pc[u] /\ op'[u] = op[u]
         /\ op'[t] = Op(done, x) /\ (q' \in QueueState => QueueTypeOK')
         /\ \A u \in Thread : OpOK(u)'
         /\ \A u \in Thread : pc[u] \in Resetting => pc'[u] \in Resetting
<1> DEFINE c == IF r = k THEN "queue_return" ELSE "queue_sched"
<1>0. /\ KInv /\ NoUart /\ "pop" \in WaitList /\ "push" \in WaitList /\ w \in WaitList
      /\ Places(w) = {"queue_wait", "queue_woken"}
  BY QueueFacts
<1>1. /\ k' = r /\ op' = [op EXCEPT ![t] = Op(done, x)]
      /\ left' = [left EXCEPT ![t] = 0] /\ Goto(t, c)
  BY DEF Through
<1>2. c \in {"queue_return", "queue_sched"}
  OBVIOUS
<1> HIDE DEF c
<1>3. Released(k', k, X, "EOK")
  BY <1>1
<1>4. /\ pc[t] \in Plain /\ pc[t] \in Points(QueuePC) /\ pc[t] \notin Blocking
      /\ c \in Plain /\ c \in Points(QueuePC) /\ c # "recv_return"
  BY <1>2 DEF Plain, Points, ServicesPC, PC, QueuePC, Blocking, Locked
<1>5. KInv' /\ NoUart' /\ Foot(QueuePC)
  <2>1. \A y \in Thread : y \in X => y = t \/ pc[y] \in Points(QueuePC)
    BY <1>0, WaiterPoints DEF Points, QueuePC
  <2>2. "EOK" \in {"EOK", "ETIMEOUT", "ERROR"} /\ live' \subseteq live
    OBVIOUS
  <2> QED BY <1>0, <1>1, <1>3, <1>4, <2>1, <2>2, GoOn
<1>6. t \notin X /\ ~Waits(t, "pop") /\ ~Waits(t, "push")
  BY <1>0, <1>4, ExecutingRuns
<1>7. pc'[t] = c /\ \A u \in Thread \ {t} : pc'[u] = pc[u]
  BY <1>0, <1>1, KInvFacts DEF Goto
<1>8. LeftOK'
  <2>1. 0 \in 0 .. TickHalf - 1
    BY TickHalfFacts DEF TickHalf
  <2> QED BY <1>1, <2>1 DEF LeftOK
<1>9. /\ op'[t] = Op(done, x) /\ \A u \in Thread \ {t} : op'[u] = op[u]
      /\ op' \in [Thread -> [at : {"none", "pushing", "popping", "pushed",
                                   "popped", "refused"},
                             item : Item \cup {NoItem}]]
  <2>1. Op(done, x) \in [at : {"none", "pushing", "popping", "pushed", "popped", "refused"},
                         item : Item \cup {NoItem}]
    BY DEF Op
  <2> QED BY <1>1, <2>1, OpFacts
<1>10. \A u \in Thread : /\ Contains(k'.wait["pop"], u) => Waits(u, "pop")
                         /\ Contains(k'.wait["push"], u) => Waits(u, "push")
  BY <1>0, <1>3 DEF Released, Waits
<1>11. OpOK(t)'
  BY <1>2, <1>6, <1>7, <1>9, <1>10 DEF OpOK, Op, DataPC, Waits
<1>12. \A u \in Thread : OpOK(u)'
  BY <1>7, <1>9, <1>10, <1>11, OpsStay
<1>13. \A u \in Thread : pc[u] \in Resetting => pc'[u] \in Resetting
  BY <1>7 DEF Resetting
<1>14. q' \in QueueState => QueueTypeOK'
  BY <1>9 DEF QueueTypeOK
<1> QED BY <1>3, <1>5, <1>6, <1>7, <1>8, <1>9, <1>12, <1>13, <1>14

\* An item is pushed: the first reader, if there is one, is woken.
LEMMA PushedStep ==
  ASSUME QueueKept, LeftOK, NEW t \in Thread, Executes(t), t # Idle,
         pc[t] \in {"run", "queue_woken"}, NEW x \in Item,
         pc[t] = "queue_woken" => op[t] = Op("pushing", x),
         ~q.full, q' = Enter(q, x), Through(t, "pushed", x, ResumeFirst(k, "pop")),
         isr' = isr, live' = live
  PROVE  QueueGoes
<1> DEFINE r == ResumeFirst(k, "pop")
           X == IF k.wait["pop"] = <<>> THEN {} ELSE {Head(k.wait["pop"])}
<1>0. /\ KInv /\ NoUart /\ "pop" \in WaitList /\ Shaped(q) /\ Items = InQueue(q)
      /\ QueueLen(q) \in 0 .. Size /\ Size \in Nat /\ Lwm \in Nat /\ Lwm < Size
  BY QueueFacts
<1>1. /\ Released(r, k, X, "EOK") /\ r.cur = k.cur
      /\ r = k <=> k.wait["pop"] = <<>>
      /\ \A y \in X : y \in Thread /\ Waits(y, "pop")
  <2>1. "pop" # "event"
    OBVIOUS
  <2> QED BY <1>0, <2>1, ResumeFirstReleased
<1>2. k.wait["pop"] # <<>> => X # {}
  OBVIOUS
<1>3. Through(t, "pushed", x, r)
  OBVIOUS
<1> HIDE DEF r, X
<1>4. /\ KInv' /\ NoUart' /\ Foot(QueuePC) /\ LeftOK'
      /\ Released(k', k, X, "EOK") /\ t \notin X
      /\ \A u \in Thread \ {t} : pc'[u] = pc[u] /\ op'[u] = op[u]
      /\ op'[t] = Op("pushed", x) /\ (q' \in QueueState => QueueTypeOK')
      /\ \A u \in Thread : OpOK(u)'
      /\ \A u \in Thread : pc[u] \in Resetting => pc'[u] \in Resetting
  <2>1. /\ X \in SUBSET Thread /\ \A y \in X : Waits(y, "pop")
        /\ x \in Item \cup {NoItem} /\ "pushed" \in {"pushed", "popped"}
        /\ "pop" \in {"pop", "push"}
    BY <1>1
  <2> QED BY <1>1, <1>3, <2>1, ThroughFacts
<1>5. /\ Shaped(q') /\ QueueLen(q') = QueueLen(q) + 1 /\ QueueLen(q) < Size
      /\ InQueue(q') = Append(InQueue(q), x)
  BY <1>0, EnterFacts
<1>6. /\ X \in SUBSET Thread /\ {t} \in SUBSET Thread /\ {t} \cap X = {}
      /\ \A u \in Thread \ {t} : pc'[u] = pc[u] /\ op'[u] = op[u]
  BY <1>1, <1>4
<1>7. PopsWoken'
  <2> DEFINE C == Coming("pop", "popping")
  <2>1. C \in SUBSET Thread /\ C' \in SUBSET Thread
    BY DEF Coming
  <2>2. /\ \A u \in C : u \in {t} \/ u \in X \/ u \in C'
        /\ \A y \in X : Waits(y, "pop") => y \notin C
        /\ "EOK" = "EOK" => \A y \in X : Waits(y, "pop") /\ op[y].at = "popping" =>
                                           y \in C'
        /\ k.wait["pop"] = <<>> => k'.wait["pop"] = <<>>
    <3> HIDE DEF C
    <3>1. "pop" \in {"pop", "push"}
      OBVIOUS
    <3> QED BY <1>4, <1>6, <3>1, ComingMoves DEF C
  <2>3. t \notin C
    BY DEF Coming, OnItsWay, Op
  <2>4. k.wait["pop"] = <<>> \/ QueueLen(q) <= Cardinality(C)
    BY DEF QueueKept, PopsWoken
  <2>5. \A y \in X : y \in Thread /\ y \notin C /\ y \in C'
    BY <1>1, <2>2, OpFacts DEF OpOK
  <2> HIDE DEF C
  <2>6. CASE k.wait["pop"] = <<>>
    BY <2>2, <2>6 DEF PopsWoken
  <2>7. CASE k.wait["pop"] # <<>>
    <3>1. PICK y \in X : TRUE
      BY <1>2, <2>7
    <3>2. y \in Thread /\ y \notin C /\ C \cup {y} \subseteq C'
      BY <2>2, <2>3, <2>5, <3>1
    <3>3. /\ Cardinality(C) + 1 <= Cardinality(C') /\ Cardinality(C) \in Nat
          /\ Cardinality(C') \in Nat
      BY <2>1, <3>2, CountComers
    <3>4. QueueLen(q') <= Cardinality(C')
      BY <1>0, <1>5, <2>4, <2>7, <3>3
    <3> QED BY <3>4 DEF PopsWoken, C
  <2> QED BY <2>6, <2>7
<1>8. PushesWoken'
  <2> DEFINE C == Coming("push", "pushing")
  <2>1. C \in SUBSET Thread /\ C' \in SUBSET Thread
    BY DEF Coming
  <2>2. /\ \A u \in C : u \in {t} \/ u \in X \/ u \in C'
        /\ k.wait["push"] = <<>> => k'.wait["push"] = <<>>
    <3> HIDE DEF C
    <3>1. "push" \in {"pop", "push"}
      OBVIOUS
    <3> QED BY <1>4, <1>6, <3>1, ComingMoves DEF C
  <2>3. \A y \in X : y \notin C
    BY <1>1, OpFacts DEF Coming, OpOK
  <2>4. \/ k.wait["push"] = <<>> \/ QueueLen(q) > Lwm
        \/ Lwm + 1 - QueueLen(q) <= Cardinality(C)
        \/ \E u \in Thread : pc[u] \in Resetting
    BY DEF QueueKept, PushesWoken
  <2> HIDE DEF C
  <2>5. C \ {t} \subseteq C'
    BY <2>2, <2>3
  <2>6. /\ Cardinality(C) - 1 <= Cardinality(C') /\ Cardinality(C) \in Nat
        /\ Cardinality(C') \in Nat
    BY <2>1, <2>5, CountComers
  <2>7. \/ k'.wait["push"] = <<>> \/ QueueLen(q') > Lwm
        \/ Lwm + 1 - QueueLen(q') <= Cardinality(C')
        \/ \E u \in Thread : pc'[u] \in Resetting
    <3>1. CASE k.wait["push"] = <<>> \/ \E u \in Thread : pc[u] \in Resetting
      BY <1>4, <2>2, <3>1
    <3>2. CASE QueueLen(q) > Lwm \/ Lwm + 1 - QueueLen(q) <= Cardinality(C)
      BY <1>0, <1>5, <2>6, <3>2
    <3> QED BY <2>4, <3>1, <3>2
  <2> QED BY <2>7 DEF PushesWoken, C
<1>9. Queue!Push(t)
  <2>1. DataCall(t)' = Queue!Pushed(x)
    BY <1>4 DEF DataCall, Op, Queue!Pushed
  <2>2. DataCall(t) \in {Queue!None, Queue!Pushing(x)}
    <3>1. CASE pc[t] = "run"
      <4>1. op[t] = Idles
        BY <3>1, OpFacts DEF OpOK, DataPC
      <4>2. DataCall(t) = Queue!None
        BY <4>1 DEF DataCall, Idles, Op, Queue!None
      <4> QED BY <4>2
    <3>2. CASE pc[t] = "queue_woken"
      <4>1. op[t] = Op("pushing", x)
        BY <3>2
      <4>2. DataCall(t) = Queue!Pushing(x)
        BY <4>1 DEF DataCall, Op, Queue!Pushing
      <4> QED BY <4>2
    <3> QED BY <3>1, <3>2
  <2>3. Queue!Become(t, Queue!Pushed(x))
    BY <1>4, <2>1, OneDataCall DEF Queue!Become
  <2>4. [u \in Thread |-> DataCall(u)][t] \in {Queue!None, Queue!Pushing(x)}
    BY <2>2
  <2>5. Queue!Add(x)
    <3>1. Items' = InQueue(q')
      BY DEF Items, InQueue
    <3>2. Len(Items) = QueueLen(q)
      BY QueueFacts
    <3> QED BY <1>0, <1>5, <3>1, <3>2 DEF Queue!Add, Queue!Full
  <2> QED BY <2>3, <2>4, <2>5 DEF Queue!Push
<1>10. QueueTypeOK' /\ Shaped(q)'
  BY <1>4, <1>5 DEF Shaped
<1> QED BY <1>4, <1>7, <1>8, <1>9, <1>10 DEF QueueGoes, QueueKept, QueueGoesOn, Queue!Next

\* An item is popped: below the low water mark the first writer, if there is
\* one, is woken.
LEMMA PoppedStep ==
  ASSUME QueueKept, LeftOK, NEW t \in Thread, Executes(t), t # Idle,
         pc[t] \in {"run", "queue_woken"},
         pc[t] = "queue_woken" => op[t].at = "popping",
         ~q.empty, q' = Leave(q),
         Through(t, "popped", q.slot[q.get], WakePusher(k, Leave(q))),
         isr' = isr, live' = live
  PROVE  QueueGoes
<1> DEFINE r == WakePusher(k, Leave(q))
           x == q.slot[q.get]
           low == QueueLen(Leave(q)) <= Lwm
           First == IF k.wait["push"] = <<>> THEN {} ELSE {Head(k.wait["push"])}
           X == IF low THEN First ELSE {}
<1>0. /\ KInv /\ NoUart /\ "push" \in WaitList /\ Shaped(q) /\ Items = InQueue(q)
      /\ QueueLen(q) \in 0 .. Size /\ Size \in Nat /\ Lwm \in Nat /\ Lwm < Size
  BY QueueFacts
<1>1. /\ Released(r, k, X, "EOK") /\ \A y \in X : y \in Thread /\ Waits(y, "push")
      /\ low /\ k.wait["push"] # <<>> => X # {}
  <2>1. "push" # "event"
    OBVIOUS
  <2>2. /\ Released(ResumeFirst(k, "push"), k, First, "EOK")
        /\ \A y \in First : y \in Thread /\ Waits(y, "push")
    BY <1>0, <2>1, ResumeFirstReleased
  <2>3. Released(k, k, {}, "EOK")
    BY <1>0, KInvFacts, NothingReleased
  <2>4. k.wait["push"] # <<>> => First # {}
    OBVIOUS
  <2> HIDE DEF First
  <2>5. CASE low
    BY <2>2, <2>4, <2>5 DEF WakePusher
  <2>6. CASE ~low
    BY <2>3, <2>6 DEF WakePusher
  <2> QED BY <2>5, <2>6
<1>2. /\ Shaped(q') /\ QueueLen(q') = QueueLen(q) - 1 /\ QueueLen(q) > 0
      /\ InQueue(q') = Tail(InQueue(q)) /\ InQueue(q) # <<>>
      /\ Head(InQueue(q)) = x /\ x \in Item \cup {NoItem}
  BY <1>0, LeaveFacts
<1>3. Through(t, "popped", x, r) /\ (low <=> QueueLen(q') <= Lwm)
  OBVIOUS
<1> HIDE DEF r, X, x, low
<1>4. /\ KInv' /\ NoUart' /\ Foot(QueuePC) /\ LeftOK'
      /\ Released(k', k, X, "EOK") /\ t \notin X
      /\ \A u \in Thread \ {t} : pc'[u] = pc[u] /\ op'[u] = op[u]
      /\ op'[t] = Op("popped", x) /\ (q' \in QueueState => QueueTypeOK')
      /\ \A u \in Thread : OpOK(u)'
      /\ \A u \in Thread : pc[u] \in Resetting => pc'[u] \in Resetting
  <2>1. /\ X \in SUBSET Thread /\ \A y \in X : Waits(y, "push")
        /\ x \in Item \cup {NoItem} /\ "popped" \in {"pushed", "popped"}
        /\ "push" \in {"pop", "push"}
    BY <1>1, <1>2
  <2> QED BY <1>1, <1>3, <2>1, ThroughFacts
<1>5. /\ X \in SUBSET Thread /\ {t} \in SUBSET Thread /\ {t} \cap X = {}
      /\ \A u \in Thread \ {t} : pc'[u] = pc[u] /\ op'[u] = op[u]
  BY <1>1, <1>4
<1>6. PushesWoken'
  <2> DEFINE C == Coming("push", "pushing")
  <2>1. C \in SUBSET Thread /\ C' \in SUBSET Thread
    BY DEF Coming
  <2>2. /\ \A u \in C : u \in {t} \/ u \in X \/ u \in C'
        /\ \A y \in X : Waits(y, "push") => y \notin C
        /\ "EOK" = "EOK" => \A y \in X : Waits(y, "push") /\ op[y].at = "pushing" =>
                                           y \in C'
        /\ k.wait["push"] = <<>> => k'.wait["push"] = <<>>
    <3> HIDE DEF C
    <3>1. "push" \in {"pop", "push"}
      OBVIOUS
    <3> QED BY <1>4, <1>5, <3>1, ComingMoves DEF C
  <2>3. t \notin C
    <3>1. op[t].at # "pushing"
      <4>1. CASE pc[t] = "run"
        <5>1. op[t] = Idles
          BY <4>1, OpFacts DEF OpOK, DataPC
        <5> QED BY <5>1 DEF Idles, Op
      <4>2. CASE pc[t] = "queue_woken"
        BY <4>2
      <4> QED BY <4>1, <4>2
    <3> QED BY <3>1 DEF Coming
  <2>4. \/ k.wait["push"] = <<>> \/ QueueLen(q) > Lwm
        \/ Lwm + 1 - QueueLen(q) <= Cardinality(C)
        \/ \E u \in Thread : pc[u] \in Resetting
    BY DEF QueueKept, PushesWoken
  <2>5. \A y \in X : y \in Thread /\ y \notin C /\ y \in C'
    BY <1>1, <2>2, OpFacts DEF OpOK
  <2> HIDE DEF C
  <2>6. Cardinality(C) \in Nat /\ Cardinality(C') \in Nat
    BY <1>0, <2>1, CountComers
  <2>7. low /\ k.wait["push"] # <<>> => Cardinality(C) + 1 <= Cardinality(C')
    <3> SUFFICES ASSUME low, k.wait["push"] # <<>>
                 PROVE  Cardinality(C) + 1 <= Cardinality(C')
      OBVIOUS
    <3>1. PICK y \in X : TRUE
      BY <1>1
    <3>2. y \in Thread /\ y \notin C /\ C \cup {y} \subseteq C'
      BY <2>2, <2>3, <2>5, <3>1
    <3> QED BY <2>1, <3>2, CountComers
  <2>8. \/ k'.wait["push"] = <<>> \/ QueueLen(q') > Lwm
        \/ Lwm + 1 - QueueLen(q') <= Cardinality(C')
        \/ \E u \in Thread : pc'[u] \in Resetting
    <3>1. CASE k.wait["push"] = <<>> \/ \E u \in Thread : pc[u] \in Resetting
      BY <1>4, <2>2, <3>1
    <3>2. CASE ~low
      BY <1>0, <1>2, <1>3, <3>2
    <3>3. CASE /\ low /\ k.wait["push"] # <<>>
               /\ QueueLen(q) > Lwm \/ Lwm + 1 - QueueLen(q) <= Cardinality(C)
      BY <1>0, <1>2, <2>6, <2>7, <3>3
    <3> QED BY <2>4, <3>1, <3>2, <3>3
  <2> QED BY <2>8 DEF PushesWoken, C
<1>7. PopsWoken'
  <2> DEFINE C == Coming("pop", "popping")
  <2>1. C \in SUBSET Thread /\ C' \in SUBSET Thread
    BY DEF Coming
  <2>2. /\ \A u \in C : u \in {t} \/ u \in X \/ u \in C'
        /\ k.wait["pop"] = <<>> => k'.wait["pop"] = <<>>
    <3> HIDE DEF C
    <3>1. "pop" \in {"pop", "push"}
      OBVIOUS
    <3> QED BY <1>4, <1>5, <3>1, ComingMoves DEF C
  <2>3. \A y \in X : y \notin C
    BY <1>1, OpFacts DEF Coming, OpOK
  <2>4. k.wait["pop"] = <<>> \/ QueueLen(q) <= Cardinality(C)
    BY DEF QueueKept, PopsWoken
  <2> HIDE DEF C
  <2>5. C \ {t} \subseteq C'
    BY <2>2, <2>3
  <2>6. /\ Cardinality(C) - 1 <= Cardinality(C') /\ Cardinality(C) \in Nat
        /\ Cardinality(C') \in Nat
    BY <2>1, <2>5, CountComers
  <2>7. k'.wait["pop"] = <<>> \/ QueueLen(q') <= Cardinality(C')
    BY <1>0, <1>2, <2>2, <2>4, <2>6
  <2> QED BY <2>7 DEF PopsWoken, C
<1>8. Queue!Pop(t)
  <2>1. DataCall(t)' = Queue!Popped(x)
    BY <1>4 DEF DataCall, Op, Queue!Popped
  <2>2. DataCall(t) \in {Queue!None, Queue!Popping}
    <3>1. CASE pc[t] = "run"
      <4>1. op[t] = Idles
        BY <3>1, OpFacts DEF OpOK, DataPC
      <4>2. DataCall(t) = Queue!None
        BY <4>1 DEF DataCall, Idles, Op, Queue!None
      <4> QED BY <4>2
    <3>2. CASE pc[t] = "queue_woken"
      <4>1. DataCall(t) = Queue!Popping
        BY <3>2 DEF DataCall, Queue!Popping
      <4> QED BY <4>1
    <3> QED BY <3>1, <3>2
  <2>3. Queue!Become(t, Queue!Popped(x))
    BY <1>4, <2>1, OneDataCall DEF Queue!Become
  <2>4. [u \in Thread |-> DataCall(u)][t] \in {Queue!None, Queue!Popping}
    BY <2>2
  <2>5. Items' = InQueue(q')
    BY DEF Items, InQueue
  <2>6. Queue!Remove /\ x = Head(Items)
    BY <1>0, <1>2, <2>5 DEF Queue!Remove
  <2>7. Queue!Become(t, Queue!Popped(Head(Items)))
    BY <2>3, <2>6
  <2> QED BY <2>4, <2>6, <2>7 DEF Queue!Pop
<1>9. QueueTypeOK' /\ Shaped(q)'
  BY <1>2, <1>4 DEF Shaped
<1> QED BY <1>4, <1>6, <1>7, <1>8, <1>9 DEF QueueGoes, QueueKept, QueueGoesOn, Queue!Next

\* Only t moves, the array stays as it is, and the threads of X, which wait,
\* are told something.
LEMMA StayWoken ==
  ASSUME QueueKept, NEW t \in Thread, NEW X \in SUBSET Thread, q' = q,
         \A u \in Thread \ {t} : pc'[u] = pc[u] /\ op'[u] = op[u],
         \A u \in Thread \ {t}, w \in {"pop", "push"} :
            Contains(k'.wait[w], u) => Waits(u, w),
         \A u \in Thread \ {t} : u \notin X =>
            /\ k'.error[u] = k.error[u]
            /\ \A w \in {"pop", "push"} : Contains(k'.wait[w], u) <=> Waits(u, w),
         \A x \in X : Waits(x, "pop") \/ Waits(x, "push"),
         \/ q.empty
         \/ /\ k.wait["pop"] = <<>> => k'.wait["pop"] = <<>>
            /\ t \in Coming("pop", "popping") => t \in Coming("pop", "popping")',
         \/ q.full \/ k'.wait["push"] = <<>> \/ pc'[t] \in Resetting
         \/ /\ k.wait["push"] = <<>> => k'.wait["push"] = <<>>
            /\ t \in Coming("push", "pushing") => t \in Coming("push", "pushing")'
            /\ pc[t] \notin Resetting
  PROVE  /\ PopsWoken' /\ PushesWoken' /\ Shaped(q)' /\ Items' = Items
         /\ \A u \in Thread \ {t} : OpOK(u)'
<1> DEFINE P == Coming("pop", "popping")
           W == Coming("push", "pushing")
<1>0. /\ QueueLen(q) \in 0 .. Size /\ Size \in Nat /\ Lwm \in Nat /\ Lwm < Size
      /\ q.empty <=> QueueLen(q) = 0
      /\ q.full <=> QueueLen(q) = Size
  BY QueueFacts
<1>1. \A x \in X : x \notin P /\ x \notin W
  BY OpFacts DEF Coming, OnItsWay, OpOK
<1>2. P \ {t} \subseteq P' /\ W \ {t} \subseteq W'
  BY <1>1 DEF Coming, OnItsWay, Waits
<1>3. /\ P \in SUBSET Thread /\ P' \in SUBSET Thread
      /\ W \in SUBSET Thread /\ W' \in SUBSET Thread
  BY DEF Coming
<1>4. /\ k.wait["pop"] = <<>> \/ QueueLen(q) <= Cardinality(P)
      /\ \/ k.wait["push"] = <<>> \/ QueueLen(q) > Lwm
         \/ Lwm + 1 - QueueLen(q) <= Cardinality(W)
         \/ \E u \in Thread : pc[u] \in Resetting
  BY DEF QueueKept, PopsWoken, PushesWoken
<1> HIDE DEF P, W
<1>5. /\ Cardinality(P) \in Nat /\ Cardinality(P') \in Nat
      /\ P \subseteq P' => Cardinality(P) <= Cardinality(P')
  BY <1>3, CountComers
<1>6. /\ Cardinality(W) \in Nat /\ Cardinality(W') \in Nat
      /\ W \subseteq W' => Cardinality(W) <= Cardinality(W')
  BY <1>3, CountComers
<1>7. k'.wait["pop"] = <<>> \/ QueueLen(q) <= Cardinality(P')
  <2>1. CASE q.empty
    BY <1>0, <1>5, <2>1
  <2>2. CASE ~q.empty
    <3>1. /\ k.wait["pop"] = <<>> => k'.wait["pop"] = <<>>
          /\ P \subseteq P'
      BY <1>2, <2>2 DEF P
    <3>2. Cardinality(P) <= Cardinality(P')
      BY <1>5, <3>1
    <3> QED BY <1>0, <1>4, <1>5, <3>1, <3>2
  <2> QED BY <2>1, <2>2
<1>8. \/ k'.wait["push"] = <<>> \/ QueueLen(q) > Lwm
      \/ Lwm + 1 - QueueLen(q) <= Cardinality(W')
      \/ \E u \in Thread : pc'[u] \in Resetting
  <2>1. CASE q.full
    BY <1>0, <2>1
  <2>2. CASE k'.wait["push"] = <<>> \/ pc'[t] \in Resetting
    BY <2>2
  <2>3. CASE /\ k.wait["push"] = <<>> => k'.wait["push"] = <<>>
             /\ t \in W => t \in W'
             /\ pc[t] \notin Resetting
    <3>1. W \subseteq W'
      BY <1>2, <2>3
    <3>2. Cardinality(W) <= Cardinality(W')
      BY <1>6, <3>1
    <3>3. CASE \E u \in Thread : pc[u] \in Resetting
      BY <2>3, <3>3
    <3>4. CASE k.wait["push"] = <<>> \/ QueueLen(q) > Lwm
      BY <2>3, <3>4
    <3>5. CASE Lwm + 1 - QueueLen(q) <= Cardinality(W)
      BY <1>0, <1>6, <3>2, <3>5
    <3> QED BY <1>4, <3>3, <3>4, <3>5
  <2> QED BY <2>1, <2>2, <2>3 DEF W
<1>9. PopsWoken' /\ PushesWoken'
  BY <1>7, <1>8 DEF PopsWoken, PushesWoken, P, W
<1>10. Shaped(q)' /\ Items' = Items
  BY DEF QueueKept, Shaped, Items
<1>11. \A u \in Thread \ {t} : OpOK(u)'
  BY OpsStay
<1> QED BY <1>9, <1>10, <1>11

\* A call that finds the queue full or empty, or that has been turned away,
\* fails.
LEMMA RefusedStep ==
  ASSUME QueueKept, LeftOK, NEW t \in Thread, Executes(t), t # Idle,
         pc[t] \in {"run", "queue_woken"}, Refused(t), isr' = isr, live' = live,
         pc[t] = "run" => q.full \/ q.empty,
         pc[t] = "queue_woken" /\ k.error[t] = "EOK" =>
            IF op[t].at = "pushing" THEN q.full ELSE q.empty
  PROVE  QueueGoes
<1>0. KInv /\ NoUart /\ "pop" \in WaitList /\ "push" \in WaitList
  BY QueueFacts
<1>1. /\ k' = k /\ q' = q /\ op' = [op EXCEPT ![t] = Op("refused", NoItem)]
      /\ left' = [left EXCEPT ![t] = 0] /\ Goto(t, "queue_return")
  BY DEF Refused
<1>2. Released(k', k, {}, "EOK")
  <2>1. Released(k, k, {}, "EOK")
    BY <1>0, KInvFacts, NothingReleased
  <2> QED BY <1>1, <2>1
<1>3. KInv' /\ NoUart' /\ Foot(QueuePC)
  <2>1. /\ pc[t] \in Plain /\ "queue_return" \in Plain /\ pc[t] \in Points(QueuePC)
        /\ "queue_return" \in Points(QueuePC)
    BY DEF Plain, Points, ServicesPC, PC, QueuePC, Blocking, Locked
  <2>2. /\ "EOK" \in {"EOK", "ETIMEOUT", "ERROR"} /\ live' \subseteq live
        /\ "queue_return" # "recv_return"
        /\ \A x \in Thread : x \in {} => x = t \/ pc[x] \in Points(QueuePC)
    OBVIOUS
  <2>3. /\ "EOK" \in {"EOK", "ETIMEOUT", "ERROR"} /\ pc[t] \in Plain
        /\ pc[t] \in Points(QueuePC) /\ "queue_return" \in Plain
        /\ "queue_return" \in Points(QueuePC)
        /\ ("queue_return" = "recv_return" => t \in {})
        /\ \A x \in Thread : x \in {} => x = t \/ pc[x] \in Points(QueuePC)
    BY <2>1, <2>2
  <2>4. /\ KInv /\ NoUart /\ Executes(t) /\ t # Idle
        /\ Released(k', k, {}, "EOK") /\ Goto(t, "queue_return")
        /\ isr' = isr /\ live' \subseteq live
    BY <1>0, <1>1, <1>2, <2>2
  <2> QED BY <2>3, <2>4, GoOn, SMTT(60)
<1>4. pc'[t] = "queue_return" /\ \A u \in Thread \ {t} : pc'[u] = pc[u]
  BY <1>0, <1>1, KInvFacts DEF Goto
<1>5. LeftOK'
  <2>1. 0 \in 0 .. TickHalf - 1
    BY TickHalfFacts DEF TickHalf
  <2> QED BY <1>1, <2>1 DEF LeftOK
<1>6. /\ op'[t] = Op("refused", NoItem) /\ \A u \in Thread \ {t} : op'[u] = op[u]
      /\ QueueTypeOK'
  <2>1. Op("refused", NoItem)
          \in [at : {"none", "pushing", "popping", "pushed", "popped", "refused"},
               item : Item \cup {NoItem}]
    BY DEF Op
  <2> QED BY <1>1, <2>1, OpFacts DEF QueueKept, QueueTypeOK
<1>7. ~Waits(t, "pop") /\ ~Waits(t, "push")
  BY <1>0, ExecutingRuns DEF Blocking
<1>8. OpOK(t)'
  BY <1>1, <1>4, <1>6, <1>7 DEF OpOK, Op, DataPC, Waits
<1>9. /\ t \in Coming("pop", "popping") => q.empty
      /\ t \in Coming("push", "pushing") => q.full
      /\ pc[t] \notin Resetting
  BY DEF Coming, OnItsWay, Resetting
<1>10. /\ PopsWoken' /\ PushesWoken' /\ Shaped(q)' /\ Items' = Items
       /\ \A u \in Thread \ {t} : OpOK(u)'
  <2>1. /\ {} \in SUBSET Thread
        /\ \A u \in Thread \ {t} : pc'[u] = pc[u] /\ op'[u] = op[u]
    BY <1>4, <1>6
  <2>2. /\ \A u \in Thread \ {t}, w \in {"pop", "push"} :
             Contains(k'.wait[w], u) => Waits(u, w)
        /\ \A u \in Thread \ {t} : u \notin {} =>
             /\ k'.error[u] = k.error[u]
             /\ \A w \in {"pop", "push"} : Contains(k'.wait[w], u) <=> Waits(u, w)
        /\ \A x \in {} : Waits(x, "pop") \/ Waits(x, "push")
    BY <1>1 DEF Waits
  <2>3. /\ k.wait["pop"] = <<>> => k'.wait["pop"] = <<>>
        /\ k.wait["push"] = <<>> => k'.wait["push"] = <<>>
    BY <1>1
  <2> QED BY <1>1, <1>9, <2>1, <2>2, <2>3, StayWoken
<1>11. QueueGoesOn
  <2>1. DataCall(t)' = Queue!Refused
    BY <1>6 DEF DataCall, Op, Queue!Refused
  <2>2. Queue!Become(t, Queue!Refused)
    BY <1>6, <2>1, OneDataCall DEF Queue!Become
  <2>3. DataCall(t).at \in {"pushing", "popping"}
          \/ (DataCall(t) = Queue!None /\ (q.full \/ q.empty))
    <3>1. CASE pc[t] = "run"
      <4>1. op[t] = Idles
        BY <3>1, OpFacts DEF OpOK, DataPC
      <4>2. DataCall(t) = Queue!None
        BY <4>1 DEF DataCall, Idles, Op, Queue!None
      <4> QED BY <3>1, <4>2
    <3>2. CASE pc[t] = "queue_woken"
      <4>1. op[t].at \in {"pushing", "popping"}
        BY <3>2, OpFacts DEF OpOK
      <4> QED BY <4>1 DEF DataCall
    <3> QED BY <3>1, <3>2
  <2>4. (q.full => Queue!Full) /\ (q.empty => Items = <<>>)
    BY QueueFacts DEF Queue!Full
  <2>5. LET call == [u \in Thread |-> DataCall(u)]
        IN  \/ call[t].at \in {"pushing", "popping"}
            \/ call[t] = Queue!None /\ (Queue!Full \/ Items = <<>>)
    BY <2>3, <2>4
  <2>6. Queue!Refuse(t)
    BY <1>10, <2>2, <2>5 DEF Queue!Refuse
  <2> QED BY <2>6 DEF QueueGoesOn, Queue!Next
<1> QED BY <1>3, <1>5, <1>6, <1>8, <1>10, <1>11 DEF QueueGoes, QueueKept

\* A writer finds the queue full, or a reader finds it empty, and waits: for
\* the first time, or once more after it has been woken.
LEMMA AwaitStep ==
  ASSUME QueueKept, LeftOK, NEW t \in Thread, Executes(t), t # Idle,
         pc[t] \in {"run", "queue_woken"}, NEW w, NEW doing, NEW x,
         NEW timeout \in {Forever} \cup 0 .. TickHalf - 1,
         Await(t, w, doing, x, timeout), isr' = isr, live' = live,
         \/ /\ w = "push" /\ doing = "pushing" /\ x \in Item /\ q.full
            /\ pc[t] = "queue_woken" => op[t] = Op("pushing", x)
         \/ /\ w = "pop" /\ doing = "popping" /\ x = NoItem /\ q.empty
            /\ pc[t] = "queue_woken" => op[t].at = "popping"
  PROVE  QueueGoes
<1>0. /\ KInv /\ NoUart /\ "pop" \in WaitList /\ "push" \in WaitList
      /\ w \in WaitList /\ Untold(w) = "EOK" /\ ~(q.full /\ q.empty)
      /\ Places(w) = {"queue_wait", "queue_woken"} /\ Shaped(q)
  BY QueueFacts DEF Shaped
<1>1. /\ k' = AwaitLast(k, w, t, timeout) /\ op' = [op EXCEPT ![t] = Op(doing, x)]
      /\ left' = [left EXCEPT ![t] = timeout] /\ Goto(t, "queue_wait") /\ q' = q
  BY DEF Await
<1>2. /\ pc[t] \in Plain /\ pc[t] \in Points(QueuePC) /\ pc[t] \notin Blocking
      /\ "queue_wait" \in Blocking /\ "queue_wait" \in Places(w)
      /\ "queue_wait" \in Points(QueuePC) /\ live' \subseteq live
  BY <1>0 DEF Plain, Points, ServicesPC, PC, QueuePC, Blocking, Locked
<1>3. Blocked(k', k, w, t, Untold(w)) /\ \A v \in WaitList : ~Waits(t, v)
  <2>1. /\ k.stat[t] \in {"READY", "RUNNING"} /\ Sound(k, {})
        /\ \A v \in WaitList : ~Waits(t, v)
    BY <1>0, <1>2, ExecutingRuns, KInvFacts
  <2>2. timeout \in Int
    BY TickHalfFacts DEF Forever
  <2>3. Blocked(AwaitLast(k, w, t, timeout), k, w, t, "EOK")
    BY <1>0, <2>1, <2>2, AwaitSound
  <2> QED BY <1>0, <1>1, <2>1, <2>3
<1>4. KInv' /\ NoUart' /\ Foot(QueuePC)
  BY <1>0, <1>1, <1>2, <1>3, BlockOn
<1>5. pc'[t] = "queue_wait" /\ \A u \in Thread \ {t} : pc'[u] = pc[u]
  BY <1>0, <1>1, KInvFacts DEF Goto
<1>6. LeftOK'
  BY <1>1 DEF LeftOK
<1>7. /\ op'[t] = Op(doing, x) /\ \A u \in Thread \ {t} : op'[u] = op[u]
      /\ QueueTypeOK'
  <2>1. Op(doing, x)
          \in [at : {"none", "pushing", "popping", "pushed", "popped", "refused"},
               item : Item \cup {NoItem}]
    BY DEF Op
  <2> QED BY <1>1, <2>1, OpFacts DEF QueueKept, QueueTypeOK
<1>8. /\ \A u \in Thread : k'.error[u] = IF u = t THEN "EOK" ELSE k.error[u]
      /\ \A v \in {"pop", "push"}, u \in Thread :
            Contains(k'.wait[v], u) <=> Waits(u, v) \/ (v = w /\ u = t)
  BY <1>0, <1>3 DEF Blocked, Told, OnWait, Waits
<1>9. OpOK(t)'
  <2>1. /\ op'[t].at = doing /\ op'[t].item = x /\ pc'[t] = "queue_wait"
        /\ Contains(k'.wait["pop"], t) => w = "pop"
        /\ Contains(k'.wait["push"], t) => w = "push"
    BY <1>0, <1>3, <1>5, <1>7, <1>8 DEF Op
  <2>2. "queue_wait" \in DataPC /\ "queue_wait" \notin {"queue_sched", "queue_return"}
    BY DEF DataPC
  <2> QED BY <2>1, <2>2 DEF OpOK, Waits
<1>10. /\ PopsWoken' /\ PushesWoken' /\ Shaped(q)' /\ Items' = Items
       /\ \A u \in Thread \ {t} : OpOK(u)'
  <2>1. /\ {} \in SUBSET Thread /\ q' = q
        /\ \A u \in Thread \ {t} : pc'[u] = pc[u] /\ op'[u] = op[u]
    BY <1>1, <1>5, <1>7
  <2>2. /\ \A u \in Thread \ {t}, v \in {"pop", "push"} :
             Contains(k'.wait[v], u) => Waits(u, v)
        /\ \A u \in Thread \ {t} : u \notin {} =>
             /\ k'.error[u] = k.error[u]
             /\ \A v \in {"pop", "push"} : Contains(k'.wait[v], u) <=> Waits(u, v)
        /\ \A y \in {} : Waits(y, "pop") \/ Waits(y, "push")
    BY <1>8
  <2>3. ASSUME NEW v \in {"pop", "push"}, v # w
        PROVE  k.wait[v] = <<>> => k'.wait[v] = <<>>
    <3>1. \A u \in Thread : Contains(k'.wait[v], u) => Waits(u, v)
      BY <1>8, <2>3
    <3> QED BY <1>0, <1>4, <3>1, NoNewWaiter
  <2>4. \/ q.empty
        \/ /\ k.wait["pop"] = <<>> => k'.wait["pop"] = <<>>
           /\ t \in Coming("pop", "popping") => t \in Coming("pop", "popping")'
    <3>1. CASE w = "pop"
      BY <3>1
    <3>2. CASE w = "push"
      <4>1. t \notin Coming("pop", "popping")
        BY <3>2 DEF Coming, OnItsWay, Op
      <4> QED BY <2>3, <3>2, <4>1
    <3> QED BY <3>1, <3>2
  <2>5. \/ q.full \/ k'.wait["push"] = <<>> \/ pc'[t] \in Resetting
        \/ /\ k.wait["push"] = <<>> => k'.wait["push"] = <<>>
           /\ t \in Coming("push", "pushing") => t \in Coming("push", "pushing")'
           /\ pc[t] \notin Resetting
    <3>1. CASE w = "push"
      BY <3>1
    <3>2. CASE w = "pop"
      <4>1. t \notin Coming("push", "pushing") /\ pc[t] \notin Resetting
        BY <3>2 DEF Coming, OnItsWay, Resetting
      <4> QED BY <2>3, <3>2, <4>1
    <3> QED BY <3>1, <3>2
  <2> QED BY <2>1, <2>2, <2>4, <2>5, StayWoken
<1>11. QueueGoesOn
  <2> DEFINE c == IF w = "push" THEN Queue!Pushing(x) ELSE Queue!Popping
  <2>1. DataCall(t)' = c
    BY <1>7 DEF DataCall, Op, Queue!Popping, Queue!Pushing
  <2>2. Queue!Become(t, c)
    <3> HIDE DEF c
    <3> QED BY <1>7, <2>1, OneDataCall DEF Queue!Become
  <2>3. CASE pc[t] = "run"
    <3>1. op[t] = Idles
      BY <2>3, OpFacts DEF OpOK, DataPC
    <3>2. DataCall(t) = Queue!None
      BY <3>1 DEF DataCall, Idles, Op, Queue!None
    <3>3. [u \in Thread |-> DataCall(u)][t] = Queue!None
      BY <3>2
    <3>4. (q.full => Queue!Full) /\ (q.empty => Items = <<>>)
      BY QueueFacts DEF Queue!Full
    <3>5. \/ Queue!Full /\ \E y \in Item : Queue!Become(t, Queue!Pushing(y))
          \/ Items = <<>> /\ Queue!Become(t, Queue!Popping)
      BY <2>2, <3>4
    <3>6. Queue!Wait(t)
      BY <1>10, <3>3, <3>5 DEF Queue!Wait
    <3> QED BY <3>6 DEF QueueGoesOn, Queue!Next
  <2>4. CASE pc[t] = "queue_woken"
    <3>1. DataCall(t) = c
      BY <2>4 DEF DataCall, Op, Queue!Popping, Queue!Pushing
    <3> HIDE DEF c
    <3>2. \A u \in Thread : DataCall(u)' = DataCall(u)
      BY <1>7, <2>1, <3>1 DEF DataCall
    <3>3. UNCHANGED <<Items, [u \in Thread |-> DataCall(u)]>>
      BY <1>10, <3>2
    <3> QED BY <3>3 DEF QueueGoesOn
  <2> QED BY <2>3, <2>4
<1> QED BY <1>4, <1>6, <1>7, <1>9, <1>10, <1>11 DEF QueueGoes, QueueKept

\* The part of rt_data_queue_push with interrupts disabled.
LEMMA TryPushStep ==
  ASSUME QueueKept, LeftOK, NEW t \in Thread, Executes(t), t # Idle,
         pc[t] \in {"run", "queue_woken"}, NEW x \in Item,
         NEW timeout \in {Forever} \cup 0 .. TickHalf - 1,
         pc[t] = "queue_woken" => op[t] = Op("pushing", x),
         TryPush(t, x, timeout), isr' = isr, live' = live
  PROVE  QueueGoes
<1>1. CASE /\ ~q.full
           /\ q' = Enter(q, x)
           /\ Through(t, "pushed", x, ResumeFirst(k, "pop"))
  BY <1>1, PushedStep
<1>2. CASE q.full /\ timeout = NoWait /\ Refused(t)
  <2>1. pc[t] = "queue_woken" => op[t].at = "pushing"
    BY DEF Op
  <2> QED BY <1>2, <2>1, RefusedStep
<1>3. CASE q.full /\ timeout # NoWait /\ Await(t, "push", "pushing", x, timeout)
  BY <1>3, AwaitStep
<1> QED BY <1>1, <1>2, <1>3 DEF TryPush

\* The part of rt_data_queue_pop with interrupts disabled.
LEMMA TryPopStep ==
  ASSUME QueueKept, LeftOK, NEW t \in Thread, Executes(t), t # Idle,
         pc[t] \in {"run", "queue_woken"},
         NEW timeout \in {Forever} \cup 0 .. TickHalf - 1,
         pc[t] = "queue_woken" => op[t].at = "popping",
         TryPop(t, timeout), isr' = isr, live' = live
  PROVE  QueueGoes
<1>1. CASE /\ ~q.empty
           /\ q' = Leave(q)
           /\ Through(t, "popped", q.slot[q.get], WakePusher(k, Leave(q)))
  BY <1>1, PoppedStep
<1>2. CASE q.empty /\ timeout = NoWait /\ Refused(t)
  BY <1>2, RefusedStep
<1>3. CASE q.empty /\ timeout # NoWait /\ Await(t, "pop", "popping", NoItem, timeout)
  BY <1>3, AwaitStep
<1> QED BY <1>1, <1>2, <1>3 DEF TryPop

\* The timeouts that calls are given.
LEMMA RetriedTyped ==
  ASSUME NEW t \in Thread, NEW timeout \in Retried[t]
  PROVE  timeout \in {Forever} \cup 0 .. TickHalf - 1
<1>1. timeout \in {Forever, NoWait} \cup 1 .. TickHalf - 1
  BY WaitingAssumption
<1>2. 0 \in 0 .. TickHalf - 1 /\ TickHalf \in Nat
  BY TickHalfFacts DEF TickHalf
<1> QED BY <1>1, <1>2 DEF NoWait

\* rt_data_queue_push and rt_data_queue_pop begin.
LEMMA PushPopStep ==
  ASSUME QueueKept, LeftOK, NEW t \in Thread, Push(t) \/ Pop(t)
  PROVE  QueueGoes
<1>1. /\ Executes(t) /\ t # Idle /\ pc[t] = "run" /\ isr' = isr /\ live' = live
      /\ pc[t] # "queue_woken"
  BY DEF Push, Pop, Calls, At
<1>2. CASE Push(t)
  <2>1. PICK x \in ByThread, timeout \in Retried[t] : TryPush(t, x, timeout)
    BY <1>2 DEF Push
  <2>2. timeout \in {Forever} \cup 0 .. TickHalf - 1
    BY RetriedTyped
  <2>3. x \in Item
    BY DEF Item
  <2> QED BY <1>1, <2>1, <2>2, <2>3, TryPushStep
<1>3. CASE Pop(t)
  <2>1. PICK timeout \in Retried[t] : TryPop(t, timeout)
    BY <1>3 DEF Pop
  <2>2. timeout \in {Forever} \cup 0 .. TickHalf - 1
    BY RetriedTyped
  <2> QED BY <1>1, <2>1, <2>2, TryPopStep
<1> QED BY <1>2, <1>3

\* The thread runs again: it has failed, or tests the queue once more.
LEMMA QueueWokenStep ==
  ASSUME QueueKept, LeftOK, NEW t \in Thread, QueueWoken(t)
  PROVE  QueueGoes
<1>1. /\ Executes(t) /\ pc[t] = "queue_woken" /\ isr' = isr /\ live' = live
      /\ pc[t] # "run"
  BY DEF QueueWoken, At
<1>2. t # Idle /\ left[t] \in {Forever} \cup 0 .. TickHalf - 1
  BY <1>1, QueueFacts DEF KInv, ControlOK, LeftOK
<1>3. /\ op[t].at \in {"pushing", "popping"} /\ op[t] = Op(op[t].at, op[t].item)
      /\ op[t].at = "pushing" => op[t].item \in Item
  BY <1>1, OpFacts DEF OpOK
<1>4. CASE k.error[t] # "EOK"
  <2>1. Refused(t)
    BY <1>4 DEF QueueWoken
  <2> QED BY <1>1, <1>2, <1>4, <2>1, RefusedStep
<1>5. CASE k.error[t] = "EOK" /\ op[t].at = "pushing"
  <2>1. TryPush(t, op[t].item, left[t])
    BY <1>5 DEF QueueWoken
  <2>2. op[t].item \in Item /\ op[t] = Op("pushing", op[t].item)
    BY <1>3, <1>5
  <2> QED BY <1>1, <1>2, <2>1, <2>2, TryPushStep
<1>6. CASE k.error[t] = "EOK" /\ op[t].at # "pushing"
  <2>1. TryPop(t, left[t])
    BY <1>6 DEF QueueWoken
  <2>2. op[t].at = "popping"
    BY <1>3, <1>6
  <2> QED BY <1>1, <1>2, <2>1, <2>2, TryPopStep
<1> QED BY <1>4, <1>5, <1>6

\* A step inside of a call that leaves the array and the requests alone: only t
\* moves, from one point of the queue's functions to another.
LEMMA QueueMoves ==
  ASSUME QueueKept, LeftOK, NEW t \in Thread, NEW b, NEW c, NEW X \in SUBSET Thread,
         KInv', NoUart', Foot(QueuePC), UNCHANGED <<left, qvars>>,
         pc[t] = b, pc'[t] = c, \A u \in Thread : u # t => pc'[u] = pc[u],
         \A w \in WaitList, u \in Thread :
            Contains(k'.wait[w], u) <=> Contains(k.wait[w], u) /\ u \notin X,
         \A u \in Thread : u \notin X => k'.error[u] = k.error[u],
         \A x \in X : Waits(x, "pop") \/ Waits(x, "push"),
         \/ b = "queue_wait" /\ c = "queue_woken" /\ t \notin X
         \/ b = "queue_sched" /\ c = "queue_return"
         \/ b \notin DataPC /\ c \notin DataPC,
         b \in Resetting => c \in Resetting \/ k'.wait["push"] = <<>>
  PROVE  QueueGoes
<1>0. /\ KInv /\ NoUart /\ "pop" \in WaitList /\ "push" \in WaitList
      /\ q' = q /\ op' = op /\ left' = left
  BY QueueFacts DEF qvars
<1>1. /\ k.wait["pop"] = <<>> => k'.wait["pop"] = <<>>
      /\ k.wait["push"] = <<>> => k'.wait["push"] = <<>>
  <2>1. \A w \in WaitList, u \in Thread : Contains(k'.wait[w], u) => Waits(u, w)
    BY DEF Waits
  <2>2. k.wait["pop"] = <<>> => k'.wait["pop"] = <<>>
    BY <1>0, <2>1, NoNewWaiter
  <2>3. k.wait["push"] = <<>> => k'.wait["push"] = <<>>
    BY <1>0, <2>1, NoNewWaiter
  <2> QED BY <2>2, <2>3
<1>2. /\ t \in Coming("pop", "popping") => t \in Coming("pop", "popping")'
      /\ t \in Coming("push", "pushing") => t \in Coming("push", "pushing")'
  <2>1. CASE b = "queue_wait" /\ c = "queue_woken" /\ t \notin X
    BY <1>0, <2>1 DEF Coming, OnItsWay, Waits
  <2>2. CASE b \notin {"queue_wait", "queue_woken"}
    BY <2>2 DEF Coming, OnItsWay
  <2> QED BY <2>1, <2>2 DEF DataPC
<1>3. /\ PopsWoken' /\ PushesWoken' /\ Shaped(q)' /\ Items' = Items
      /\ \A u \in Thread \ {t} : OpOK(u)'
  <2>1. \A u \in Thread \ {t} : pc'[u] = pc[u] /\ op'[u] = op[u]
    BY <1>0
  <2>2. /\ \A u \in Thread \ {t}, w \in {"pop", "push"} :
             Contains(k'.wait[w], u) => Waits(u, w)
        /\ \A u \in Thread \ {t} : u \notin X =>
             /\ k'.error[u] = k.error[u]
             /\ \A w \in {"pop", "push"} : Contains(k'.wait[w], u) <=> Waits(u, w)
    BY <1>0 DEF Waits
  <2>3. \/ q.full \/ k'.wait["push"] = <<>> \/ pc'[t] \in Resetting
        \/ /\ k.wait["push"] = <<>> => k'.wait["push"] = <<>>
           /\ t \in Coming("push", "pushing") => t \in Coming("push", "pushing")'
           /\ pc[t] \notin Resetting
    BY <1>1, <1>2
  <2>4. q' = q
    BY <1>0
  <2> QED BY <1>1, <1>2, <2>1, <2>2, <2>3, <2>4, StayWoken
<1>4. OpOK(t)'
  <2>1. OpOK(t)
    BY OpFacts
  <2>2. /\ Contains(k'.wait["pop"], t) => Waits(t, "pop")
        /\ Contains(k'.wait["push"], t) => Waits(t, "push")
    BY <1>0 DEF Waits
  <2> QED BY <1>0, <2>1, <2>2 DEF OpOK, DataPC, Waits
<1>5. QueueTypeOK' /\ LeftOK'
  BY <1>0 DEF QueueKept, QueueTypeOK, LeftOK
<1>6. QueueGoesOn
  BY <1>0, <1>3, SameDataCalls DEF QueueGoesOn
<1> QED BY <1>3, <1>4, <1>5, <1>6 DEF QueueGoes, QueueKept

\* rt_schedule in the middle of a call.
LEMMA QueueScheduleStep ==
  ASSUME QueueKept, LeftOK, NEW t \in Thread, QueueSchedule(t)
  PROVE  QueueGoes
<1>0. KInv /\ NoUart
  BY QueueFacts
<1>1. isr' = isr /\ k' = Schedule(k) /\ live' = live /\ UNCHANGED <<left, qvars>>
  BY DEF QueueSchedule, ScheduleIn, wvars
<1>2. ASSUME NEW b, NEW c, At(t, b), Goto(t, c), KInv', NoUart', Foot(QueuePC),
             Released(k', k, {}, "EOK"),
             \/ b = "queue_wait" /\ c = "queue_woken"
             \/ b = "queue_sched" /\ c = "queue_return"
      PROVE  QueueGoes
  <2>1. pc[t] = b /\ pc'[t] = c /\ \A u \in Thread : u # t => pc'[u] = pc[u]
    BY <1>0, <1>2, KInvFacts DEF Goto, At
  <2>2. /\ \A w \in WaitList, u \in Thread :
             Contains(k'.wait[w], u) <=> Contains(k.wait[w], u) /\ u \notin {}
        /\ \A u \in Thread : u \notin {} => k'.error[u] = k.error[u]
        /\ \A x \in {} : Waits(x, "pop") \/ Waits(x, "push")
        /\ {} \in SUBSET Thread /\ t \notin {}
    BY <1>2 DEF Released
  <2>3. b \in Resetting => c \in Resetting \/ k'.wait["push"] = <<>>
    BY <1>2 DEF Resetting
  <2> QED BY <1>1, <1>2, <2>1, <2>2, <2>3, QueueMoves
<1>3. CASE ScheduleIn(t, "queue_wait", "queue_woken")
  <2>1. At(t, "queue_wait") /\ Goto(t, "queue_woken")
    BY <1>3 DEF ScheduleIn
  <2>2. /\ "queue_wait" \in Blocking \ {"sleep_mark"}
        /\ "queue_woken" = AfterBlock("queue_wait")
        /\ "queue_wait" \in QueuePC /\ "queue_woken" \in QueuePC
    BY DEF Blocking, AfterBlock, QueuePC
  <2>3. KInv' /\ NoUart' /\ Foot(QueuePC) /\ Released(k', k, {}, "EOK")
    BY <1>0, <1>1, <2>1, <2>2, GiveUp
  <2> QED BY <1>2, <2>1, <2>3
<1>4. CASE ScheduleIn(t, "queue_sched", "queue_return")
  <2>1. /\ At(t, "queue_sched") /\ Goto(t, "queue_return")
        /\ Executes(t) /\ pc[t] = "queue_sched"
    BY <1>4 DEF ScheduleIn, At
  <2>2. Released(k', k, {}, "EOK")
    <3>1. Released(k, k, {}, "EOK")
      BY <1>0, KInvFacts, NothingReleased
    <3> QED BY <1>0, <1>1, <3>1, ThenSchedules
  <2>3. /\ pc[t] \in Plain /\ "queue_return" \in Plain /\ pc[t] \in Points(QueuePC)
        /\ "queue_return" \in Points(QueuePC) /\ t # Idle
    BY <1>0, <2>1 DEF Plain, Points, ServicesPC, PC, QueuePC, Blocking, Locked,
                      KInv, ControlOK
  <2>4. /\ "EOK" \in {"EOK", "ETIMEOUT", "ERROR"} /\ live' \subseteq live
        /\ "queue_return" # "recv_return"
        /\ \A x \in Thread : x \in {} => x = t \/ pc[x] \in Points(QueuePC)
    BY <1>1
  <2>5. KInv' /\ NoUart' /\ Foot(QueuePC)
    BY <1>0, <1>1, <2>1, <2>2, <2>3, <2>4, GoOn
  <2> QED BY <1>2, <2>1, <2>2, <2>5
<1> QED BY <1>3, <1>4 DEF QueueSchedule

\* The call returns.
LEMMA QueueReturnStep ==
  ASSUME QueueKept, LeftOK, NEW t \in Thread, QueueReturn(t)
  PROVE  QueueGoes
<1>0. /\ KInv /\ NoUart /\ "pop" \in WaitList /\ "push" \in WaitList
      /\ At(t, "queue_return") /\ op' = [op EXCEPT ![t] = Idles] /\ Back(t)
      /\ isr' = isr /\ live' = live /\ left' = left /\ q' = q
  BY QueueFacts DEF QueueReturn, wvars
<1>1. Executes(t) /\ pc[t] = "queue_return"
  BY <1>0 DEF At
<1>2. /\ KInv' /\ NoUart' /\ Foot(QueuePC)
      /\ Released(k', k, {t}, "EOK") /\ Goto(t, "run")
  <2>1. pc[t] \in Plain /\ pc[t] \in QueuePC /\ pc[t] # "run"
    BY <1>1 DEF Plain, ServicesPC, QueuePC, Blocking, Locked
  <2> QED BY <1>0, <1>1, <2>1, BackOn
<1>3. pc'[t] = "run" /\ \A u \in Thread \ {t} : pc'[u] = pc[u]
  BY <1>0, <1>2, KInvFacts DEF Goto
<1>4. /\ op'[t] = Idles /\ \A u \in Thread \ {t} : op'[u] = op[u]
      /\ QueueTypeOK'
  <2>1. Idles \in [at : {"none", "pushing", "popping", "pushed", "popped", "refused"},
                   item : Item \cup {NoItem}]
    BY DEF Idles, Op
  <2> QED BY <1>0, <2>1, OpFacts DEF QueueKept, QueueTypeOK
<1>5. \A w \in {"pop", "push"}, u \in Thread :
         Contains(k'.wait[w], u) <=> Waits(u, w) /\ u # t
  BY <1>0, <1>2 DEF Released, Waits
<1>6. OpOK(t)'
  BY <1>3, <1>4, <1>5 DEF OpOK, Idles, Op, DataPC, Waits
<1>7. /\ PopsWoken' /\ PushesWoken' /\ Shaped(q)' /\ Items' = Items
      /\ \A u \in Thread \ {t} : OpOK(u)'
  <2>1. /\ {} \in SUBSET Thread
        /\ \A u \in Thread \ {t} : pc'[u] = pc[u] /\ op'[u] = op[u]
    BY <1>3, <1>4
  <2>2. /\ \A u \in Thread \ {t}, w \in {"pop", "push"} :
             Contains(k'.wait[w], u) => Waits(u, w)
        /\ \A u \in Thread \ {t} : u \notin {} =>
             /\ k'.error[u] = k.error[u]
             /\ \A w \in {"pop", "push"} : Contains(k'.wait[w], u) <=> Waits(u, w)
        /\ \A x \in {} : Waits(x, "pop") \/ Waits(x, "push")
    BY <1>2, <1>5 DEF Released
  <2>3. /\ k.wait["pop"] = <<>> => k'.wait["pop"] = <<>>
        /\ k.wait["push"] = <<>> => k'.wait["push"] = <<>>
    <3>1. k.wait["pop"] = <<>> => k'.wait["pop"] = <<>>
      BY <1>0, <1>2, <1>5, NoNewWaiter
    <3>2. k.wait["push"] = <<>> => k'.wait["push"] = <<>>
      BY <1>0, <1>2, <1>5, NoNewWaiter
    <3> QED BY <3>1, <3>2
  <2>4. /\ t \notin Coming("pop", "popping") /\ t \notin Coming("push", "pushing")
        /\ pc[t] \notin Resetting
    BY <1>1 DEF Coming, OnItsWay, Resetting
  <2> QED BY <1>0, <2>1, <2>2, <2>3, <2>4, StayWoken
<1>8. QueueGoesOn
  <2>1. DataCall(t)' = Queue!None
    BY <1>4 DEF DataCall, Idles, Op, Queue!None
  <2>2. Queue!Become(t, Queue!None)
    BY <1>4, <2>1, OneDataCall DEF Queue!Become
  <2>3. op[t].at \in {"pushed", "popped", "refused"}
    BY <1>1, OpFacts DEF OpOK
  <2>4. [u \in Thread |-> DataCall(u)][t].at \in {"pushed", "popped", "refused"}
    BY <2>3 DEF DataCall
  <2>5. Queue!Return(t)
    BY <1>7, <2>2, <2>4 DEF Queue!Return
  <2> QED BY <2>5 DEF QueueGoesOn, Queue!Next
<1>9. LeftOK'
  BY <1>0 DEF LeftOK
<1> QED BY <1>2, <1>4, <1>6, <1>7, <1>8, <1>9 DEF QueueGoes, QueueKept

\* A handler has released the threads of X, which wait at the other end.
LEMMA HandlerFacts ==
  ASSUME QueueKept, LeftOK, NEW w \in {"pop", "push"}, NEW X \in SUBSET Thread,
         NEW r, Released(r, k, X, "EOK"), \A y \in X : Waits(y, w),
         k' = Scheduled(r), UNCHANGED <<isr, pc, wvars, op>>
  PROVE  /\ KInv' /\ NoUart' /\ Foot(QueuePC) /\ LeftOK'
         /\ Released(k', k, X, "EOK")
         /\ (q' \in QueueState => QueueTypeOK')
         /\ \A u \in Thread : OpOK(u)'
<1>0. /\ KInv /\ NoUart /\ "pop" \in WaitList /\ "push" \in WaitList /\ w \in WaitList
      /\ Places(w) = {"queue_wait", "queue_woken"}
      /\ isr' = isr /\ pc' = pc /\ live' = live /\ left' = left /\ op' = op
  BY QueueFacts DEF wvars
<1>1. Released(k', k, X, "EOK")
  <2>1. Released(Schedule(r), k, X, "EOK")
    BY <1>0, ThenSchedules
  <2> QED BY <2>1 DEF Scheduled
<1>2. KInv' /\ NoUart' /\ Foot(QueuePC)
  <2>1. \A y \in Thread : y \in X => pc[y] \in Points(QueuePC)
    BY <1>0, WaiterPoints DEF Points, QueuePC
  <2>2. "EOK" \in {"EOK", "ETIMEOUT", "ERROR"}
    OBVIOUS
  <2> QED BY <1>0, <1>1, <2>1, <2>2, Handle
<1>3. ASSUME NEW u \in Thread PROVE OpOK(u)'
  <2>1. /\ Contains(k'.wait["pop"], u) => Waits(u, "pop")
        /\ Contains(k'.wait["push"], u) => Waits(u, "push")
    BY <1>0, <1>1 DEF Released, Waits
  <2> QED BY <1>0, <2>1, OpsStay
<1>4. LeftOK' /\ (q' \in QueueState => QueueTypeOK')
  BY <1>0, OpFacts DEF LeftOK, QueueTypeOK, QueueKept
<1> QED BY <1>1, <1>2, <1>3, <1>4

\* A handler pushes an item.
LEMMA IsrPushStep ==
  ASSUME QueueKept, LeftOK, IsrPush
  PROVE  QueueGoes
<1> DEFINE r == ResumeFirst(k, "pop")
           X == IF k.wait["pop"] = <<>> THEN {} ELSE {Head(k.wait["pop"])}
<1>0. /\ KInv /\ NoUart /\ "pop" \in WaitList /\ Shaped(q) /\ Items = InQueue(q)
      /\ QueueLen(q) \in 0 .. Size /\ Size \in Nat /\ Lwm \in Nat /\ Lwm < Size
      /\ Len(Items) = QueueLen(q) /\ Idle \in Thread
  BY QueueFacts, KInvFacts
<1>1. PICK x \in ByIsr : q' = Enter(q, x)
  BY DEF IsrPush
<1>2. x \in Item /\ ~q.full /\ UNCHANGED <<isr, pc, wvars, op>> /\ k' = Scheduled(r)
  BY DEF IsrPush, Item
<1>3. /\ Released(r, k, X, "EOK") /\ (k.wait["pop"] # <<>> => X # {})
      /\ \A y \in X : y \in Thread /\ Waits(y, "pop")
  <2>1. "pop" # "event"
    OBVIOUS
  <2>2. Released(r, k, X, "EOK") /\ \A y \in X : y \in Thread /\ Waits(y, "pop")
    BY <1>0, <2>1, ResumeFirstReleased
  <2>3. k.wait["pop"] # <<>> => X # {}
    OBVIOUS
  <2> QED BY <2>2, <2>3
<1> HIDE DEF r, X
<1>4. /\ KInv' /\ NoUart' /\ Foot(QueuePC) /\ LeftOK'
      /\ Released(k', k, X, "EOK")
      /\ (q' \in QueueState => QueueTypeOK')
      /\ \A u \in Thread : OpOK(u)'
  <2>1. /\ X \in SUBSET Thread /\ "pop" \in {"pop", "push"}
        /\ \A y \in X : Waits(y, "pop")
    BY <1>3
  <2> QED BY <1>2, <1>3, <2>1, HandlerFacts
<1>5. /\ Shaped(q') /\ QueueLen(q') = QueueLen(q) + 1 /\ QueueLen(q) < Size
      /\ InQueue(q') = Append(InQueue(q), x)
  BY <1>0, <1>1, <1>2, EnterFacts
<1>6. /\ X \in SUBSET Thread /\ {} \in SUBSET Thread /\ {} \cap X = {}
      /\ \A u \in Thread \ {} : pc'[u] = pc[u] /\ op'[u] = op[u]
  BY <1>2, <1>3
<1>7. PopsWoken'
  <2> DEFINE C == Coming("pop", "popping")
  <2>1. C \in SUBSET Thread /\ C' \in SUBSET Thread
    BY DEF Coming
  <2>2. /\ \A u \in C : u \in {} \/ u \in X \/ u \in C'
        /\ \A y \in X : Waits(y, "pop") => y \notin C
        /\ "EOK" = "EOK" => \A y \in X : Waits(y, "pop") /\ op[y].at = "popping" =>
                                           y \in C'
        /\ k.wait["pop"] = <<>> => k'.wait["pop"] = <<>>
    <3> HIDE DEF C
    <3>1. "pop" \in {"pop", "push"}
      OBVIOUS
    <3> QED BY <1>4, <1>6, <3>1, ComingMoves DEF C
  <2>3. k.wait["pop"] = <<>> \/ QueueLen(q) <= Cardinality(C)
    BY DEF QueueKept, PopsWoken
  <2>4. \A y \in X : y \in Thread /\ y \notin C /\ y \in C'
    BY <1>3, <2>2, OpFacts DEF OpOK
  <2> HIDE DEF C
  <2>5. CASE k.wait["pop"] = <<>>
    BY <2>2, <2>5 DEF PopsWoken
  <2>6. CASE k.wait["pop"] # <<>>
    <3>1. PICK y \in X : TRUE
      BY <1>3, <2>6
    <3>2. y \in Thread /\ y \notin C /\ C \cup {y} \subseteq C'
      BY <2>2, <2>4, <3>1
    <3>3. /\ Cardinality(C) + 1 <= Cardinality(C') /\ Cardinality(C) \in Nat
          /\ Cardinality(C') \in Nat
      BY <2>1, <3>2, CountComers
    <3>4. QueueLen(q') <= Cardinality(C')
      BY <1>0, <1>5, <2>3, <2>6, <3>3
    <3> QED BY <3>4 DEF PopsWoken, C
  <2> QED BY <2>5, <2>6
<1>8. PushesWoken'
  <2> DEFINE C == Coming("push", "pushing")
  <2>1. C \in SUBSET Thread /\ C' \in SUBSET Thread
    BY DEF Coming
  <2>2. /\ \A u \in C : u \in {} \/ u \in X \/ u \in C'
        /\ k.wait["push"] = <<>> => k'.wait["push"] = <<>>
    <3> HIDE DEF C
    <3>1. "push" \in {"pop", "push"}
      OBVIOUS
    <3> QED BY <1>4, <1>6, <3>1, ComingMoves DEF C
  <2>3. \A y \in X : y \notin C
    BY <1>3, OpFacts DEF Coming, OpOK
  <2>4. \/ k.wait["push"] = <<>> \/ QueueLen(q) > Lwm
        \/ Lwm + 1 - QueueLen(q) <= Cardinality(C)
        \/ \E u \in Thread : pc[u] \in Resetting
    BY DEF QueueKept, PushesWoken
  <2> HIDE DEF C
  <2>5. C \subseteq C'
    BY <2>2, <2>3
  <2>6. /\ Cardinality(C) <= Cardinality(C') /\ Cardinality(C) \in Nat
        /\ Cardinality(C') \in Nat
    BY <1>0, <2>1, <2>5, CountComers
  <2>7. \/ k'.wait["push"] = <<>> \/ QueueLen(q') > Lwm
        \/ Lwm + 1 - QueueLen(q') <= Cardinality(C')
        \/ \E u \in Thread : pc'[u] \in Resetting
    <3>1. CASE k.wait["push"] = <<>> \/ \E u \in Thread : pc[u] \in Resetting
      BY <1>2, <2>2, <3>1
    <3>2. CASE QueueLen(q) > Lwm \/ Lwm + 1 - QueueLen(q) <= Cardinality(C)
      BY <1>0, <1>5, <2>6, <3>2
    <3> QED BY <2>4, <3>1, <3>2
  <2> QED BY <2>7 DEF PushesWoken, C
<1>9. Queue!Isr
  <2>1. Items' = InQueue(q')
    BY DEF Items, InQueue
  <2>2. Queue!Add(x)
    BY <1>0, <1>5, <2>1 DEF Queue!Add, Queue!Full
  <2>3. UNCHANGED [u \in Thread |-> DataCall(u)]
    BY <1>2, SameDataCalls
  <2> QED BY <1>2, <2>2, <2>3 DEF Queue!Isr
<1>10. QueueTypeOK' /\ Shaped(q)'
  BY <1>4, <1>5 DEF Shaped
<1> QED BY <1>4, <1>7, <1>8, <1>9, <1>10 DEF QueueGoes, QueueKept, QueueGoesOn, Queue!Next

\* A handler pops an item.
LEMMA IsrPopStep ==
  ASSUME QueueKept, LeftOK, IsrPop
  PROVE  QueueGoes
<1> DEFINE r == WakePusher(k, Leave(q))
           low == QueueLen(Leave(q)) <= Lwm
           First == IF k.wait["push"] = <<>> THEN {} ELSE {Head(k.wait["push"])}
           X == IF low THEN First ELSE {}
<1>0. /\ KInv /\ NoUart /\ "push" \in WaitList /\ Shaped(q) /\ Items = InQueue(q)
      /\ QueueLen(q) \in 0 .. Size /\ Size \in Nat /\ Lwm \in Nat /\ Lwm < Size
      /\ Idle \in Thread
  BY QueueFacts, KInvFacts
<1>1. /\ ~q.empty /\ q' = Leave(q) /\ UNCHANGED <<isr, pc, wvars, op>>
      /\ k' = Scheduled(r)
  BY DEF IsrPop
<1>2. /\ Released(r, k, X, "EOK") /\ \A y \in X : y \in Thread /\ Waits(y, "push")
      /\ low /\ k.wait["push"] # <<>> => X # {}
  <2>1. "push" # "event"
    OBVIOUS
  <2>2. /\ Released(ResumeFirst(k, "push"), k, First, "EOK")
        /\ \A y \in First : y \in Thread /\ Waits(y, "push")
    BY <1>0, <2>1, ResumeFirstReleased
  <2>3. Released(k, k, {}, "EOK")
    BY <1>0, KInvFacts, NothingReleased
  <2>4. k.wait["push"] # <<>> => First # {}
    OBVIOUS
  <2> HIDE DEF First
  <2>5. CASE low
    BY <2>2, <2>4, <2>5 DEF WakePusher
  <2>6. CASE ~low
    BY <2>3, <2>6 DEF WakePusher
  <2> QED BY <2>5, <2>6
<1>3. /\ Shaped(q') /\ QueueLen(q') = QueueLen(q) - 1 /\ QueueLen(q) > 0
      /\ InQueue(q') = Tail(InQueue(q)) /\ InQueue(q) # <<>>
      /\ low <=> QueueLen(q') <= Lwm
  BY <1>0, <1>1, LeaveFacts
<1> HIDE DEF r, X, low
<1>4. /\ KInv' /\ NoUart' /\ Foot(QueuePC) /\ LeftOK'
      /\ Released(k', k, X, "EOK")
      /\ (q' \in QueueState => QueueTypeOK')
      /\ \A u \in Thread : OpOK(u)'
  <2>1. /\ X \in SUBSET Thread /\ "push" \in {"pop", "push"}
        /\ \A y \in X : Waits(y, "push")
    BY <1>2
  <2> QED BY <1>1, <1>2, <2>1, HandlerFacts
<1>5. /\ X \in SUBSET Thread /\ {} \in SUBSET Thread /\ {} \cap X = {}
      /\ \A u \in Thread \ {} : pc'[u] = pc[u] /\ op'[u] = op[u]
  BY <1>1, <1>2
<1>6. PushesWoken'
  <2> DEFINE C == Coming("push", "pushing")
  <2>1. C \in SUBSET Thread /\ C' \in SUBSET Thread
    BY DEF Coming
  <2>2. /\ \A u \in C : u \in {} \/ u \in X \/ u \in C'
        /\ \A y \in X : Waits(y, "push") => y \notin C
        /\ "EOK" = "EOK" => \A y \in X : Waits(y, "push") /\ op[y].at = "pushing" =>
                                           y \in C'
        /\ k.wait["push"] = <<>> => k'.wait["push"] = <<>>
    <3> HIDE DEF C
    <3>1. "push" \in {"pop", "push"}
      OBVIOUS
    <3> QED BY <1>4, <1>5, <3>1, ComingMoves DEF C
  <2>3. \/ k.wait["push"] = <<>> \/ QueueLen(q) > Lwm
        \/ Lwm + 1 - QueueLen(q) <= Cardinality(C)
        \/ \E u \in Thread : pc[u] \in Resetting
    BY DEF QueueKept, PushesWoken
  <2>4. \A y \in X : y \in Thread /\ y \notin C /\ y \in C'
    BY <1>2, <2>2, OpFacts DEF OpOK
  <2> HIDE DEF C
  <2>5. Cardinality(C) \in Nat /\ Cardinality(C') \in Nat
    BY <1>0, <2>1, CountComers
  <2>6. low /\ k.wait["push"] # <<>> => Cardinality(C) + 1 <= Cardinality(C')
    <3> SUFFICES ASSUME low, k.wait["push"] # <<>>
                 PROVE  Cardinality(C) + 1 <= Cardinality(C')
      OBVIOUS
    <3>1. PICK y \in X : TRUE
      BY <1>2
    <3>2. y \in Thread /\ y \notin C /\ C \cup {y} \subseteq C'
      BY <2>2, <2>4, <3>1
    <3> QED BY <2>1, <3>2, CountComers
  <2>7. \/ k'.wait["push"] = <<>> \/ QueueLen(q') > Lwm
        \/ Lwm + 1 - QueueLen(q') <= Cardinality(C')
        \/ \E u \in Thread : pc'[u] \in Resetting
    <3>1. CASE k.wait["push"] = <<>> \/ \E u \in Thread : pc[u] \in Resetting
      BY <1>1, <2>2, <3>1
    <3>2. CASE ~low
      BY <1>0, <1>3, <3>2
    <3>3. CASE /\ low /\ k.wait["push"] # <<>>
               /\ QueueLen(q) > Lwm \/ Lwm + 1 - QueueLen(q) <= Cardinality(C)
      BY <1>0, <1>3, <2>5, <2>6, <3>3
    <3> QED BY <2>3, <3>1, <3>2, <3>3
  <2> QED BY <2>7 DEF PushesWoken, C
<1>7. PopsWoken'
  <2> DEFINE C == Coming("pop", "popping")
  <2>1. C \in SUBSET Thread /\ C' \in SUBSET Thread
    BY DEF Coming
  <2>2. /\ \A u \in C : u \in {} \/ u \in X \/ u \in C'
        /\ k.wait["pop"] = <<>> => k'.wait["pop"] = <<>>
    <3> HIDE DEF C
    <3>1. "pop" \in {"pop", "push"}
      OBVIOUS
    <3> QED BY <1>4, <1>5, <3>1, ComingMoves DEF C
  <2>3. \A y \in X : y \notin C
    BY <1>2, OpFacts DEF Coming, OpOK
  <2>4. k.wait["pop"] = <<>> \/ QueueLen(q) <= Cardinality(C)
    BY DEF QueueKept, PopsWoken
  <2> HIDE DEF C
  <2>5. C \subseteq C'
    BY <2>2, <2>3
  <2>6. /\ Cardinality(C) <= Cardinality(C') /\ Cardinality(C) \in Nat
        /\ Cardinality(C') \in Nat
    BY <1>0, <2>1, <2>5, CountComers
  <2>7. k'.wait["pop"] = <<>> \/ QueueLen(q') <= Cardinality(C')
    BY <1>0, <1>3, <2>2, <2>4, <2>6
  <2> QED BY <2>7 DEF PopsWoken, C
<1>8. Queue!Isr
  <2>1. Items' = InQueue(q')
    BY DEF Items, InQueue
  <2>2. Queue!Remove
    BY <1>0, <1>3, <2>1 DEF Queue!Remove
  <2>3. UNCHANGED [u \in Thread |-> DataCall(u)]
    BY <1>1, SameDataCalls
  <2> QED BY <2>2, <2>3 DEF Queue!Isr
<1>9. QueueTypeOK' /\ Shaped(q)'
  BY <1>3, <1>4 DEF Shaped
<1> QED BY <1>4, <1>6, <1>7, <1>8, <1>9 DEF QueueGoes, QueueKept, QueueGoesOn, Queue!Next

\* rt_data_queue_reset and rt_data_queue_deinit begin: the items are dropped.
LEMMA ResetStartStep ==
  ASSUME QueueKept, LeftOK, NEW t \in Thread, ResetStart(t)
  PROVE  QueueGoes
<1>0. /\ KInv /\ NoUart /\ "pop" \in WaitList /\ "push" \in WaitList
      /\ Executes(t) /\ pc[t] = "run" /\ t # Idle
      /\ q' = Emptied /\ live' \subseteq live /\ Goto(t, "reset_lock")
      /\ k' = k /\ isr' = isr /\ left' = left /\ op' = op
  BY QueueFacts DEF ResetStart, Calls, At
<1>1. Released(k', k, {}, "EOK")
  <2>1. Released(k, k, {}, "EOK")
    BY <1>0, KInvFacts, NothingReleased
  <2> QED BY <1>0, <2>1
<1>2. KInv' /\ NoUart' /\ Foot(QueuePC)
  <2>1. /\ pc[t] \in Plain /\ "reset_lock" \in Plain /\ pc[t] \in Points(QueuePC)
        /\ "reset_lock" \in Points(QueuePC)
    BY <1>0 DEF Plain, Points, ServicesPC, PC, QueuePC, Blocking, Locked
  <2>2. /\ "EOK" \in {"EOK", "ETIMEOUT", "ERROR"} /\ "reset_lock" # "recv_return"
        /\ \A x \in Thread : x \in {} => x = t \/ pc[x] \in Points(QueuePC)
    OBVIOUS
  <2> QED BY <1>0, <1>1, <2>1, <2>2, GoOn
<1>3. pc'[t] = "reset_lock" /\ \A u \in Thread : u # t => pc'[u] = pc[u]
  BY <1>0, KInvFacts DEF Goto
<1>4. Shaped(q') /\ QueueLen(q') = 0 /\ InQueue(q') = <<>>
  BY <1>0, EmptiedFacts
<1>5. ASSUME NEW u \in Thread PROVE OpOK(u)'
  <2>1. /\ Contains(k'.wait["pop"], u) => Waits(u, "pop")
        /\ Contains(k'.wait["push"], u) => Waits(u, "push")
    BY <1>0 DEF Waits
  <2>2. CASE u = t
    <3>1. OpOK(t) /\ op[t] = Idles
      BY <1>0, OpFacts DEF OpOK, DataPC
    <3> QED BY <1>0, <1>3, <2>1, <2>2, <3>1 DEF OpOK, DataPC, Waits
  <2>3. CASE u # t
    BY <1>0, <1>3, <2>1, <2>3, OpsStay
  <2> QED BY <2>2, <2>3
<1>6. PushesWoken'
  BY <1>3 DEF PushesWoken, Resetting
<1>7. PopsWoken'
  <2> DEFINE C == Coming("pop", "popping")
  <2>1. C' \in SUBSET Thread
    BY DEF Coming
  <2> HIDE DEF C
  <2>2. Cardinality(C') \in Nat
    BY <1>0, <2>1, CountComers
  <2>3. QueueLen(q') <= Cardinality(C')
    BY <1>4, <2>2
  <2> QED BY <2>3 DEF PopsWoken, C
<1>8. QueueTypeOK' /\ LeftOK' /\ Shaped(q)'
  BY <1>0, <1>4 DEF QueueKept, QueueTypeOK, LeftOK, Shaped
<1>9. Queue!Reset
  <2>1. Items' = <<>>
    BY <1>4 DEF Items, InQueue
  <2> QED BY <1>0, <2>1, SameDataCalls DEF Queue!Reset
<1> QED BY <1>2, <1>5, <1>6, <1>7, <1>8, <1>9
        DEF QueueGoes, QueueKept, QueueGoesOn, Queue!Next

\* A reset goes on with the scheduler locked.
LEMMA LockedGoesOn ==
  ASSUME KInv, NoUart, NEW t \in Thread, NEW c, NEW X,
         NEW e \in {"EOK", "ETIMEOUT", "ERROR"}, Executes(t), pc[t] \in Locked,
         c \in Locked \cup {"reset_sched"},
         \A x \in Thread : x \in X => pc[x] \in Points(QueuePC),
         Released(k', k, X, e), Goto(t, c), isr' = isr, live' = live
  PROVE  KInv' /\ NoUart' /\ Foot(QueuePC)
<1>0. /\ t # Idle /\ pc[t] \notin Blocking /\ k.nest = 1
      /\ pc[t] \in Points(QueuePC) /\ c \in Points(QueuePC)
  BY DEF KInv, ControlOK, NoUart, NestOK, Locked, Blocking, Points, QueuePC
<1>1. MayGo(c) /\ c \notin Places("event")
  BY <1>0 DEF MayGo, Locked, Blocking, Places, ServicesPC, QueuePC
<1>2. e \in Error /\ e # "EINTR" /\ live' \subseteq live
  BY DEF Error
<1>3. KInv' /\ NoUart'
  BY <1>0, <1>1, <1>2, GoOnStep
<1>4. /\ pc'[t] = c /\ \A u \in Thread : u # t => pc'[u] = pc[u]
  BY KInvFacts DEF Goto
<1>5. \A x \in Thread : x \notin X =>
        /\ k'.error[x] = k.error[x]
        /\ \A w \in WaitList : Contains(k'.wait[w], x) <=> Contains(k.wait[w], x)
  BY DEF Released
<1>6. Foot(QueuePC)
  BY <1>0, <1>4, <1>5 DEF Foot, Untouched
<1> QED BY <1>3, <1>6

\* The scheduler is locked.
LEMMA ResetLockStep ==
  ASSUME QueueKept, LeftOK, NEW t \in Thread, ResetLock(t)
  PROVE  QueueGoes
<1>0. /\ KInv /\ NoUart /\ Executes(t) /\ pc[t] = "reset_lock"
      /\ k' = [k EXCEPT !.nest = @ + 1] /\ Goto(t, "pop_test")
      /\ isr' = isr /\ live' = live /\ UNCHANGED <<left, qvars>>
  BY QueueFacts DEF ResetLock, At, wvars
<1>1. k.nest = 0
  <2>1. pc[t] \notin Locked \cup {"reset_sched"}
    BY <1>0 DEF Locked
  <2> QED BY <1>0, <2>1, Unlocked
<1>2. k' = [k EXCEPT !.nest = 1]
  BY <1>0, <1>1, KInvFacts DEF KernelState
<1>3. KInv' /\ NoUart' /\ k'.wait = k.wait /\ k'.error = k.error
  <2>1. /\ pc[t] \in {"reset_lock", "reset_sched"} /\ 1 \in {0, 1}
        /\ IF 1 = 1 THEN "pop_test" = "pop_test" ELSE "pop_test" = "reset_sched"
    BY <1>0
  <2> QED BY <1>0, <1>2, <2>1, LockStep
<1>4. pc'[t] = "pop_test" /\ \A u \in Thread : u # t => pc'[u] = pc[u]
  BY <1>0, KInvFacts DEF Goto
<1>5. Foot(QueuePC)
  BY <1>0, <1>3, <1>4 DEF Foot, Untouched, Points, QueuePC
<1>6. /\ \A w \in WaitList, u \in Thread :
           Contains(k'.wait[w], u) <=> Contains(k.wait[w], u) /\ u \notin {}
      /\ \A u \in Thread : u \notin {} => k'.error[u] = k.error[u]
      /\ \A x \in {} : Waits(x, "pop") \/ Waits(x, "push")
      /\ {} \in SUBSET Thread
  BY <1>3
<1>7. /\ "reset_lock" \notin DataPC /\ "pop_test" \notin DataPC
      /\ "reset_lock" \in Resetting => "pop_test" \in Resetting \/ k'.wait["push"] = <<>>
  BY DEF DataPC, Resetting
<1> QED BY <1>0, <1>3, <1>4, <1>5, <1>6, <1>7, QueueMoves

\* It is unlocked when nobody waits any more; then the reset schedules.
LEMMA ResetUnlockStep ==
  ASSUME QueueKept, LeftOK, NEW t \in Thread, ResetUnlock(t)
  PROVE  QueueGoes
<1>0. /\ KInv /\ NoUart /\ Executes(t) /\ pc[t] = "reset_sched" /\ t # Idle
      /\ isr' = isr /\ live' = live /\ UNCHANGED <<left, qvars>>
      /\ pc[t] \notin Blocking /\ k.nest \in {0, 1}
  BY QueueFacts DEF ResetUnlock, At, wvars, KInv, ControlOK, Blocking, NoUart, NestOK
<1>1. ASSUME NEW c \in {"reset_sched", "sched"}, KInv', NoUart', Goto(t, c),
             \A u \in Thread : k'.error[u] = k.error[u],
             \A w \in WaitList, u \in Thread :
                Contains(k'.wait[w], u) <=> Contains(k.wait[w], u)
      PROVE  QueueGoes
  <2>1. pc'[t] = c /\ \A u \in Thread : u # t => pc'[u] = pc[u]
    BY <1>0, <1>1, KInvFacts DEF Goto
  <2>2. Foot(QueuePC)
    BY <1>0, <1>1, <2>1 DEF Foot, Untouched, Points, QueuePC
  <2>3. /\ \A w \in WaitList, u \in Thread :
             Contains(k'.wait[w], u) <=> Contains(k.wait[w], u) /\ u \notin {}
        /\ \A u \in Thread : u \notin {} => k'.error[u] = k.error[u]
        /\ \A x \in {} : Waits(x, "pop") \/ Waits(x, "push")
        /\ {} \in SUBSET Thread
    BY <1>1
  <2>4. /\ "reset_sched" \notin DataPC /\ c \notin DataPC
        /\ "reset_sched" \in Resetting => c \in Resetting \/ k'.wait["push"] = <<>>
    BY DEF DataPC, Resetting
  <2>5. /\ KInv' /\ NoUart' /\ UNCHANGED <<left, qvars>>
        /\ pc[t] = "reset_sched" /\ pc'[t] = c
        /\ \A u \in Thread : u # t => pc'[u] = pc[u]
    BY <1>0, <1>1, <2>1
  <2>6. \/ "reset_sched" = "queue_wait" /\ c = "queue_woken" /\ t \notin {}
        \/ "reset_sched" = "queue_sched" /\ c = "queue_return"
        \/ "reset_sched" \notin DataPC /\ c \notin DataPC
    BY <2>4
  <2> QED BY <2>2, <2>3, <2>4, <2>5, <2>6, QueueMoves
<1>2. CASE k.nest > 0
  <2>1. k' = [k EXCEPT !.nest = @ - 1] /\ pc' = pc /\ k.nest = 1
    BY <1>0, <1>2 DEF ResetUnlock
  <2>2. k' = [k EXCEPT !.nest = 0]
    BY <1>0, <2>1, KInvFacts DEF KernelState
  <2>3. Goto(t, "reset_sched")
    BY <1>0, <2>1, KInvFacts DEF Goto
  <2>4. KInv' /\ NoUart' /\ k'.wait = k.wait /\ k'.error = k.error
    <3>1. /\ pc[t] \in {"reset_lock", "reset_sched"} /\ 0 \in {0, 1}
          /\ IF 0 = 1 THEN "reset_sched" = "pop_test" ELSE "reset_sched" = "reset_sched"
      BY <1>0
    <3> QED BY <1>0, <2>2, <2>3, <3>1, LockStep
  <2> QED BY <1>1, <2>3, <2>4
<1>3. CASE ~(k.nest > 0)
  <2>1. k' = Schedule(k) /\ Goto(t, "sched") /\ k.nest = 0
    BY <1>0, <1>3 DEF ResetUnlock
  <2>2. Released(k', k, {}, "EOK")
    <3>1. Released(k, k, {}, "EOK")
      BY <1>0, KInvFacts, NothingReleased
    <3> QED BY <1>0, <2>1, <3>1, ThenSchedules
  <2>3. KInv' /\ NoUart'
    <3>1. MayGo("sched") /\ "sched" \notin Places("event")
      BY <2>1 DEF MayGo, Blocking, Locked, Places, ServicesPC, PC
    <3>2. "EOK" \in Error /\ "EOK" # "EINTR" /\ live' \subseteq live
      BY <1>0 DEF Error
    <3>3. "sched" \in Places("event") => t \in {}
      BY <3>1
    <3>4. KInv /\ NoUart /\ Executes(t) /\ t # Idle /\ pc[t] \notin Blocking
          /\ MayGo("sched") /\ Goto(t, "sched") /\ isr' = isr
      BY <1>0, <2>1, <3>1
    <3> QED BY <2>2, <3>2, <3>3, <3>4, GoOnStep
  <2>4. /\ \A u \in Thread : k'.error[u] = k.error[u]
        /\ \A w \in WaitList, u \in Thread :
             Contains(k'.wait[w], u) <=> Contains(k.wait[w], u)
    BY <2>2 DEF Released
  <2> QED BY <1>1, <2>1, <2>3, <2>4
<1> QED BY <1>2, <1>3

\* The waiters are turned away one by one.
LEMMA ResetDrainStep ==
  ASSUME QueueKept, LeftOK, NEW t \in Thread, ResetDrain(t)
  PROVE  QueueGoes
<1>0. /\ KInv /\ NoUart /\ "pop" \in WaitList /\ "push" \in WaitList
      /\ live' = live /\ UNCHANGED <<left, qvars>>
      /\ Places("pop") = {"queue_wait", "queue_woken"}
      /\ Places("push") = {"queue_wait", "queue_woken"}
  BY QueueFacts DEF ResetDrain, wvars
<1>1. ASSUME NEW b \in Locked, NEW c \in Locked \cup {"reset_sched"},
             NEW X \in SUBSET Thread, NEW e \in {"EOK", "ERROR"},
             At(t, b), Goto(t, c), isr' = isr, Released(k', k, X, e),
             \A x \in X : Waits(x, "pop") \/ Waits(x, "push"),
             c = "reset_sched" => k.wait["push"] = <<>> /\ k' = k
      PROVE  QueueGoes
  <2>1. Executes(t) /\ pc[t] = b /\ pc[t] \in Locked
    BY <1>1 DEF At
  <2>2. \A x \in Thread : x \in X => pc[x] \in Points(QueuePC)
    BY <1>0, <1>1, WaiterPoints DEF Points, QueuePC
  <2>3. KInv' /\ NoUart' /\ Foot(QueuePC)
    <3>1. e \in {"EOK", "ETIMEOUT", "ERROR"}
      OBVIOUS
    <3> QED BY <1>0, <1>1, <2>1, <2>2, <3>1, LockedGoesOn
  <2>4. pc'[t] = c /\ \A u \in Thread : u # t => pc'[u] = pc[u]
    BY <1>0, <1>1, KInvFacts DEF Goto
  <2>5. /\ \A w \in WaitList, u \in Thread :
             Contains(k'.wait[w], u) <=> Contains(k.wait[w], u) /\ u \notin X
        /\ \A u \in Thread : u \notin X => k'.error[u] = k.error[u]
    BY <1>1 DEF Released
  <2>6. /\ b \notin DataPC /\ c \notin DataPC
        /\ b \in Resetting => c \in Resetting \/ k'.wait["push"] = <<>>
    BY <1>1 DEF DataPC, Resetting, Locked
  <2> QED BY <1>0, <1>1, <2>1, <2>3, <2>4, <2>5, <2>6, QueueMoves
<1>2. Released(k, k, {}, "EOK")
  BY <1>0, KInvFacts, NothingReleased
<1>3. /\ {} \in SUBSET Thread /\ "EOK" \in {"EOK", "ERROR"} /\ "ERROR" \in {"EOK", "ERROR"}
      /\ \A x \in {} : Waits(x, "pop") \/ Waits(x, "push")
      /\ Locked = {"pop_test", "pop_wake", "push_test", "push_wake"}
  BY DEF Locked
<1>4. CASE DrainTest(t, "pop", "pop_test", "pop_wake", "push_test")
  <2> DEFINE c == IF k.wait["pop"] = <<>> THEN "push_test" ELSE "pop_wake"
  <2>1. At(t, "pop_test") /\ Goto(t, c) /\ k' = k /\ isr' = isr
    BY <1>4 DEF DrainTest
  <2>2. c \in {"push_test", "pop_wake"}
    OBVIOUS
  <2> HIDE DEF c
  <2>3. /\ "pop_test" \in Locked /\ c \in Locked \cup {"reset_sched"}
        /\ c = "reset_sched" => k.wait["push"] = <<>> /\ k' = k
        /\ Released(k', k, {}, "EOK")
    BY <1>2, <1>3, <2>1, <2>2
  <2> QED BY <1>1, <1>3, <2>1, <2>3
<1>5. CASE DrainTest(t, "push", "push_test", "push_wake", "reset_sched")
  <2> DEFINE c == IF k.wait["push"] = <<>> THEN "reset_sched" ELSE "push_wake"
  <2>1. At(t, "push_test") /\ Goto(t, c) /\ k' = k /\ isr' = isr
    BY <1>5 DEF DrainTest
  <2>2. /\ c \in {"reset_sched", "push_wake"}
        /\ c = "reset_sched" => k.wait["push"] = <<>>
    OBVIOUS
  <2> HIDE DEF c
  <2>3. /\ "push_test" \in Locked /\ c \in Locked \cup {"reset_sched"}
        /\ c = "reset_sched" => k.wait["push"] = <<>> /\ k' = k
        /\ Released(k', k, {}, "EOK")
    BY <1>2, <1>3, <2>1, <2>2
  <2> QED BY <1>1, <1>3, <2>1, <2>3
<1>6. ASSUME NEW w \in {"pop", "push"}, NEW b \in Locked, NEW c \in Locked,
             DrainWake(t, w, c, b), c # "reset_sched"
      PROVE  QueueGoes
  <2>1. /\ At(t, b) /\ Goto(t, c) /\ isr' = isr /\ k.wait[w] # <<>>
        /\ k' = Wake(k, w, "ERROR")
    BY <1>6 DEF DrainWake
  <2>2. \E x \in Thread : Waits(x, w) /\ Released(k', k, {x}, "ERROR")
    <3>1. "ERROR" \in Error /\ w \in WaitList
      BY <1>0 DEF Error
    <3> QED BY <1>0, <2>1, <3>1, FirstReleased
  <2>3. PICK x \in Thread : Waits(x, w) /\ Released(k', k, {x}, "ERROR")
    BY <2>2
  <2>4. /\ {x} \in SUBSET Thread /\ \A y \in {x} : Waits(y, "pop") \/ Waits(y, "push")
        /\ c \in Locked \cup {"reset_sched"}
        /\ c = "reset_sched" => k.wait["push"] = <<>> /\ k' = k
    BY <1>6, <2>3
  <2> QED BY <1>1, <1>3, <1>6, <2>1, <2>3, <2>4
<1>7. CASE DrainWake(t, "pop", "pop_test", "pop_wake")
  BY <1>3, <1>6, <1>7
<1>8. CASE DrainWake(t, "push", "push_test", "push_wake")
  BY <1>3, <1>6, <1>8
<1> QED BY <1>4, <1>5, <1>7, <1>8 DEF ResetDrain

\* The steps of a data queue, all together.
LEMMA QueueStepKeeps ==
  ASSUME QueueKept, LeftOK, QueueNext
  PROVE  QueueGoes
<1>1. CASE IsrPush \/ IsrPop
  BY <1>1, IsrPushStep, IsrPopStep
<1>2. ASSUME NEW t \in Thread, QueueStep(t)
      PROVE  QueueGoes
  <2>1. CASE Push(t) \/ Pop(t)
    BY <2>1, PushPopStep
  <2>2. CASE QueueSchedule(t) \/ QueueWoken(t) \/ QueueReturn(t)
    BY <2>2, QueueScheduleStep, QueueWokenStep, QueueReturnStep
  <2>3. CASE ResetStart(t) \/ ResetLock(t) \/ ResetDrain(t) \/ ResetUnlock(t)
    BY <2>3, ResetStartStep, ResetLockStep, ResetDrainStep, ResetUnlockStep
  <2> QED BY <1>2, <2>1, <2>2, <2>3 DEF QueueStep
<1> QED BY <1>1, <1>2 DEF QueueNext

\* A thread whose wait times out is told so; the array does not change.
LEMMA QueueTick ==
  ASSUME QueueKept, KInv', NoUart', NEW W \in SUBSET Thread,
         Released(k', k, W, "ETIMEOUT"), \A t \in W : k.stat[t] = "SUSPEND",
         \A t, u \in W : t = u, pc' = pc, UNCHANGED qvars
  PROVE  QueueKept' /\ QueueGoesOn
<1>0. KInv /\ NoUart /\ "pop" \in WaitList /\ "push" \in WaitList /\ q' = q /\ op' = op
  BY QueueFacts DEF qvars
<1>1. \A u \in Thread :
        /\ k'.error[u] = IF u \in W THEN "ETIMEOUT" ELSE k.error[u]
        /\ Contains(k'.wait["pop"], u) <=> Waits(u, "pop") /\ u \notin W
        /\ Contains(k'.wait["push"], u) <=> Waits(u, "push") /\ u \notin W
  BY <1>0 DEF Released, Waits
<1>2. /\ k.wait["pop"] = <<>> => k'.wait["pop"] = <<>>
      /\ k.wait["push"] = <<>> => k'.wait["push"] = <<>>
  BY <1>0, <1>1, NoNewWaiter
<1>3. ASSUME NEW u \in W, pc[u] \in {"queue_wait", "queue_woken"}
      PROVE  Waits(u, "pop") \/ Waits(u, "push")
  <2>1. pc[u] \notin Asleep
    BY <1>3 DEF Asleep
  <2>2. PICK w \in WaitList : Waits(u, w)
    BY <1>0, <2>1 DEF NoUart, SuspendedKnown
  <2>3. pc[u] \in Places(w)
    BY <1>0, <2>2, WaiterPoints
  <2>4. w \in {"event", "pool", "pop", "push", "done"}
    BY ServicesAssumption
  <2>5. w \in {"pop", "push"}
    BY <1>3, <2>3, <2>4 DEF Places
  <2> QED BY <2>2, <2>5
<1>4. \A u \in W : u \notin Coming("pop", "popping") /\ u \notin Coming("push", "pushing")
  BY <1>3, OpFacts DEF Coming, OnItsWay, OpOK
<1>5. /\ Coming("pop", "popping") \subseteq Coming("pop", "popping")'
      /\ Coming("push", "pushing") \subseteq Coming("push", "pushing")'
  BY <1>0, <1>1, <1>4 DEF Coming, OnItsWay, Waits
<1>6. PopsWoken'
  <2> DEFINE C == Coming("pop", "popping")
  <2>1. C \in SUBSET Thread /\ C' \in SUBSET Thread /\ C \subseteq C'
    BY <1>5 DEF Coming
  <2>2. k.wait["pop"] = <<>> \/ QueueLen(q) <= Cardinality(C)
    BY DEF QueueKept, PopsWoken
  <2> HIDE DEF C
  <2>3. Cardinality(C) <= Cardinality(C') /\ Cardinality(C) \in Nat
    BY <1>0, <2>1, CountComers, KInvFacts
  <2>4. Cardinality(C') \in Nat /\ QueueLen(q) \in Nat
    BY <1>0, <2>1, CountComers, KInvFacts, QueueFacts
  <2>5. k'.wait["pop"] = <<>> \/ QueueLen(q) <= Cardinality(C')
    BY <1>2, <2>2, <2>3, <2>4
  <2> QED BY <1>0, <2>5 DEF PopsWoken, C
<1>7. PushesWoken'
  <2> DEFINE C == Coming("push", "pushing")
  <2>1. C \in SUBSET Thread /\ C' \in SUBSET Thread /\ C \subseteq C'
    BY <1>5 DEF Coming
  <2>2. \/ k.wait["push"] = <<>> \/ QueueLen(q) > Lwm
        \/ Lwm + 1 - QueueLen(q) <= Cardinality(C)
        \/ \E u \in Thread : pc[u] \in Resetting
    BY DEF QueueKept, PushesWoken
  <2> HIDE DEF C
  <2>3. /\ Cardinality(C) <= Cardinality(C') /\ Cardinality(C) \in Nat
        /\ Cardinality(C') \in Nat
    BY <1>0, <2>1, CountComers, KInvFacts
  <2>4. QueueLen(q) \in Nat /\ Lwm \in Nat
    BY QueueFacts
  <2>5. \/ k'.wait["push"] = <<>> \/ QueueLen(q) > Lwm
        \/ Lwm + 1 - QueueLen(q) <= Cardinality(C')
        \/ \E u \in Thread : pc'[u] \in Resetting
    <3>1. CASE k.wait["push"] = <<>> \/ \E u \in Thread : pc[u] \in Resetting
      BY <1>2, <3>1
    <3>2. CASE QueueLen(q) > Lwm \/ Lwm + 1 - QueueLen(q) <= Cardinality(C)
      BY <2>3, <2>4, <3>2
    <3> QED BY <2>2, <3>1, <3>2
  <2> QED BY <1>0, <2>5 DEF PushesWoken, C
<1>8. \A u \in Thread : OpOK(u)'
  BY <1>0, <1>1, OpsStay
<1>9. QueueTypeOK' /\ Shaped(q)' /\ Items' = Items
  BY <1>0 DEF QueueKept, QueueTypeOK, Shaped, Items
<1> QED BY <1>0, <1>6, <1>7, <1>8, <1>9, SameDataCalls DEF QueueKept, QueueGoesOn

-----------------------------------------------------------------------------
(* The UART alone                                                          *)

\* rt_thread_mdelay in the handler suspends the thread it has interrupted, or
\* finds it suspended already; no list of waiters changes.
LEMMA UartDelays ==
  ASSUME KernelOK, UartMdelay
  PROVE  KernelOK' /\ k'.wait = k.wait
<1> DEFINE t == k.cur
           slept == Suspended(k, t)
           timed == TimerStart(slept, t, UartDelay)
           armed == [timed EXCEPT !.error[t] = "EINTR"]
<1>0. /\ Sound(k, {}) /\ CurrentSound(k, {}) /\ t \in Thread /\ k \in KernelState
      /\ UartDelay \in Int /\ "EINTR" \in Error /\ "EOK" \in Error
  BY UsartAssumption DEF KernelOK, Sound, KernelState, Error
<1>1. k' = IF slept.stat[t] # k.stat[t] THEN Schedule(armed) ELSE slept
  BY DEF UartMdelay
<1>2. CASE k.stat[t] \in {"READY", "RUNNING"}
  <2> HIDE DEF t
  <2>1. /\ Sound(slept, {}) /\ OnlyStat(slept, k, t, "SUSPEND")
        /\ slept.wait = k.wait
    BY <1>0, <1>2, SuspendedSound
  <2> HIDE DEF slept
  <2>2. slept.stat[t] = "SUSPEND" /\ t \notin {}
    BY <2>1 DEF OnlyStat
  <2>3. Sound(timed, {}) /\ SameThreads(timed, slept) /\ SameWaits(timed, slept)
    BY <1>0, <2>1, <2>2, TimerStartSound
  <2> HIDE DEF timed
  <2>4. Sound(armed, {}) /\ SameThreads(armed, timed) /\ armed.wait = timed.wait
    <3>1. t \in Thread /\ Sound(timed, {})
      BY <1>0, <2>3
    <3> QED BY <3>1, SetErrorSound DEF Error
  <2> HIDE DEF armed
  <2>5. /\ armed.cur = t /\ armed.wait = k.wait /\ armed.stat[t] = "SUSPEND"
        /\ \A u \in Thread : u # t => armed.stat[u] = k.stat[u]
    BY <1>0, <2>1, <2>3, <2>4 DEF OnlyStat, SameThreads, SameWaits, t
  <2>6. CurrentSound(armed, {})
    BY <1>0, <2>5 DEF CurrentSound, t
  <2> DEFINE after == Schedule(armed)
  <2>7. Sound(after, {}) /\ CurrentSound(after, {}) /\ AfterSchedule(after, armed, {})
    BY <2>4, <2>6, ScheduleSound
  <2> HIDE DEF after
  <2>8. k' = after
    BY <1>1, <1>2, <2>2 DEF after
  <2>9. after.wait = k.wait
    BY <2>5, <2>7 DEF AfterSchedule, SameWaits
  <2> QED BY <2>7, <2>8, <2>9 DEF KernelOK
<1>3. CASE k.stat[t] \notin {"READY", "RUNNING"}
  <2> DEFINE reset == [k EXCEPT !.error[t] = "EOK"]
  <2>1. slept = SuspendThread(reset, t)
    BY DEF Suspended
  <2> HIDE DEF t, slept
  <2>2. Sound(reset, {}) /\ SameThreads(reset, k) /\ reset.wait = k.wait
    <3>1. t \in Thread /\ Sound(k, {})
      BY <1>0
    <3> QED BY <3>1, SetErrorSound DEF Error
  <2> HIDE DEF reset
  <2>3. slept = reset /\ slept.stat = k.stat
    BY <1>3, <2>1, <2>2 DEF SuspendThread, SameThreads
  <2>4. k' = reset
    BY <1>1, <2>3
  <2>5. CurrentSound(reset, {})
    BY <1>0, <2>2 DEF CurrentSound, SameThreads
  <2> QED BY <2>2, <2>4, <2>5 DEF KernelOK
<1> QED BY <1>2, <1>3

\* No other service is used.
LEMMA OnlyUartSteps ==
  ASSUME OnlyUart
  PROVE  /\ ~EventNext /\ ~PoolNext /\ ~QueueNext
         /\ ~CompletionNext /\ ~PeriodicNext
         /\ \A t \in Thread : ~CallSchedule(t) /\ ~Sleep(t)
<1>1. live = {"usart"} /\ \A t \in Thread : pc[t] = "run"
  BY DEF OnlyUart
<1>2. ~EventNext
  BY <1>1 DEF EventNext, EventStep, IsrEventSend, EventSend, RecvNow, RecvRefused,
              RecvWait, RecvSchedule, RecvReturn, EventReset, EventDetach,
              EventDrain, DrainTest, DrainWake, ScheduleIn, IsrCalls, Calls, At
<1>3. ~PoolNext
  BY <1>1 DEF PoolNext, PoolStep, IsrAlloc, IsrFree, Alloc, AllocSchedule,
              AllocWoken, AllocRetry, AllocReturn, Free, PoolDetach,
              PoolDrain, DrainTest, DrainWake, ScheduleIn, IsrCalls, Calls, At
<1>4. ~QueueNext
  BY <1>1 DEF QueueNext, QueueStep, IsrPush, IsrPop, Push, Pop, QueueSchedule,
              QueueWoken, QueueReturn, ResetStart, ResetLock, ResetDrain,
              ResetUnlock, DrainTest, DrainWake, ScheduleIn, IsrCalls, Calls, At
<1>5. ~CompletionNext
  BY <1>1 DEF CompletionNext, CompletionStep, IsrDone, WaitNow, WaitRefused,
              WaitBlock, WaitSchedule, WaitReturn, DoneTest, DoneSet,
              ScheduleIn, IsrCalls, Calls, At
<1>6. ~PeriodicNext
  BY <1>1 DEF PeriodicNext, PeriodicStep, UntilNow, UntilBlock, UntilSchedule,
              UntilReturn, ScheduleIn, Calls, At
<1>7. \A t \in Thread : ~CallSchedule(t) /\ ~Sleep(t)
  BY <1>1 DEF CallSchedule, Sleep, SleepBlock, SleepMark, SleepSchedule,
              SleepReturn, At
<1> QED BY <1>2, <1>3, <1>4, <1>5, <1>6, <1>7

\* What does not change while the UART is used alone.
OthersStill ==
  /\ pc' = pc /\ live' = live /\ left' = left /\ lastWake' = lastWake
  /\ flag' = flag /\ target' = target
  /\ UNCHANGED evars /\ UNCHANGED pvars /\ UNCHANGED qvars

\* The UART alone stays alone.
LEMMA OnlyUartKeeps ==
  ASSUME KInv, OnlyUart, [ServicesNext]_svars
  PROVE  KInv' /\ OnlyUart' /\ OthersStill
<1>0. /\ KernelOK /\ isr \in {"none", "tick"} \cup UartIsr
      /\ \A w \in WaitList : k.wait[w] = <<>>
  BY DEF KInv, ControlOK, OnlyUart
<1>1. ASSUME OthersStill, KernelOK', isr' \in {"none", "tick"} \cup UartIsr,
             \A w \in WaitList : k'.wait[w] = <<>>
      PROVE  KInv' /\ OnlyUart' /\ OthersStill
  BY <1>1 DEF KInv, ControlOK, OnlyUart, OthersStill
<1>2. CASE UNCHANGED svars
  <2>1. k' = k /\ isr' = isr /\ OthersStill
    BY <1>2 DEF svars, tvars, wvars, OthersStill
  <2> QED BY <1>0, <1>1, <2>1 DEF KernelOK
<1>3. CASE KernelNext
  <2>1. TickStep /\ OthersStill
    BY <1>3, OnlyUartSteps DEF KernelNext, Interrupt, wvars, OthersStill
  <2>2. /\ \E W \in SUBSET Thread : Released(k', k, W, "ETIMEOUT")
        /\ isr' \in {"none", "tick"}
    BY <1>0, <2>1, TickReleased
  <2>3. PICK W \in SUBSET Thread : Released(k', k, W, "ETIMEOUT")
    BY <2>2
  <2>4. /\ Sound(k', {}) /\ CurrentSound(k', {})
        /\ \A w \in WaitList, t \in Thread :
              Contains(k'.wait[w], t) => Contains(k.wait[w], t)
    BY <2>3 DEF Released
  <2>5. ASSUME NEW w \in WaitList PROVE k'.wait[w] = <<>>
    <3>1. k.wait[w] = <<>> /\ k.wait[w] \in Seq(Thread) /\ k'.wait[w] \in Seq(Thread)
      BY <1>0, <2>4 DEF KernelOK, Sound, KernelState
    <3>2. \A x : ~Contains(k.wait[w], x)
      BY <3>1, EmptyFacts
    <3>3. \A t \in Thread : ~Contains(k'.wait[w], t)
      BY <2>4, <3>2
    <3> QED BY <3>1, <3>3, HeadFacts
  <2> QED BY <1>1, <2>1, <2>2, <2>4, <2>5 DEF KernelOK
<1>4. CASE ServiceNext
  <2>1. UsartNext /\ UNCHANGED <<evars, pvars, qvars, flag, lastWake, target>>
    BY <1>4, OnlyUartSteps DEF ServiceNext
  <2>2. /\ OthersStill
        /\ k' = k \/ UartMdelay
        /\ isr' \in {"none", "tick"} \cup UartIsr
    <3>1. UNCHANGED <<pc, wvars>>
      BY <2>1 DEF UsartNext, UartReceive, UartMdelay, EnterPowerMode,
                  LeavePowerMode, UartRead
    <3>2. k' = k \/ UartMdelay
      BY <2>1 DEF UsartNext, UartReceive, EnterPowerMode, LeavePowerMode, UartRead
    <3>3. isr' \in {"none", "tick"} \cup UartIsr
      BY <1>0, <2>1 DEF UsartNext, UartReceive, UartMdelay, EnterPowerMode,
                        LeavePowerMode, UartRead, UartIsr
    <3> QED BY <2>1, <3>1, <3>2, <3>3 DEF wvars, OthersStill
  <2>3. CASE k' = k
    BY <1>0, <1>1, <2>2, <2>3 DEF KernelOK
  <2>4. CASE UartMdelay
    <3>1. KernelOK' /\ k'.wait = k.wait
      BY <1>0, <2>4, UartDelays
    <3> QED BY <1>0, <1>1, <2>2, <3>1
  <2> QED BY <2>2, <2>3, <2>4
<1> QED BY <1>2, <1>3, <1>4 DEF ServicesNext

-----------------------------------------------------------------------------
(* The services together                                                   *)

\* What every step keeps to where the UART is not used.
Busy ==
  /\ EventKept /\ PoolKept /\ QueueKept /\ CompletionKept
  /\ LeftOK /\ lastWake \in [Periodics -> Tick]

\* What happens to all the abstract objects.
AllGoOn == GroupGoesOn /\ AllocGoesOn /\ QueueGoesOn /\ SignalGoesOn

\* The UART takes no step.
LEMMA NoUartSteps ==
  ASSUME NoUart
  PROVE  ~UsartNext
BY DEF NoUart, UsartNext, UartReceive, UartMdelay, EnterPowerMode,
       LeavePowerMode, UartRead, IsrCalls, Calls

\* The calls that do not wait again leave the time that is left alone.
LEMMA LeftStays ==
  ASSUME EventNext \/ CompletionNext \/ PeriodicNext
  PROVE  left' = left
<1>1. CASE EventNext
  BY <1>1 DEF EventNext, EventStep, IsrEventSend, EventSend, RecvNow, RecvRefused,
              RecvWait, RecvSchedule, RecvReturn, EventReset, EventDetach,
              EventDrain, wvars
<1>2. CASE CompletionNext
  BY <1>2 DEF CompletionNext, CompletionStep, IsrDone, WaitNow, WaitRefused,
              WaitBlock, WaitSchedule, WaitReturn, DoneTest, DoneSet, wvars
<1>3. CASE PeriodicNext
  BY <1>3 DEF PeriodicNext, PeriodicStep, UntilNow, UntilBlock, UntilSchedule,
              UntilReturn, wvars
<1> QED BY <1>1, <1>2, <1>3

\* Threads whose waits time out, or none.
LEMMA BusyTick ==
  ASSUME Busy, NEW W \in SUBSET Thread, Released(k', k, W, "ETIMEOUT"),
         \A t \in W : k.stat[t] = "SUSPEND", \A t, u \in W : t = u,
         pc' = pc, live' = live, left' = left, lastWake' = lastWake,
         flag' = flag, isr' \in {"none", "tick"},
         UNCHANGED evars, UNCHANGED pvars, UNCHANGED qvars
  PROVE  Busy' /\ AllGoOn
<1>0. EventKept /\ PoolKept /\ QueueKept /\ CompletionKept /\ KInv /\ NoUart
  BY DEF Busy, EventKept
<1>1. "ETIMEOUT" \in Error /\ "ETIMEOUT" # "EINTR"
  BY DEF Error
<1>2. KInv' /\ NoUart'
  BY <1>0, <1>1, HandlerStep
<1>3. EventTypeOK' /\ GroupGoesOn
  BY <1>0, <1>2, EventTick
<1>4. PoolKept' /\ AllocGoesOn
  BY <1>0, <1>2, PoolTick
<1>5. QueueKept' /\ QueueGoesOn
  BY <1>0, <1>2, QueueTick
<1>6. CompletionKept' /\ SignalGoesOn
  BY <1>0, <1>2, CompletionTick
<1>7. LeftOK' /\ lastWake' \in [Periodics -> Tick]
  BY DEF Busy, LeftOK
<1> QED BY <1>2, <1>3, <1>4, <1>5, <1>6, <1>7 DEF Busy, EventKept, AllGoOn

\* The kernel's steps: the tick, and the calls that only schedule or sleep.
LEMMA BusyKernel ==
  ASSUME Busy, KernelNext
  PROVE  Busy' /\ AllGoOn
<1>0. /\ EventKept /\ PoolKept /\ QueueKept /\ CompletionKept
      /\ KInv /\ NoUart /\ EventTypeOK /\ flag' = flag /\ live' = live
      /\ left' = left /\ lastWake' = lastWake
      /\ UNCHANGED evars /\ UNCHANGED pvars /\ UNCHANGED qvars
  BY DEF Busy, EventKept, KernelNext, wvars
<1>1. CASE Interrupt
  <2>1. TickStep /\ pc' = pc /\ KernelOK
    BY <1>0, <1>1 DEF Interrupt, KInv
  <2>2. /\ \E W \in SUBSET Thread :
             /\ Released(k', k, W, "ETIMEOUT")
             /\ \A t \in W : k.stat[t] = "SUSPEND"
             /\ \A t, u \in W : t = u
        /\ isr' \in {"none", "tick"}
    BY <2>1, TickReleased
  <2>3. PICK W \in SUBSET Thread :
          /\ Released(k', k, W, "ETIMEOUT")
          /\ \A t \in W : k.stat[t] = "SUSPEND"
          /\ \A t, u \in W : t = u
    BY <2>2
  <2> QED BY <1>0, <2>1, <2>2, <2>3, BusyTick
<1>2. CASE \E t \in Thread : CallSchedule(t) \/ Sleep(t)
  <2>1. KInv' /\ NoUart' /\ Foot(SleepPC)
    BY <1>0, <1>2, CallScheduleStep, SleepKeeps
  <2>2. /\ SleepPC \cap RecvPC = {} /\ SleepPC \cap AllocPC = {}
        /\ SleepPC \cap QueuePC = {} /\ SleepPC \cap CompletionPC = {}
    BY DEF SleepPC, RecvPC, AllocPC, QueuePC, CompletionPC
  <2>3. GroupGoesOn
    BY <1>0, <2>1, <2>2, EventForeign
  <2>4. PoolKept' /\ AllocGoesOn
    BY <1>0, <2>1, <2>2, PoolForeign
  <2>5. QueueKept' /\ QueueGoesOn
    BY <1>0, <2>1, <2>2, QueueForeign
  <2>6. CompletionKept' /\ SignalGoesOn
    BY <1>0, <2>1, <2>2, CompletionForeign
  <2>7. LeftOK' /\ lastWake' \in [Periodics -> Tick] /\ EventTypeOK'
    BY <1>0 DEF Busy, LeftOK, EventTypeOK, evars
  <2> QED BY <2>1, <2>3, <2>4, <2>5, <2>6, <2>7 DEF Busy, EventKept, AllGoOn
<1> QED BY <1>1, <1>2 DEF KernelNext

\* The steps of one service keep the others where they are.
LEMMA BusyService ==
  ASSUME Busy, ServiceNext
  PROVE  Busy' /\ AllGoOn
<1>0. /\ EventKept /\ PoolKept /\ QueueKept /\ CompletionKept /\ LeftOK
      /\ KInv /\ NoUart /\ EventTypeOK /\ lastWake \in [Periodics -> Tick]
  BY DEF Busy, EventKept
<1>1. CASE EventNext /\ UNCHANGED <<pvars, qvars, flag, lastWake>>
  <2>1. EventKept' /\ Foot(EventPC) /\ GroupGoesOn
    BY <1>0, <1>1, EventStepKeeps
  <2>2. KInv' /\ NoUart'
    BY <2>1 DEF EventKept
  <2>3. /\ EventPC \cap AllocPC = {} /\ EventPC \cap QueuePC = {}
        /\ EventPC \cap CompletionPC = {}
        /\ UNCHANGED pvars /\ UNCHANGED qvars /\ flag' = flag
    BY <1>1 DEF EventPC, AllocPC, QueuePC, CompletionPC
  <2>4. PoolKept' /\ AllocGoesOn
    BY <1>0, <2>1, <2>2, <2>3, PoolForeign
  <2>5. QueueKept' /\ QueueGoesOn
    BY <1>0, <2>1, <2>2, <2>3, QueueForeign
  <2>6. CompletionKept' /\ SignalGoesOn
    BY <1>0, <2>1, <2>2, <2>3, CompletionForeign
  <2>7. LeftOK' /\ lastWake' \in [Periodics -> Tick]
    BY <1>0, <1>1, LeftStays DEF LeftOK
  <2> QED BY <2>1, <2>4, <2>5, <2>6, <2>7 DEF Busy, AllGoOn
<1>2. CASE PoolNext /\ UNCHANGED <<evars, qvars, flag, lastWake>>
  <2>1. PoolKept' /\ LeftOK' /\ Foot(PoolPC) /\ AllocGoesOn
    BY <1>0, <1>2, PoolStepKeeps DEF PoolGoes
  <2>2. KInv' /\ NoUart'
    BY <2>1 DEF PoolKept
  <2>3. /\ PoolPC \cap RecvPC = {} /\ PoolPC \cap QueuePC = {}
        /\ PoolPC \cap CompletionPC = {}
        /\ UNCHANGED evars /\ UNCHANGED qvars /\ flag' = flag
    BY <1>2 DEF PoolPC, RecvPC, QueuePC, CompletionPC
  <2>4. GroupGoesOn
    BY <1>0, <2>1, <2>2, <2>3, EventForeign
  <2>5. QueueKept' /\ QueueGoesOn
    BY <1>0, <2>1, <2>2, <2>3, QueueForeign
  <2>6. CompletionKept' /\ SignalGoesOn
    BY <1>0, <2>1, <2>2, <2>3, CompletionForeign
  <2>7. lastWake' \in [Periodics -> Tick] /\ EventTypeOK'
    BY <1>0, <1>2 DEF EventTypeOK, evars
  <2> QED BY <2>1, <2>2, <2>4, <2>5, <2>6, <2>7 DEF Busy, EventKept, AllGoOn
<1>3. CASE QueueNext /\ UNCHANGED <<evars, pvars, flag, lastWake>>
  <2>1. QueueKept' /\ LeftOK' /\ Foot(QueuePC) /\ QueueGoesOn
    BY <1>0, <1>3, QueueStepKeeps DEF QueueGoes
  <2>2. KInv' /\ NoUart'
    BY <2>1 DEF QueueKept
  <2>3. /\ QueuePC \cap RecvPC = {} /\ QueuePC \cap AllocPC = {}
        /\ QueuePC \cap CompletionPC = {}
        /\ UNCHANGED evars /\ UNCHANGED pvars /\ flag' = flag
    BY <1>3 DEF QueuePC, RecvPC, AllocPC, CompletionPC
  <2>4. GroupGoesOn
    BY <1>0, <2>1, <2>2, <2>3, EventForeign
  <2>5. PoolKept' /\ AllocGoesOn
    BY <1>0, <2>1, <2>2, <2>3, PoolForeign
  <2>6. CompletionKept' /\ SignalGoesOn
    BY <1>0, <2>1, <2>2, <2>3, CompletionForeign
  <2>7. lastWake' \in [Periodics -> Tick] /\ EventTypeOK'
    BY <1>0, <1>3 DEF EventTypeOK, evars
  <2> QED BY <2>1, <2>2, <2>4, <2>5, <2>6, <2>7 DEF Busy, EventKept, AllGoOn
<1>4. CASE CompletionNext /\ UNCHANGED <<evars, pvars, qvars, lastWake>>
  <2>1. CompletionKept' /\ Foot(CompletionPC) /\ SignalGoesOn
    BY <1>0, <1>4, CompletionStepKeeps
  <2>2. KInv' /\ NoUart'
    BY <2>1 DEF CompletionKept
  <2>3. /\ CompletionPC \cap RecvPC = {} /\ CompletionPC \cap AllocPC = {}
        /\ CompletionPC \cap QueuePC = {}
        /\ UNCHANGED evars /\ UNCHANGED pvars /\ UNCHANGED qvars
    BY <1>4 DEF CompletionPC, RecvPC, AllocPC, QueuePC
  <2>4. GroupGoesOn
    BY <1>0, <2>1, <2>2, <2>3, EventForeign
  <2>5. PoolKept' /\ AllocGoesOn
    BY <1>0, <2>1, <2>2, <2>3, PoolForeign
  <2>6. QueueKept' /\ QueueGoesOn
    BY <1>0, <2>1, <2>2, <2>3, QueueForeign
  <2>7. LeftOK' /\ lastWake' \in [Periodics -> Tick] /\ EventTypeOK'
    BY <1>0, <1>4, LeftStays DEF LeftOK, EventTypeOK, evars
  <2> QED BY <2>1, <2>2, <2>4, <2>5, <2>6, <2>7 DEF Busy, EventKept, AllGoOn
<1>5. CASE PeriodicNext /\ UNCHANGED <<evars, pvars, qvars, flag>>
  <2>0. PICK t \in Thread : PeriodicStep(t)
    BY <1>5 DEF PeriodicNext
  <2>1. KInv' /\ NoUart' /\ Foot(PeriodicPC)
    BY <1>0, <2>0, PeriodicKeeps
  <2>2. lastWake' \in [Periodics -> Tick]
    BY <1>0, <2>0, LastWakeTyped
  <2>3. /\ PeriodicPC \cap RecvPC = {} /\ PeriodicPC \cap AllocPC = {}
        /\ PeriodicPC \cap QueuePC = {} /\ PeriodicPC \cap CompletionPC = {}
        /\ UNCHANGED evars /\ UNCHANGED pvars /\ UNCHANGED qvars /\ flag' = flag
    BY <1>5 DEF PeriodicPC, RecvPC, AllocPC, QueuePC, CompletionPC
  <2>4. GroupGoesOn
    BY <1>0, <2>1, <2>3, EventForeign
  <2>5. PoolKept' /\ AllocGoesOn
    BY <1>0, <2>1, <2>3, PoolForeign
  <2>6. QueueKept' /\ QueueGoesOn
    BY <1>0, <2>1, <2>3, QueueForeign
  <2>7. CompletionKept' /\ SignalGoesOn
    BY <1>0, <2>1, <2>3, CompletionForeign
  <2>8. LeftOK' /\ EventTypeOK'
    BY <1>0, <1>5, LeftStays DEF LeftOK, EventTypeOK, evars
  <2> QED BY <2>1, <2>2, <2>4, <2>5, <2>6, <2>7, <2>8 DEF Busy, EventKept, AllGoOn
<1> QED BY <1>0, <1>1, <1>2, <1>3, <1>4, <1>5, NoUartSteps DEF ServiceNext

\* All the steps where the UART is not used.
LEMMA BusyKeeps ==
  ASSUME Busy, [ServicesNext]_svars
  PROVE  Busy' /\ AllGoOn
<1>1. CASE UNCHANGED svars
  <2>1. /\ k' = k /\ isr' = isr /\ pc' = pc /\ live' = live /\ left' = left
        /\ lastWake' = lastWake /\ flag' = flag
        /\ UNCHANGED evars /\ UNCHANGED pvars /\ UNCHANGED qvars
    BY <1>1 DEF svars, tvars, wvars
  <2>2. KInv /\ NoUart /\ isr' \in {"none", "tick"}
    BY <2>1 DEF Busy, EventKept, NoUart
  <2>3. Released(k', k, {}, "ETIMEOUT")
    <3>1. Released(k, k, {}, "ETIMEOUT")
      BY <2>2, KInvFacts, NothingReleased
    <3> QED BY <2>1, <3>1
  <2>4. /\ {} \in SUBSET Thread /\ \A t \in {} : k.stat[t] = "SUSPEND"
        /\ \A t, u \in {} : t = u
    OBVIOUS
  <2> QED BY <2>1, <2>2, <2>3, <2>4, BusyTick
<1> QED BY <1>1, BusyKernel, BusyService DEF ServicesNext

\* The types of the state the services do not share with the kernel.
Typed ==
  /\ target \in [Thread -> Thread] /\ stale = {}
  /\ LeftOK /\ lastWake \in [Periodics -> Tick] /\ flag \in BOOLEAN
  /\ EventTypeOK /\ PoolTypeOK /\ QueueTypeOK
  /\ RxInv /\ line \in Seq({"P", "X"}) /\ Len(line) <= LineMax

\* The inductive invariant: the UART alone, or the services as above.
SInv == KInv /\ Typed /\ (OnlyUart \/ Busy)

\* The command line grows to its limit and no further.
LEMMA LineTyped ==
  ASSUME line \in Seq({"P", "X"}), Len(line) <= LineMax, [ServicesNext]_svars
  PROVE  line' \in Seq({"P", "X"}) /\ Len(line') <= LineMax
<1>0. LineMax \in Nat
  BY UsartAssumption
<1>1. CASE UartReceive
  <2>1. PICK ch \in Char : line' = LineAfter(ch)
    BY <1>1 DEF UartReceive
  <2>2. CASE ch = "END"
    <3>1. line' = <<>>
      BY <2>1, <2>2 DEF LineAfter
    <3> QED BY <1>0, <3>1
  <2>3. CASE ch = "DEL" /\ line # <<>>
    <3>1. line' = SubSeq(line, 1, Len(line) - 1)
      BY <2>1, <2>3 DEF LineAfter, Front
    <3>2. Len(line) \in Nat /\ Len(line) > 0
      BY <2>3, EmptySeq
    <3> DEFINE n == Len(line) - 1
    <3>3. n \in Nat /\ \A i \in 1 .. n : line[i] \in {"P", "X"}
      BY <3>2
    <3> HIDE DEF n
    <3>4. /\ SubSeq(line, 1, n) \in Seq({"P", "X"})
          /\ Len(SubSeq(line, 1, n)) = IF 1 <= n THEN n - 1 + 1 ELSE 0
      BY <3>3, SubSeqProperties
    <3>5. n <= LineMax
      BY <1>0, <3>2 DEF n
    <3> QED BY <1>0, <3>1, <3>3, <3>4, <3>5 DEF n
  <2>4. CASE ch \in {"P", "X"} /\ Len(line) < LineMax
    <3>1. line' = Append(line, ch)
      BY <2>1, <2>4 DEF LineAfter
    <3>2. Append(line, ch) \in Seq({"P", "X"}) /\ Len(Append(line, ch)) = Len(line) + 1
      BY <2>4, AppendProperties
    <3> QED BY <1>0, <2>4, <3>1, <3>2
  <2>5. CASE line' = line
    BY <2>5
  <2>6. \/ ch = "END" \/ (ch = "DEL" /\ line # <<>>)
        \/ (ch \in {"P", "X"} /\ Len(line) < LineMax) \/ line' = line
    BY <2>1 DEF LineAfter, Char
  <2> QED BY <2>2, <2>3, <2>4, <2>5, <2>6
<1>2. CASE line' = line
  BY <1>2
<1>3. UartReceive \/ line' = line
  BY DEF ServicesNext, KernelNext, ServiceNext, svars, uvars, UsartNext,
         UartMdelay, EnterPowerMode, LeavePowerMode, UartRead
<1> QED BY <1>1, <1>2, <1>3

\* The threads' functions of module Threads that note a target are not used.
LEMMA TargetStays ==
  ASSUME target \in [Thread -> Thread], stale = {}, [ServicesNext]_svars
  PROVE  target' \in [Thread -> Thread] /\ stale' = {}
<1>1. CASE KernelNext
  BY <1>1 DEF KernelNext, Interrupt, CallSchedule, Sleep, SleepBlock, SleepMark,
              SleepSchedule, SleepReturn, Rescheduled
<1>2. CASE ServiceNext
  BY <1>2 DEF ServiceNext
<1>3. CASE UNCHANGED svars
  BY <1>3 DEF svars, tvars
<1> QED BY <1>1, <1>2, <1>3 DEF ServicesNext

\* Nobody is in a call, and nobody waits.
Quiet == (\A t \in Thread : pc[t] = "run") /\ \A w \in WaitList : k.wait[w] = <<>>

\* What the abstract objects see then.
LEMMA QuietCalls ==
  Quiet => /\ \A t \in Thread : /\ RecvCall(t) = [at |-> "none"]
                                /\ AllocCall(t) = [at |-> "none"]
           /\ ~TakesSignal /\ WaitCall = "none"
<1> SUFFICES ASSUME Quiet
             PROVE  /\ \A t \in Thread : /\ RecvCall(t) = [at |-> "none"]
                                         /\ AllocCall(t) = [at |-> "none"]
                    /\ ~TakesSignal /\ WaitCall = "none"
  OBVIOUS
<1>1. /\ \A t \in Thread : pc[t] = "run"
      /\ k.wait["event"] = <<>> /\ Waiter \in Thread
  BY ServicesAssumption, CompletionAssumption DEF Quiet
<1>2. \A t \in Thread : ~Waits(t, "event")
  BY <1>1, EmptyFacts DEF Waits
<1>3. \A t \in Thread : RecvCall(t) = [at |-> "none"]
  BY <1>1, <1>2 DEF RecvCall, Waits, Failed
<1>4. \A t \in Thread : AllocCall(t) = [at |-> "none"]
  BY <1>1 DEF AllocCall, AtTheirTry, Failed, Waits
<1>5. ~TakesSignal /\ WaitCall = "none"
  BY <1>1 DEF TakesSignal, WaitCall, Waits
<1> QED BY <1>3, <1>4, <1>5

\* The same in the next state.
LEMMA QuietCallsNext ==
  (Quiet => /\ \A t \in Thread : /\ RecvCall(t) = [at |-> "none"]
                                 /\ AllocCall(t) = [at |-> "none"]
            /\ ~TakesSignal /\ WaitCall = "none")'
BY QuietCalls, PTL

\* The UART's steps are none of the abstract objects'.
LEMMA QuietGoesOn ==
  ASSUME OnlyUart, OnlyUart', OthersStill
  PROVE  AllGoOn
<1>1. Quiet /\ Quiet'
  BY DEF OnlyUart, Quiet
<1>2. /\ set' = set /\ list' = list /\ q' = q /\ op' = op /\ flag' = flag
  BY DEF OthersStill, evars, pvars, qvars
<1>3. \A t \in Thread : RecvCall(t)' = RecvCall(t) /\ AllocCall(t)' = AllocCall(t)
  BY <1>1, QuietCalls, QuietCallsNext
<1>4. GroupGoesOn
  BY <1>2, <1>3, SameRecvCalls
<1>5. Used' = Used
  BY <1>2 DEF Used
<1>6. AllocGoesOn
  BY <1>3, <1>5, SameAllocCalls
<1>7. Items' = Items
  BY <1>2 DEF Items
<1>8. QueueGoesOn
  BY <1>2, <1>7, SameDataCalls DEF QueueGoesOn
<1>9. Given' = Given
  BY <1>1, <1>2, QuietCalls, QuietCallsNext DEF Given
<1>10. WaitCall' = WaitCall
  BY <1>1, QuietCalls, QuietCallsNext
<1>11. SignalGoesOn
  BY <1>9, <1>10 DEF SignalGoesOn
<1> QED BY <1>4, <1>6, <1>8, <1>11 DEF AllGoOn

\* Every step keeps the invariant, and is a step of the abstract objects or
\* changes nothing they show.
LEMMA SInvStep ==
  ASSUME SInv, [ServicesNext]_svars
  PROVE  SInv' /\ AllGoOn
<1>1. /\ target' \in [Thread -> Thread] /\ stale' = {}
      /\ RxInv' /\ line' \in Seq({"P", "X"}) /\ Len(line') <= LineMax
  BY TargetStays, RxStep, LineTyped DEF SInv, Typed
<1>2. CASE OnlyUart
  <2>1. KInv' /\ OnlyUart' /\ OthersStill
    BY <1>2, OnlyUartKeeps DEF SInv
  <2>2. AllGoOn
    BY <1>2, <2>1, QuietGoesOn
  <2>3. /\ LeftOK' /\ lastWake' \in [Periodics -> Tick] /\ flag' \in BOOLEAN
        /\ EventTypeOK' /\ PoolTypeOK' /\ QueueTypeOK'
    BY <2>1 DEF SInv, Typed, OthersStill, LeftOK, EventTypeOK, PoolTypeOK,
                QueueTypeOK, evars, pvars, qvars
  <2> QED BY <1>1, <2>1, <2>2, <2>3 DEF SInv, Typed
<1>3. CASE Busy
  <2>1. Busy' /\ AllGoOn
    BY <1>3, BusyKeeps
  <2>2. /\ KInv' /\ LeftOK' /\ lastWake' \in [Periodics -> Tick] /\ flag' \in BOOLEAN
        /\ EventTypeOK' /\ PoolTypeOK' /\ QueueTypeOK'
    BY <2>1 DEF Busy, EventKept, PoolKept, QueueKept, CompletionKept
  <2> QED BY <1>1, <2>1, <2>2 DEF SInv, Typed
<1> QED BY <1>2, <1>3 DEF SInv

\* After rt_system_scheduler_start every thread is ready or runs, and nobody
\* is in a call.
LEMMA StartsSound ==
  ASSUME ServicesInit, UartAlone
  PROVE  KInv /\ Quiet /\ (OnlyUart \/ NoUart)
<1>0. /\ Started = Thread /\ Idle \in Thread /\ InitPrio \in [Thread -> Prio]
      /\ isr = "none" /\ pc = [t \in Thread |-> "run"] /\ live \in Lives
  BY ServicesAssumption, ThreadsAssumption, KernelAssumption DEF ServicesInit, Init
<1>1. PICK cur \in Thread : k = KernelStart(Thread, cur, InitPrio)
  BY <1>0 DEF ServicesInit, Init
<1> DEFINE s == KernelStart(Thread, cur, InitPrio)
<1>2. /\ Sound(s, {}) /\ CurrentSound(s, {})
      /\ s.cur = cur /\ s.stat[cur] = "RUNNING"
      /\ s.stat[Idle] \in {"READY", "RUNNING"}
      /\ \A t \in Thread : s.stat[t] \in {"READY", "RUNNING"}
      /\ \A w \in WaitList : s.wait[w] = <<>>
      /\ s.nest = 0
  BY <1>0, KernelStartSound
<1>3. k = s
  BY <1>1
<1> HIDE DEF s
<1>4. KernelOK
  BY <1>2, <1>3 DEF KernelOK
<1>5. Quiet
  BY <1>0, <1>2, <1>3 DEF Quiet
<1>6. ControlOK
  <2>1. isr = "none" /\ live \in Lives
    BY <1>0
  <2>2. "run" \in ServicesPC
    BY DEF ServicesPC, PC
  <2>3. pc \in [Thread -> ServicesPC] /\ pc[Idle] = "run"
    BY <1>0, <2>2
  <2> QED BY <2>1, <2>3 DEF ControlOK
<1>7. ASSUME "usart" \in live PROVE OnlyUart
  BY <1>0, <1>5, <1>7 DEF UartAlone, OnlyUart, Quiet
<1>8. ASSUME "usart" \notin live PROVE NoUart
  <2>1. CurrentRuns /\ CanRun(k) /\ SuspendedKnown
    BY <1>2, <1>3 DEF CurrentRuns, CanRun, SuspendedKnown
  <2>2. \A t \in Thread, w \in WaitList : ~Waits(t, w)
    BY <1>5, EmptyFacts DEF Quiet, Waits
  <2>3. WaitsInPlace
    BY <2>2 DEF WaitsInPlace
  <2>4. Answered
    BY <1>0 DEF Answered, Places
  <2>5. NestOK
    BY <1>0, <1>2, <1>3 DEF NestOK, Locked
  <2>6. isr \in {"none", "tick"}
    BY <1>0
  <2> QED BY <1>8, <2>1, <2>3, <2>4, <2>5, <2>6 DEF NoUart
<1> QED BY <1>4, <1>5, <1>6, <1>7, <1>8 DEF KInv

\* The list of blocks holds all of them.
LEMMA PoolStarts ==
  ASSUME PoolInit
  PROVE  PoolTypeOK /\ Used = {} /\ got = [t \in Thread |-> RT_NULL]
<1>1. PoolSize \in Nat /\ PoolSize > 0 /\ TickMod \in Nat /\ TickMod > 2
  BY MemPoolAssumption, TickAssumption
<1>2. /\ list = [i \in 1 .. PoolSize |-> i] /\ count = PoolSize
      /\ got = [t \in Thread |-> RT_NULL] /\ before = [t \in Thread |-> 0]
  BY DEF PoolInit, PoolBlock
<1>3. /\ list \in Seq(PoolBlock) /\ Len(list) = PoolSize /\ DOMAIN list = 1 .. PoolSize
      /\ \A i \in 1 .. PoolSize : list[i] = i
  BY <1>1, <1>2 DEF PoolBlock
<1>4. IsInjective(list)
  BY <1>3 DEF IsInjective
<1>5. Used = {}
  BY <1>1, <1>3 DEF Used, Contains, PoolBlock
<1>6. 0 \in Tick
  BY <1>1 DEF Tick
<1> QED BY <1>2, <1>3, <1>4, <1>5, <1>6 DEF PoolTypeOK

\* The invariant holds when the threads start, and the abstract objects are in
\* their initial states.
LEMMA SInvInit ==
  ASSUME ServicesInit, UartAlone
  PROVE  /\ SInv /\ Group!Init /\ Pool!Init /\ Queue!Init /\ Completed!Init
<1>0. /\ KInv /\ Quiet /\ (OnlyUart \/ NoUart) /\ EventInit /\ PoolInit /\ QueueInit
      /\ CompletionInit /\ PeriodicInit /\ UsartInit
      /\ left = [t \in Thread |-> 0]
  BY StartsSound DEF ServicesInit
<1>1. /\ "event" \in WaitList /\ "pool" \in WaitList /\ "pop" \in WaitList
      /\ "push" \in WaitList /\ "done" \in WaitList /\ Waiter \in Thread
  BY ServicesAssumption, CompletionAssumption
<1>2. /\ \A t \in Thread : pc[t] = "run"
      /\ \A w \in WaitList : k.wait[w] = <<>>
      /\ \A t \in Thread, w \in WaitList : ~Waits(t, w)
  BY <1>0, EmptyFacts DEF Quiet, Waits
<1>3. LeftOK
  <2>1. 0 \in 0 .. TickHalf - 1
    BY TickHalfFacts DEF TickHalf
  <2> QED BY <1>0, <2>1 DEF LeftOK
<1>4. lastWake \in [Periodics -> Tick]
  <2>1. 0 \in Tick
    BY TickAssumption DEF Tick
  <2> QED BY <1>0, <2>1 DEF PeriodicInit
<1>5. EventTypeOK /\ Group!Init
  <2>1. EventTypeOK /\ set = {}
    BY <1>0 DEF EventInit, EventTypeOK, Nothing
  <2>2. \A t \in Thread : RecvCall(t) = [at |-> "none"]
    BY <1>0, QuietCalls
  <2> QED BY <2>1, <2>2 DEF Group!Init, Group!None
<1>6. PoolTypeOK /\ Pool!Init /\ BlocksWakeWaiters /\ \A t \in Thread : got[t] = RT_NULL
  <2>1. PoolTypeOK /\ Used = {} /\ got = [t \in Thread |-> RT_NULL]
    BY <1>0, PoolStarts
  <2>2. \A t \in Thread : AllocCall(t) = [at |-> "none"]
    BY <1>0, QuietCalls
  <2>3. BlocksWakeWaiters
    BY <1>1, <1>2 DEF BlocksWakeWaiters
  <2>4. Pool!Init
    BY <2>1, <2>2 DEF Pool!Init, Pool!None
  <2> QED BY <2>1, <2>3, <2>4
<1>7. QueueTypeOK /\ Shaped(q) /\ Queue!Init /\ op = [t \in Thread |-> Idles]
  <2>1. q = Emptied /\ op = [t \in Thread |-> Idles]
    BY <1>0 DEF QueueInit
  <2>2. Shaped(q) /\ Items = <<>>
    <3>1. Shaped(Emptied) /\ InQueue(Emptied) = <<>>
      BY EmptiedFacts
    <3>2. Items = InQueue(q)
      BY DEF Items, InQueue
    <3> QED BY <2>1, <3>1, <3>2
  <2>3. QueueTypeOK
    BY <2>1, <2>2 DEF QueueTypeOK, Shaped, Idles, Op
  <2>4. \A t \in Thread : DataCall(t) = [at |-> "none"]
    BY <2>1 DEF DataCall, Idles, Op
  <2>5. Queue!Init
    BY <2>2, <2>4 DEF Queue!Init, Queue!None
  <2> QED BY <2>1, <2>2, <2>3, <2>5
<1>8. flag = FALSE /\ Completed!Init
  <2>1. flag = FALSE /\ WaitCall = "none"
    BY <1>0, QuietCalls DEF CompletionInit
  <2>2. Given = FALSE
    BY <2>1 DEF Given
  <2> QED BY <2>1, <2>2 DEF Completed!Init
<1>9. RxInv /\ line \in Seq({"P", "X"}) /\ Len(line) <= LineMax
  BY <1>0, RxInit, UsartAssumption DEF UsartInit
<1>10. Typed
  BY <1>3, <1>4, <1>5, <1>6, <1>7, <1>8, <1>9 DEF Typed, ServicesInit, Init
<1>11. CASE NoUart
  <2>1. EventKept
    BY <1>0, <1>5, <1>11 DEF EventKept
  <2>2. PoolKept
    BY <1>0, <1>2, <1>6, <1>11 DEF PoolKept
  <2>3. QueueKept
    <3>1. \A t \in Thread : OpOK(t)
      BY <1>1, <1>2, <1>7 DEF OpOK, Idles, Op, DataPC
    <3>2. PopsWoken /\ PushesWoken
      BY <1>1, <1>2 DEF PopsWoken, PushesWoken
    <3> QED BY <1>0, <1>7, <1>11, <3>1, <3>2 DEF QueueKept
  <2>4. CompletionKept
    BY <1>0, <1>1, <1>2, <1>8, <1>11 DEF CompletionKept, WaitingPC
  <2>5. Busy
    BY <1>3, <1>4, <2>1, <2>2, <2>3, <2>4 DEF Busy
  <2> QED BY <1>0, <1>5, <1>6, <1>7, <1>8, <1>10, <2>5 DEF SInv
<1> QED BY <1>0, <1>5, <1>6, <1>7, <1>8, <1>10, <1>11 DEF SInv

-----------------------------------------------------------------------------
(* The timers of the threads in rt_thread_delay_until                      *)

\* A step takes no time, and touches no timer of a thread that is in
\* rt_thread_delay_until.
Leaves ==
  /\ KeepsTimely(k', k) /\ isr' = isr
  /\ \A t \in Thread : pc[t] \in PeriodicPC => SameTimer(k', k, t)

\* These threads are on no list.
LEMMA SparedLeaves ==
  ASSUME KInv, NoUart, NEW X, Spares(k', k, X), isr' = isr,
         \A x \in X : pc[x] \notin PeriodicPC
  PROVE  Leaves
<1>1. \A w \in WaitList : Places(w) \cap PeriodicPC = {}
  BY DEF Places, PeriodicPC
<1>2. \A t \in Thread : pc[t] \in PeriodicPC => OffLists(k, t)
  BY <1>1 DEF NoUart, WaitsInPlace, Waits, OffLists
<1> QED BY <1>2 DEF Leaves, Spares

\* What the functions that do not block do to the timers.
LEMMA CallsSpare ==
  ASSUME KInv, NoUart
  PROVE  /\ Spares(k, k, {}) /\ Spares(Schedule(k), k, {})
         /\ \A t \in Thread, e \in Error : Spares([k EXCEPT !.error[t] = e], k, {})
         /\ \A w \in WaitList :
               /\ Spares(IpcListResumeAll(k, w), k, {})
               /\ k.wait[w] # <<>> => Spares(Wake(k, w, "ERROR"), k, {})
<1>1. Sound(k, {}) /\ CurrentSound(k, {}) /\ k \in KernelState
  BY KInvFacts
<1>2. Spares(k, k, {})
  BY SparesSame DEF SameClock
<1>3. Spares(Schedule(k), k, {})
  BY <1>1, ScheduleSpares
<1>4. \A t \in Thread, e \in Error : Spares([k EXCEPT !.error[t] = e], k, {})
  BY <1>1, ErrorSpares
<1>5. \A w \in WaitList : Spares(IpcListResumeAll(k, w), k, {})
  BY <1>1, ResumeAllSound
<1>6. ASSUME NEW w \in WaitList, k.wait[w] # <<>>
      PROVE  Spares(Wake(k, w, "ERROR"), k, {})
  <2>1. Head(k.wait[w]) \in Thread /\ Contains(k.wait[w], Head(k.wait[w]))
    BY <1>1, <1>6, HeadFacts DEF KernelState
  <2>2. Spares(Answer(k, Head(k.wait[w]), "ERROR"), k, {})
    BY <1>1, <2>1, WakeSpares DEF Error
  <2> QED BY <2>2 DEF Wake, Answer
<1> QED BY <1>2, <1>3, <1>4, <1>5, <1>6

\* rt_schedule behind a function that has released threads.
LEMMA ThenSpares ==
  ASSUME NEW r, NEW X, NEW e, Released(r, k, X, e), Spares(r, k, {})
  PROVE  Spares(Schedule(r), k, {})
BY ScheduleSpares, SparesTrans DEF Released

\* Waking the first waiter of a list.
LEMMA ResumeFirstSpares ==
  ASSUME KInv, NoUart, NEW w \in WaitList, w # "event"
  PROVE  /\ Spares(ResumeFirst(k, w), k, {})
         /\ Spares(Schedule(ResumeFirst(k, w)), k, {})
<1>1. Spares(ResumeFirst(k, w), k, {})
  <2>1. CASE k.wait[w] = <<>>
    BY <2>1, CallsSpare DEF ResumeFirst
  <2>2. CASE k.wait[w] # <<>>
    <3>1. Head(k.wait[w]) \in Thread /\ Contains(k.wait[w], Head(k.wait[w]))
      BY <2>2, KInvFacts, HeadFacts DEF KernelState
    <3>2. Spares(ResumeThread(k, Head(k.wait[w])), k, {})
      BY <3>1, KInvFacts, WakeSpares DEF Error
    <3> QED BY <2>2, <3>2 DEF ResumeFirst
  <2> QED BY <2>1, <2>2
<1>2. \E X : Released(ResumeFirst(k, w), k, X, "EOK")
  BY ResumeFirstReleased
<1> QED BY <1>1, <1>2, ThenSpares

\* A thread suspends itself.
LEMMA SuspendedSpares ==
  ASSUME NEW s, Sound(s, {}), NEW t \in Thread
  PROVE  Spares(Suspended(s, t), s, {t})
<1> DEFINE e == [s EXCEPT !.error[t] = "EOK"]
<1>1. Sound(e, {}) /\ Spares(e, s, {t})
  <2>1. "EOK" \in Error
    BY DEF Error
  <2>2. /\ Sound(e, {}) /\ SameThreads(e, s) /\ SameClock(e, s)
        /\ e.timers = s.timers /\ e.wait = s.wait /\ e.group = s.group
        /\ Told(e, s, t, "EOK")
    BY <2>1, SetErrorSound
  <2>3. Spares(e, s, {})
    BY <2>1, ErrorSpares
  <2> HIDE DEF e
  <2> QED BY <2>2, <2>3, SparesMore
<1>2. Suspended(s, t) = SuspendThread(e, t)
  BY DEF Suspended
<1> HIDE DEF e
<1>3. Spares(SuspendThread(e, t), e, {t})
  BY <1>1, SuspendResumeSpare
<1> QED BY <1>1, <1>2, <1>3, SparesTrans

\* It sleeps,
LEMMA SleepSpares ==
  ASSUME NEW s, Sound(s, {}), NEW t \in Thread,
         s.stat[t] \in {"READY", "RUNNING"}, NEW d \in 1 .. TickHalf - 1
  PROVE  Spares(TimerStart(Suspended(s, t), t, d), s, {t})
<1> DEFINE u == Suspended(s, t)
<1>1. Sound(u, {}) /\ u.stat[t] = "SUSPEND" /\ t \notin {}
  BY SuspendedSound DEF OnlyStat
<1>2. Spares(u, s, {t})
  BY SuspendedSpares
<1> HIDE DEF u
<1>3. Spares(TimerStart(u, t, d), u, {t})
  BY <1>1, TimerStartSpares
<1>4. Spares(TimerStart(u, t, d), s, {t})
  BY <1>2, <1>3, SparesTrans
<1> QED BY <1>4 DEF u

\* or waits, at the end of a list or at its front.
LEMMA AwaitSpares ==
  ASSUME NEW s, Sound(s, {}), NEW w \in WaitList, NEW t \in Thread,
         s.stat[t] \in {"READY", "RUNNING"},
         NEW timeout \in {Forever} \cup 0 .. TickHalf - 1
  PROVE  /\ Spares(AwaitLast(s, w, t, timeout), s, {t})
         /\ Spares(AwaitFirst(s, w, t, timeout), s, {t})
<1> DEFINE u == Suspended(s, t)
           last == WaitInsert(u, w, t, "FIFO")
           first == [u EXCEPT !.wait[w] = <<t>> \o @]
<1>1. Sound(u, {}) /\ Spares(u, s, {t})
  BY SuspendedSound, SuspendedSpares
<1>2. /\ AwaitLast(s, w, t, timeout) = Armed(last, t, timeout)
      /\ AwaitFirst(s, w, t, timeout) = Armed(first, t, timeout)
      /\ last = AwaitLast(s, w, t, 0) /\ first = AwaitFirst(s, w, t, 0)
  BY DEF AwaitLast, AwaitFirst, Armed
<1> HIDE DEF u
<1>3. /\ last.timers = u.timers /\ SameClock(last, u)
      /\ first.timers = u.timers /\ SameClock(first, u)
  BY <1>1 DEF WaitInsert, Sound, KernelState, SameClock
<1> HIDE DEF last, first
<1>4. Blocked(last, s, w, t, "EOK") /\ Blocked(first, s, w, t, "EOK")
  <2>1. 0 \in Int
    OBVIOUS
  <2> QED BY <1>2, <2>1, AwaitSound
<1>5. ASSUME NEW z, z.timers = u.timers, SameClock(z, u), Blocked(z, s, w, t, "EOK")
      PROVE  Spares(Armed(z, t, timeout), s, {t})
  <2>1. Sound(z, {}) /\ z.stat[t] = "SUSPEND" /\ OnWait(z, s, w, t)
    BY <1>5 DEF Blocked, OnlyStat
  <2>2. Spares(z, s, {t})
    BY <1>1, <1>5, <2>1 DEF Spares, KeepsTimely, Timely, SameTimer, SameClock,
                            OffLists, OnWait
  <2>3. Spares(IF timeout > 0 THEN TimerStart(z, t, timeout) ELSE z, s, {t})
    BY <2>1, <2>2, TimeoutSpares
  <2> QED BY <2>3 DEF Armed
<1> QED BY <1>2, <1>3, <1>4, <1>5

\* The timeouts of the calls are as the timers want them.
LEMMA TimeoutFacts ==
  /\ \A x \in Timeouts : x \in {Forever} \cup 0 .. TickHalf - 1
  /\ \A t \in Thread : \A x \in Retried[t] : x \in {Forever} \cup 0 .. TickHalf - 1
<1>1. 0 \in 0 .. TickHalf - 1
  BY TickHalfFacts, TickAssumption DEF TickHalf
<1>2. Timeouts \subseteq {Forever} \cup 0 .. TickHalf - 1
  BY <1>1, WaitingAssumption, TickHalfFacts DEF NoWait
<1>3. \A t \in Thread : Retried[t] \subseteq Timeouts
  BY WaitingAssumption
<1> QED BY <1>2, <1>3

\* Turning waiters away.
LEMMA DrainLeaves ==
  ASSUME KInv, NoUart, NEW t \in Thread, NEW w \in WaitList, NEW test, NEW wake,
         NEW done, DrainTest(t, w, test, wake, done) \/ DrainWake(t, w, test, wake)
  PROVE  Leaves
<1>1. Spares(k', k, {}) /\ isr' = isr
  BY CallsSpare DEF DrainTest, DrainWake
<1> QED BY <1>1, SparedLeaves

-----------------------------------------------------------------------------
(* Service by service                                                      *)

\* The steps of an event.
LEMMA EventLeaves ==
  ASSUME EventKept, EventNext
  PROVE  Leaves
<1>0. /\ KInv /\ NoUart /\ EventTypeOK /\ Sound(k, {}) /\ CurrentSound(k, {})
      /\ "event" \in WaitList
  BY KInvFacts, ServicesAssumption DEF EventKept
<1>1. ASSUME NEW flags \in Sends
      PROVE  Spares(Sent(flags).k, k, {}) /\ Spares(Schedule(Sent(flags).k), k, {})
  <2>1. flags \in SUBSET Bit
    BY EventAssumption
  <2>2. PICK X : SentTo(Sent(flags), set \cup flags,
                        {x \in Thread : Waits(x, "event")}, X)
    BY <1>0, <2>1, SentSound
  <2>3. Sound(Sent(flags).k, {}) /\ Spares(Sent(flags).k, k, {})
    BY <2>2 DEF SentTo
  <2>4. CurrentSound(Sent(flags).k, {})
    BY <1>0, <2>1, SentReleased DEF Released
  <2> QED BY <2>3, <2>4, ScheduleSpares, SparesTrans
<1>2. CASE IsrEventSend
  <2>1. Spares(k', k, {}) /\ isr' = isr
    BY <1>0, <1>1, <1>2, CallsSpare DEF IsrEventSend
  <2> QED BY <1>0, <2>1, SparedLeaves
<1>3. ASSUME NEW t \in Thread, EventStep(t) PROVE Leaves
  <2>1. CASE RecvWait(t)
    <3>1. PICK timeout \in Timeouts \ {NoWait} :
            k' = Block(k, "event", t, EventFlag, timeout)
      BY <2>1 DEF RecvWait
    <3>2. Calls(t, "event") /\ isr' = isr
      BY <2>1 DEF RecvWait
    <3>3. pc[t] = "run" /\ k.stat[t] \in {"READY", "RUNNING"}
      BY <1>0, <3>2, CallerFacts
    <3>4. Spares(k', k, {t})
      BY <1>0, <3>1, <3>3, TimeoutFacts, BlockSpares
    <3>5. \A x \in {t} : pc[x] \notin PeriodicPC
      BY <3>3 DEF PeriodicPC
    <3> QED BY <1>0, <3>2, <3>4, <3>5, SparedLeaves
  <2>2. CASE EventSend(t)
    <3>1. Spares(k', k, {}) /\ isr' = isr
      BY <1>1, <2>2 DEF EventSend
    <3> QED BY <1>0, <3>1, SparedLeaves
  <2>3. CASE RecvNow(t) \/ RecvRefused(t) \/ RecvSchedule(t) \/ RecvReturn(t)
             \/ EventReset(t) \/ EventDetach(t)
    <3>1. Spares(k', k, {}) /\ isr' = isr
      BY <1>0, <2>3, CallsSpare
         DEF RecvNow, RecvRefused, RecvSchedule, ScheduleIn, RecvReturn, Back,
             EventReset, EventDetach, Error
    <3> QED BY <1>0, <3>1, SparedLeaves
  <2>4. CASE EventDrain(t)
    BY <1>0, <2>4, DrainLeaves DEF EventDrain
  <2> QED BY <1>3, <2>1, <2>2, <2>3, <2>4 DEF EventStep
<1> QED BY <1>2, <1>3 DEF EventNext

\* The steps of a memory pool.
LEMMA PoolLeaves ==
  ASSUME KInv, NoUart, LeftOK, PoolNext
  PROVE  Leaves
<1>0. Sound(k, {}) /\ "pool" \in WaitList /\ "pool" # "event"
  BY KInvFacts, ServicesAssumption
<1>1. ASSUME NEW t \in Thread, Executes(t), pc[t] \in {"run", "alloc_retry"},
             NEW time \in {Forever} \cup 0 .. TickHalf - 1, Try(t, time), isr' = isr
      PROVE  Leaves
  <2>1. pc[t] \notin Blocking /\ \A x \in {t} : pc[x] \notin PeriodicPC
    BY <1>1 DEF Blocking, PeriodicPC
  <2>2. Spares(k', k, {t})
    <3>1. k.stat[t] \in {"READY", "RUNNING"}
      BY <1>1, <2>1, ExecutingRuns
    <3>2. Spares(AwaitFirst(k, "pool", t, time), k, {t})
      BY <1>0, <1>1, <3>1, AwaitSpares
    <3>3. Spares(k, k, {t})
      BY CallsSpare, SparesMore
    <3> QED BY <1>1, <3>2, <3>3 DEF Try, Take, NoneLeft, AwaitBlock
  <2> QED BY <1>1, <2>1, <2>2, SparedLeaves
<1>2. /\ Spares(WakeForBlock(k), k, {}) /\ Spares(Schedule(WakeForBlock(k)), k, {})
  BY <1>0, WakeForBlockIs, ResumeFirstSpares
<1>3. CASE IsrAlloc \/ IsrFree
  <2>1. Spares(k', k, {}) /\ isr' = isr
    BY <1>2, <1>3, CallsSpare DEF IsrAlloc, IsrFree
  <2> QED BY <2>1, SparedLeaves
<1>4. ASSUME NEW t \in Thread, PoolStep(t) PROVE Leaves
  <2>1. CASE Alloc(t)
    BY <1>1, <2>1, TimeoutFacts DEF Alloc, Calls, At
  <2>2. CASE AllocRetry(t)
    <3>1. left[t] \in {Forever} \cup 0 .. TickHalf - 1
      BY DEF LeftOK
    <3> QED BY <1>1, <2>2, <3>1 DEF AllocRetry, At
  <2>3. CASE AllocSchedule(t) \/ AllocWoken(t) \/ AllocReturn(t) \/ Free(t)
             \/ PoolDetach(t)
    <3>1. Spares(k', k, {}) /\ isr' = isr
      BY <1>2, <2>3, CallsSpare
         DEF AllocSchedule, ScheduleIn, AllocWoken, AllocReturn, Back, Free,
             PoolDetach, Error
    <3> QED BY <3>1, SparedLeaves
  <2>4. CASE PoolDrain(t)
    BY <1>0, <2>4, DrainLeaves DEF PoolDrain
  <2> QED BY <1>4, <2>1, <2>2, <2>3, <2>4 DEF PoolStep
<1> QED BY <1>3, <1>4 DEF PoolNext

\* The steps of a data queue.
LEMMA QueueLeaves ==
  ASSUME KInv, NoUart, LeftOK, QueueNext
  PROVE  Leaves
<1>0. /\ Sound(k, {}) /\ "pop" \in WaitList /\ "push" \in WaitList
      /\ "pop" # "event" /\ "push" # "event"
  BY KInvFacts, ServicesAssumption
<1>1. /\ Spares(ResumeFirst(k, "pop"), k, {})
      /\ Spares(Schedule(ResumeFirst(k, "pop")), k, {})
      /\ Spares(WakePusher(k, Leave(q)), k, {})
      /\ Spares(Schedule(WakePusher(k, Leave(q))), k, {})
  BY <1>0, CallsSpare, ResumeFirstSpares DEF WakePusher
<1>2. ASSUME NEW t \in Thread, Executes(t), pc[t] \in {"run", "queue_woken"}, NEW x,
             NEW time \in {Forever} \cup 0 .. TickHalf - 1,
             TryPush(t, x, time) \/ TryPop(t, time), isr' = isr
      PROVE  Leaves
  <2>1. pc[t] \notin Blocking /\ \A y \in {t} : pc[y] \notin PeriodicPC
    BY <1>2 DEF Blocking, PeriodicPC
  <2>2. Spares(k', k, {t})
    <3>1. k.stat[t] \in {"READY", "RUNNING"}
      BY <1>2, <2>1, ExecutingRuns
    <3>2. /\ Spares(AwaitLast(k, "pop", t, time), k, {t})
          /\ Spares(AwaitLast(k, "push", t, time), k, {t})
      BY <1>0, <1>2, <3>1, AwaitSpares
    <3>3. /\ Spares(k, k, {t}) /\ Spares(ResumeFirst(k, "pop"), k, {t})
          /\ Spares(WakePusher(k, Leave(q)), k, {t})
      BY <1>1, CallsSpare, SparesMore
    <3> QED BY <1>2, <3>2, <3>3 DEF TryPush, TryPop, Through, Refused, Await
  <2> QED BY <1>2, <2>1, <2>2, SparedLeaves
<1>3. CASE IsrPush \/ IsrPop
  <2>1. Spares(k', k, {}) /\ isr' = isr
    BY <1>1, <1>3, CallsSpare DEF IsrPush, IsrPop, Scheduled
  <2> QED BY <2>1, SparedLeaves
<1>4. ASSUME NEW t \in Thread, QueueStep(t) PROVE Leaves
  <2>1. CASE Push(t) \/ Pop(t)
    BY <1>2, <2>1, TimeoutFacts DEF Push, Pop, Calls, At
  <2>2. CASE QueueWoken(t)
    <3>1. left[t] \in {Forever} \cup 0 .. TickHalf - 1 /\ Executes(t)
          /\ pc[t] = "queue_woken" /\ isr' = isr
      BY <2>2 DEF LeftOK, QueueWoken, At
    <3>2. CASE Refused(t)
      <4>1. Spares(k', k, {})
        BY <3>2, CallsSpare DEF Refused
      <4> QED BY <3>1, <4>1, SparedLeaves
    <3>3. CASE TryPush(t, op[t].item, left[t]) \/ TryPop(t, left[t])
      BY <1>2, <3>1, <3>3
    <3> QED BY <2>2, <3>2, <3>3 DEF QueueWoken
  <2>3. CASE QueueSchedule(t) \/ QueueReturn(t) \/ ResetStart(t)
    <3>1. Spares(k', k, {}) /\ isr' = isr
      BY <2>3, CallsSpare DEF QueueSchedule, ScheduleIn, QueueReturn, Back,
                              ResetStart, Error
    <3> QED BY <3>1, SparedLeaves
  <2>4. CASE ResetLock(t) \/ ResetUnlock(t)
    <3>1. \/ k' = Schedule(k)
          \/ k'.timers = k.timers /\ SameClock(k', k) /\ k'.wait = k.wait
      BY <2>4, KInvFacts DEF ResetLock, ResetUnlock, SameClock, KernelState
    <3>2. Spares(k', k, {}) /\ isr' = isr
      BY <2>4, <3>1, CallsSpare, SparesSame DEF ResetLock, ResetUnlock
    <3> QED BY <3>2, SparedLeaves
  <2>5. CASE ResetDrain(t)
    BY <1>0, <2>5, DrainLeaves DEF ResetDrain
  <2> QED BY <1>4, <2>1, <2>2, <2>3, <2>4, <2>5 DEF QueueStep
<1> QED BY <1>3, <1>4 DEF QueueNext

\* The steps of a completion.
LEMMA CompletionLeaves ==
  ASSUME KInv, NoUart, CompletionNext
  PROVE  Leaves
<1>0. Sound(k, {}) /\ "done" \in WaitList /\ "done" # "event"
  BY KInvFacts, ServicesAssumption
<1>1. CASE IsrDone
  <2>1. Spares(k', k, {}) /\ isr' = isr
    BY <1>0, <1>1, CallsSpare, ResumeFirstSpares DEF IsrDone
  <2> QED BY <2>1, SparedLeaves
<1>2. ASSUME NEW t \in Thread, CompletionStep(t) PROVE Leaves
  <2>1. CASE WaitBlock(t)
    <3>1. PICK timeout \in Timeouts \ {NoWait} : k' = AwaitLast(k, "done", t, timeout)
      BY <2>1 DEF WaitBlock
    <3>2. Calls(t, "completion") /\ isr' = isr
      BY <2>1 DEF WaitBlock
    <3>3. pc[t] = "run" /\ k.stat[t] \in {"READY", "RUNNING"}
      BY <3>2, CallerFacts
    <3>4. Spares(k', k, {t})
      BY <1>0, <3>1, <3>3, TimeoutFacts, AwaitSpares
    <3>5. \A x \in {t} : pc[x] \notin PeriodicPC
      BY <3>3 DEF PeriodicPC
    <3> QED BY <3>2, <3>4, <3>5, SparedLeaves
  <2>2. CASE WaitNow(t) \/ WaitRefused(t) \/ WaitSchedule(t) \/ WaitReturn(t)
             \/ DoneTest(t) \/ DoneSet(t)
    <3>1. Spares(k', k, {}) /\ isr' = isr
      BY <1>0, <2>2, CallsSpare, ResumeFirstSpares
         DEF WaitNow, WaitRefused, WaitSchedule, ScheduleIn, WaitReturn, Back,
             DoneTest, DoneSet, Error
    <3> QED BY <3>1, SparedLeaves
  <2> QED BY <1>2, <2>1, <2>2 DEF CompletionStep
<1> QED BY <1>1, <1>2 DEF CompletionNext

\* rt_schedule at the end of a call, and rt_thread_sleep.
LEMMA KernelLeaves ==
  ASSUME KInv, NoUart, NEW t \in Thread, CallSchedule(t) \/ Sleep(t)
  PROVE  Leaves
<1>1. CASE SleepBlock(t)
  <2>1. PICK d \in Delays : k' = ArmSleep([k EXCEPT !.error[t] = "EOK"], t, d)
    BY <1>1 DEF SleepBlock
  <2>2. k' = TimerStart(Suspended(k, t), t, d)
    BY <2>1 DEF ArmSleep, Suspended
  <2>3. /\ Executes(t) /\ pc[t] = "run" /\ isr' = isr /\ d \in 1 .. TickHalf - 1
        /\ pc[t] \notin Blocking /\ \A x \in {t} : pc[x] \notin PeriodicPC
    BY <1>1, ThreadsAssumption DEF SleepBlock, At, Blocking, PeriodicPC
  <2>4. k.stat[t] \in {"READY", "RUNNING"}
    BY <2>3, ExecutingRuns
  <2>5. Spares(k', k, {t})
    BY <2>2, <2>3, <2>4, KInvFacts, SleepSpares
  <2> QED BY <2>3, <2>5, SparedLeaves
<1>2. CASE CallSchedule(t) \/ SleepMark(t) \/ SleepSchedule(t) \/ SleepReturn(t)
  <2>1. Spares(k', k, {}) /\ isr' = isr
    BY <1>2, CallsSpare DEF CallSchedule, SleepMark, SleepSchedule, SleepReturn, Error
  <2> QED BY <2>1, SparedLeaves
<1> QED BY <1>1, <1>2 DEF Sleep

-----------------------------------------------------------------------------
(* rt_thread_delay_until wakes its thread at the tick it was asked for     *)

\* The timers are in order, and when the tick handler has returned none is due.
InTime == Timely(k, IF isr = "none" THEN 1 ELSE 0)

\* The timer of a thread in rt_thread_delay_until is set to *tick.
SetToLastWake ==
  \A t \in Periodics :
     pc[t] \in PeriodicPC /\ Contains(k.timers, t) => k.timeout[t] = lastWake[t]

\* The timer of a thread that is taken off the list has come to its tick.
OnTick ==
  \A t \in Periodics :
     (/\ pc[t] \in PeriodicPC
      /\ Contains(k.timers, t) /\ ~Contains(k'.timers, t))
       => k.tick = lastWake[t]

WakeInv == SInv /\ (OnlyUart \/ (Busy /\ InTime /\ SetToLastWake))

\* What is left of the period, counted from now, ends at the tick that lies a
\* period after the last.
LEMMA TicksLeftFacts ==
  ASSUME NEW t \in Periodics, lastWake[t] \in Tick, k.tick \in Tick,
         NEW inc \in Delays, TicksFrom(lastWake[t], k.tick) < inc
  PROVE  /\ TicksLeft(t, inc) \in 1 .. TickHalf - 1
         /\ (k.tick + TicksLeft(t, inc)) % TickMod = (lastWake[t] + inc) % TickMod
<1> DEFINE M == TickMod
           w == lastWake[t]
           n == k.tick
           e == (n - w) % M
           x == (w + inc) % M
           d == (x - n) % M
<1>1. /\ M \in Nat /\ M > 2 /\ TickHalf \in Nat /\ 2 * TickHalf < M
      /\ w \in 0 .. M - 1 /\ n \in 0 .. M - 1 /\ inc \in 1 .. TickHalf - 1
  BY TickHalfFacts, ThreadsAssumption DEF Tick
<1>2. e < inc /\ d = TicksLeft(t, inc)
  BY DEF TicksLeft, TicksFrom
<1> HIDE DEF M, w, n
<1>3. e = IF n < w THEN n - w + M ELSE n - w
  BY <1>1, WrapFacts
<1>4. x = IF w + inc < M THEN w + inc ELSE w + inc - M
  BY <1>1, WrapFacts
<1> HIDE DEF e, x
<1>5. d = IF x < n THEN x - n + M ELSE x - n
  BY <1>1, <1>4, WrapFacts
<1> HIDE DEF d
<1>6. d = inc - e /\ e \in 0 .. M - 1
  BY <1>1, <1>2, <1>3, <1>4, <1>5
<1>7. d \in 1 .. TickHalf - 1
  BY <1>1, <1>2, <1>6
<1>8. (n + d) % M = IF n + d < M THEN n + d ELSE n + d - M
  BY <1>1, <1>7, WrapFacts
<1>9. (n + d) % M = x
  BY <1>1, <1>4, <1>5, <1>7, <1>8
<1> QED BY <1>2, <1>7, <1>9 DEF M, w, n, x

\* The steps of rt_thread_delay_until.
LEMMA PeriodicLeaves ==
  ASSUME Busy, SetToLastWake, NEW t \in Thread, PeriodicStep(t)
  PROVE  Leaves /\ SetToLastWake'
<1>0. /\ KInv /\ NoUart /\ lastWake \in [Periodics -> Tick]
      /\ Sound(k, {}) /\ k \in KernelState /\ pc \in [Thread -> ServicesPC]
      /\ Periodics \subseteq Thread
  BY KInvFacts, PeriodicAssumption DEF Busy, EventKept
<1>1. CASE UntilBlock(t)
  <2>1. PICK inc \in Delays :
          /\ TicksFrom(lastWake[t], k.tick) < inc
          /\ k' = TimerStart(Suspended(k, t), t, TicksLeft(t, inc))
          /\ lastWake' = [lastWake EXCEPT ![t] = (@ + inc) % TickMod]
    BY <1>1 DEF UntilBlock
  <2>2. /\ Calls(t, "sleep") /\ isr' = isr /\ t \in Periodics
        /\ pc' = [pc EXCEPT ![t] = "until_sched"]
    BY <1>1 DEF UntilBlock, Goto
  <2>3. pc[t] = "run" /\ k.stat[t] \in {"READY", "RUNNING"}
    BY <1>0, <2>2, CallerFacts
  <2> DEFINE d == TicksLeft(t, inc)
             u == Suspended(k, t)
  <2>4. d \in 1 .. TickHalf - 1 /\ (k.tick + d) % TickMod = (lastWake[t] + inc) % TickMod
    BY <1>0, <2>1, <2>2, TicksLeftFacts DEF KernelState
  <2> HIDE DEF d
  <2>5. Spares(k', k, {t})
    BY <1>0, <2>1, <2>3, <2>4, SleepSpares DEF d
  <2>6. \A x \in {t} : pc[x] \notin PeriodicPC
    BY <2>3 DEF PeriodicPC
  <2>7. Leaves
    BY <1>0, <2>2, <2>5, <2>6, SparedLeaves
  <2>8. k'.timeout[t] = lastWake'[t]
    <3>1. u \in KernelState /\ u.tick = k.tick
      BY <1>0, <2>3, SuspendedSound DEF Sound
    <3> HIDE DEF u
    <3>2. TimerStart(u, t, d).timeout[t] = (u.tick + d) % TickMod
      BY <3>1 DEF TimerStart, KernelState
    <3>3. lastWake'[t] = (lastWake[t] + inc) % TickMod
      BY <1>0, <2>1, <2>2
    <3> QED BY <2>1, <2>4, <3>1, <3>2, <3>3 DEF u, d
  <2>9. ASSUME NEW x \in Periodics, x # t, pc'[x] \in PeriodicPC, Contains(k'.timers, x)
        PROVE  k'.timeout[x] = lastWake'[x]
    <3>1. pc[x] \in PeriodicPC /\ lastWake'[x] = lastWake[x] /\ x \in Thread
      BY <1>0, <2>1, <2>2, <2>9
    <3> QED BY <2>7, <2>9, <3>1 DEF Leaves, SameTimer, SetToLastWake
  <2> QED BY <2>7, <2>8, <2>9 DEF SetToLastWake
<1>2. CASE UntilNow(t) \/ UntilSchedule(t) \/ UntilReturn(t)
  <2>1. Spares(k', k, {}) /\ isr' = isr
    BY <1>0, <1>2, CallsSpare
       DEF UntilNow, UntilSchedule, ScheduleIn, UntilReturn, Back, Error
  <2>2. Leaves
    BY <1>0, <2>1, SparedLeaves
  <2>3. ASSUME NEW x \in Periodics, pc'[x] \in PeriodicPC
        PROVE  pc[x] \in PeriodicPC /\ lastWake'[x] = lastWake[x]
    BY <1>0, <1>2, <2>3 DEF UntilNow, UntilSchedule, ScheduleIn, UntilReturn, Back,
                            Goto, Calls, At, PeriodicPC
  <2> QED BY <1>0, <2>2, <2>3 DEF Leaves, SameTimer, SetToLastWake
<1> QED BY <1>1, <1>2 DEF PeriodicStep

\* A step of another service.
LEMMA OthersLeave ==
  ASSUME KInv, SetToLastWake, InTime, Leaves, NEW A, Foot(A), A \cap PeriodicPC = {},
         lastWake' = lastWake
  PROVE  InTime' /\ SetToLastWake' /\ OnTick
<1>1. InTime'
  BY DEF Leaves, InTime, KeepsTimely
<1>2. ASSUME NEW t \in Periodics, pc'[t] \in PeriodicPC PROVE pc[t] \in PeriodicPC
  <2>1. t \in Thread
    BY PeriodicAssumption
  <2>2. Untouched(t) \/ pc'[t] \in Points(A)
    BY <2>1 DEF Foot
  <2>3. pc'[t] \notin Points(A)
    BY <1>2 DEF Points, PeriodicPC
  <2> QED BY <1>2, <2>2, <2>3 DEF Untouched
<1>3. SetToLastWake' /\ OnTick
  BY <1>2, PeriodicAssumption DEF Leaves, SameTimer, SetToLastWake, OnTick
<1> QED BY <1>1, <1>3

\* The services' steps keep the timers in order and as they were set, and wake
\* no thread of rt_thread_delay_until; the tick handler does at its tick.
LEMMA WakesStep ==
  ASSUME WakeInv, [ServicesNext]_svars
  PROVE  WakeInv' /\ OnTick
<1>1. SInv'
  BY SInvStep DEF WakeInv
<1>2. CASE OnlyUart
  <2>1. OnlyUart' /\ \A t \in Thread : pc[t] = "run"
    BY <1>2, OnlyUartKeeps DEF WakeInv, SInv, OnlyUart
  <2> QED BY <1>1, <2>1, PeriodicAssumption DEF WakeInv, OnTick, PeriodicPC
<1>3. ASSUME Busy, InTime, SetToLastWake PROVE InTime' /\ SetToLastWake' /\ OnTick
  <2>0. /\ EventKept /\ PoolKept /\ QueueKept /\ CompletionKept /\ LeftOK
        /\ KInv /\ NoUart /\ EventTypeOK /\ lastWake \in [Periodics -> Tick]
        /\ KernelOK
    BY <1>3 DEF Busy, EventKept, KInv
  <2>1. CASE UNCHANGED svars
    <3>1. k' = k /\ isr' = isr /\ pc' = pc /\ lastWake' = lastWake
      BY <2>1 DEF svars, tvars
    <3> QED BY <1>3, <3>1 DEF InTime, SetToLastWake, OnTick
  <2>2. CASE KernelNext
    <3>1. lastWake' = lastWake /\ live' = live
      BY <2>2 DEF KernelNext, wvars
    <3>2. CASE Interrupt
      <4>1. TickStep /\ pc' = pc /\ Sound(k, {}) /\ CurrentSound(k, {})
        BY <2>0, <3>2 DEF Interrupt, KernelOK
      <4>2. InTime'
        BY <1>3, <4>1, TickStepTimely DEF InTime
      <4>3. \A t \in Thread : \/ SameTimer(k', k, t)
                              \/ ~Contains(k'.timers, t) /\ k.timeout[t] = k.tick
        BY <1>3, <4>1, TickSpares DEF InTime
      <4> QED BY <1>3, <3>1, <4>1, <4>2, <4>3, PeriodicAssumption
              DEF SameTimer, SetToLastWake, OnTick
    <3>3. CASE \E t \in Thread : CallSchedule(t) \/ Sleep(t)
      <4>1. Foot(SleepPC) /\ SleepPC \cap PeriodicPC = {}
        BY <2>0, <3>1, <3>3, CallScheduleStep, SleepKeeps DEF SleepPC, PeriodicPC
      <4>2. Leaves
        BY <2>0, <3>3, KernelLeaves
      <4> QED BY <1>3, <2>0, <3>1, <4>1, <4>2, OthersLeave
    <3> QED BY <2>2, <3>2, <3>3 DEF KernelNext
  <2>3. CASE ServiceNext
    <3>1. CASE EventNext /\ UNCHANGED <<pvars, qvars, flag, lastWake>>
      <4>1. Foot(EventPC) /\ EventPC \cap PeriodicPC = {} /\ lastWake' = lastWake
        BY <2>0, <3>1, EventStepKeeps DEF EventPC, PeriodicPC
      <4> QED BY <1>3, <2>0, <3>1, <4>1, EventLeaves, OthersLeave
    <3>2. CASE PoolNext /\ UNCHANGED <<evars, qvars, flag, lastWake>>
      <4>1. Foot(PoolPC) /\ PoolPC \cap PeriodicPC = {} /\ lastWake' = lastWake
        BY <2>0, <3>2, PoolStepKeeps DEF PoolGoes, PoolPC, PeriodicPC
      <4> QED BY <1>3, <2>0, <3>2, <4>1, PoolLeaves, OthersLeave
    <3>3. CASE QueueNext /\ UNCHANGED <<evars, pvars, flag, lastWake>>
      <4>1. Foot(QueuePC) /\ QueuePC \cap PeriodicPC = {} /\ lastWake' = lastWake
        BY <2>0, <3>3, QueueStepKeeps DEF QueueGoes, QueuePC, PeriodicPC
      <4> QED BY <1>3, <2>0, <3>3, <4>1, QueueLeaves, OthersLeave
    <3>4. CASE CompletionNext /\ UNCHANGED <<evars, pvars, qvars, lastWake>>
      <4>1. /\ Foot(CompletionPC) /\ CompletionPC \cap PeriodicPC = {}
            /\ lastWake' = lastWake
        BY <2>0, <3>4, CompletionStepKeeps DEF CompletionPC, PeriodicPC
      <4> QED BY <1>3, <2>0, <3>4, <4>1, CompletionLeaves, OthersLeave
    <3>5. CASE PeriodicNext
      <4>1. Leaves /\ SetToLastWake'
        BY <1>3, <3>5, PeriodicLeaves DEF PeriodicNext
      <4>2. InTime'
        BY <1>3, <4>1 DEF Leaves, InTime, KeepsTimely
      <4> QED BY <4>1, <4>2, PeriodicAssumption DEF Leaves, SameTimer, OnTick
    <3> QED BY <2>0, <2>3, <3>1, <3>2, <3>3, <3>4, <3>5, NoUartSteps DEF ServiceNext
  <2> QED BY <2>1, <2>2, <2>3 DEF ServicesNext
<1>4. CASE Busy /\ InTime /\ SetToLastWake
  <2>1. Busy'
    BY <1>4, BusyKeeps
  <2> QED BY <1>1, <1>3, <1>4, <2>1 DEF WakeInv
<1> QED BY <1>2, <1>4 DEF WakeInv

\* No timer runs when the threads start.
LEMMA WakeInvInit ==
  ASSUME ServicesInit, UartAlone
  PROVE  WakeInv
<1>1. SInv
  BY SInvInit
<1>2. k.timers = <<>>
  BY DEF ServicesInit, Init, KernelStart
<1>3. InTime /\ SetToLastWake
  BY <1>2, EmptyFacts DEF InTime, Timely, ByExpiry, SetToLastWake
<1> QED BY <1>1, <1>3 DEF WakeInv, SInv

-----------------------------------------------------------------------------
(* The theorems: for applications of any of the services together, or of   *)
(* the UART alone.                                                         *)

\* The kernel record is sound under all the services, every suspended thread
\* is asleep or on the list of what it waits for, whoever has been taken off a
\* list knows why, and each service keeps to what is said of it above.
THEOREM Invariance == UartAlone => (ServicesSpec => []SInv)
<1>1. UartAlone /\ ServicesInit => SInv
  BY SInvInit
<1>2. SInv /\ [ServicesNext]_svars => SInv'
  BY SInvStep
<1> QED BY <1>1, <1>2, PTL DEF ServicesSpec

\* The kernel's state, the program counters and the state of every service
\* keep their types.
THEOREM TypeCorrect == UartAlone => (ServicesSpec => []ServicesTypeOK)
<1>1. SInv => ServicesTypeOK
  <2> SUFFICES ASSUME SInv PROVE ServicesTypeOK
    OBVIOUS
  <2>1. /\ k \in KernelState /\ isr \in {"none", "tick"} \cup UartIsr
        /\ pc \in [Thread -> ServicesPC] /\ live \in SUBSET UNION Lives
    BY DEF SInv, KInv, KernelOK, ControlOK, Sound
  <2>2. /\ target \in [Thread -> Thread] /\ stale = {}
        /\ left \in [Thread -> {Forever} \cup 0 .. TickHalf - 1]
        /\ lastWake \in [Periodics -> Tick] /\ flag \in BOOLEAN
        /\ EventTypeOK /\ PoolTypeOK /\ QueueTypeOK
    BY DEF SInv, Typed, LeftOK
  <2>3. UsartTypeOK
    BY DEF SInv, Typed, RxInv, Valid, UsartTypeOK, ByteOf
  <2> QED BY <2>1, <2>2, <2>3 DEF ServicesTypeOK
<1> QED BY <1>1, Invariance, PTL

\* Nobody sleeps on a free block of a memory pool: rt_mp_free and the threads
\* that take a block first leave as many on their way as blocks are free.
THEOREM NobodySleepsOnABlock == UartAlone => (ServicesSpec => []BlocksWakeWaiters)
<1>1. SInv => BlocksWakeWaiters
  BY ServicesAssumption DEF SInv, OnlyUart, Busy, PoolKept, BlocksWakeWaiters
<1> QED BY <1>1, Invariance, PTL

\* No wake-up of a data queue is missed: every item has woken a reader, every
\* place below the low water mark a writer, or nobody waits.
THEOREM NoWakeUpMissed == UartAlone => (ServicesSpec => []QueueWakesSuffice)
<1>1. SInv => QueueWakesSuffice
  <2> SUFFICES ASSUME SInv PROVE PopsWoken /\ PushesWoken
    BY WakesSuffice
  <2>1. CASE OnlyUart
    BY <2>1, ServicesAssumption DEF OnlyUart, PopsWoken, PushesWoken
  <2>2. CASE Busy
    BY <2>2 DEF Busy, QueueKept
  <2> QED BY <2>1, <2>2 DEF SInv
<1> QED BY <1>1, Invariance, PTL

\* The events of ipc.c implement the abstract event group: each of the steps of
\* sends, receives, resets and a detach, and each of the scheduler and of the
\* tick under them, is one of EventGroup's or changes nothing a caller sees.
THEOREM EventRefines == UartAlone => (ServicesSpec => IsEventGroup)
<1>1. UartAlone /\ ServicesInit => Group!Init
  BY SInvInit
<1>2. SInv /\ [ServicesNext]_svars
        => [Group!Next]_<<set, [t \in Thread |-> RecvCall(t)]>>
  BY SInvStep DEF AllGoOn, GroupGoesOn
<1> QED BY <1>1, <1>2, Invariance, PTL DEF ServicesSpec, IsEventGroup, Group!Spec

\* The memory pools implement the abstract allocator: a block is handed out
\* once, and a call that finds one free neither waits nor fails, whoever takes
\* the block a thread was woken for.
THEOREM PoolRefines == UartAlone => (ServicesSpec => IsAllocator)
<1>1. UartAlone /\ ServicesInit => Pool!Init
  BY SInvInit
<1>2. SInv /\ [ServicesNext]_svars
        => [Pool!Next]_<<Used, [t \in Thread |-> AllocCall(t)]>>
  BY SInvStep DEF AllGoOn, AllocGoesOn
<1> QED BY <1>1, <1>2, Invariance, PTL DEF ServicesSpec, IsAllocator, Pool!Spec

\* The data queue implements the bounded queue: each item is popped once, in
\* the order of the pushes, and only a full queue holds up a push, only an
\* empty one a pop.
THEOREM QueueRefines == UartAlone => (ServicesSpec => IsBoundedQueue)
<1>1. UartAlone /\ ServicesInit => Queue!Init
  BY SInvInit
<1>2. SInv /\ [ServicesNext]_svars
        => [Queue!Next]_<<Items, [t \in Thread |-> DataCall(t)]>>
  BY SInvStep DEF AllGoOn, QueueGoesOn
<1> QED BY <1>1, <1>2, Invariance, PTL DEF ServicesSpec, IsBoundedQueue, Queue!Spec

\* The completion implements the signal: no wait succeeds without a signal
\* since the last one that did, and none goes on waiting past one.
THEOREM CompletionRefines == UartAlone => (ServicesSpec => IsCompletion)
<1>1. UartAlone /\ ServicesInit => Completed!Init
  BY SInvInit
<1>2. SInv /\ [ServicesNext]_svars => [Completed!Next]_<<Given, WaitCall>>
  BY SInvStep DEF AllGoOn, SignalGoesOn
<1> QED BY <1>1, <1>2, Invariance, PTL DEF ServicesSpec, IsCompletion, Completed!Spec

\* rt_thread_delay_until wakes its thread at the tick a period after the last,
\* across the wraparound, whatever the other threads, the services and the
\* handlers do meanwhile.
THEOREM WakesInTime == UartAlone => (ServicesSpec => WakesOnTick)
<1>1. UartAlone /\ ServicesInit => WakeInv
  BY WakeInvInit
<1>2. WakeInv /\ [ServicesNext]_svars => WakeInv' /\ OnTick
  BY WakesStep
<1>3. OnTick => [OnTick]_<<k, pc, lastWake>>
  OBVIOUS
<1>4. ([][OnTick]_<<k, pc, lastWake>>) <=> WakesOnTick
  BY DEF WakesOnTick, OnTick
<1> QED BY <1>1, <1>2, <1>3, <1>4, PTL DEF ServicesSpec

=============================================================================
