-------------------------- MODULE Sequences_proofs --------------------------
(* Facts about the operators on sequences the kernel lists are built from, *)
(* and about counters that wrap around.                                    *)
EXTENDS Integers, Sequences, SequencesExt, SequenceTheorems,
        WellFoundedInduction, FiniteSets, FiniteSetTheorems, TLAPS

\* Length and elements of a slice of a list, as the list functions below cut
\* it.
LEMMA SubSeqFacts ==
  ASSUME NEW S, NEW s \in Seq(S), NEW m \in Int, NEW n \in Int,
         1 <= m, n <= Len(s)
  PROVE  /\ SubSeq(s, m, n) \in Seq(S)
         /\ Len(SubSeq(s, m, n)) = IF m <= n THEN n-m+1 ELSE 0
         /\ \A i \in 1 .. n-m+1 : SubSeq(s, m, n)[i] = s[m+i-1]
OBVIOUS

\* A list without its i-th element.
LEMMA RemoveAtFacts ==
  ASSUME NEW S, NEW s \in Seq(S), NEW i \in 1 .. Len(s)
  PROVE  /\ RemoveAt(s, i) \in Seq(S)
         /\ Len(RemoveAt(s, i)) = Len(s) - 1
         /\ \A j \in 1 .. Len(s) - 1 :
              RemoveAt(s, i)[j] = IF j < i THEN s[j] ELSE s[j+1]
<1> DEFINE u == SubSeq(s, 1, i-1)
           v == SubSeq(s, i+1, Len(s))
<1>0. Len(s) \in Nat /\ \A j \in 1 .. Len(s) : s[j] \in S
  BY ElementOfSeq
<1>1. /\ u \in Seq(S) /\ Len(u) = i - 1
      /\ \A j \in 1 .. i - 1 : u[j] = s[j]
  BY <1>0, SubSeqFacts
<1>2. /\ v \in Seq(S) /\ Len(v) = Len(s) - i
      /\ \A j \in 1 .. Len(s) - i : v[j] = s[i+j]
  BY <1>0, SubSeqFacts
<1> HIDE DEF u, v
<1>3. /\ u \o v \in Seq(S) /\ Len(u \o v) = Len(u) + Len(v)
      /\ \A j \in 1 .. Len(u) + Len(v) :
           (u \o v)[j] = IF j <= Len(u) THEN u[j] ELSE v[j - Len(u)]
  BY <1>1, <1>2, ConcatProperties
<1>4. RemoveAt(s, i) = u \o v
  BY DEF RemoveAt, u, v
<1>5. ASSUME NEW j \in 1 .. Len(s) - 1
      PROVE  (u \o v)[j] = IF j < i THEN s[j] ELSE s[j+1]
  <2>1. CASE j < i
    BY <2>1, <1>0, <1>1, <1>2, <1>3
  <2>2. CASE ~(j < i)
    <3>1. j - (i-1) \in 1 .. Len(s) - i /\ j \in 1 .. Len(u) + Len(v)
      BY <2>2, <1>0, <1>1, <1>2
    <3>2. (u \o v)[j] = v[j - (i-1)]
      BY <3>1, <2>2, <1>1, <1>3
    <3>3. v[j - (i-1)] = s[i + (j - (i-1))]
      BY <3>1, <1>2
    <3> QED BY <3>2, <3>3, <2>2
  <2> QED BY <2>1, <2>2
<1> QED BY <1>0, <1>1, <1>2, <1>3, <1>4, <1>5

\* A list with e put in front of its i-th element.
LEMMA InsertAtFacts ==
  ASSUME NEW S, NEW s \in Seq(S), NEW e \in S, NEW i \in 1 .. Len(s) + 1
  PROVE  /\ InsertAt(s, i, e) \in Seq(S)
         /\ Len(InsertAt(s, i, e)) = Len(s) + 1
         /\ \A j \in 1 .. Len(s) + 1 :
              InsertAt(s, i, e)[j] = IF j < i THEN s[j]
                                     ELSE IF j = i THEN e ELSE s[j-1]
<1> DEFINE u == SubSeq(s, 1, i-1)
           v == SubSeq(s, i, Len(s))
           w == u \o <<e>>
<1>0. Len(s) \in Nat /\ \A j \in 1 .. Len(s) : s[j] \in S
  BY ElementOfSeq
<1>1. /\ u \in Seq(S) /\ Len(u) = i - 1
      /\ \A j \in 1 .. i - 1 : u[j] = s[j]
  BY <1>0, SubSeqFacts
<1>2. /\ v \in Seq(S) /\ Len(v) = Len(s) - i + 1
      /\ \A j \in 1 .. Len(s) - i + 1 : v[j] = s[i+j-1]
  BY <1>0, SubSeqFacts
<1> HIDE DEF u, v
<1>3. /\ w \in Seq(S) /\ Len(w) = i
      /\ \A j \in 1 .. i : w[j] = IF j < i THEN u[j] ELSE e
  <2>1. <<e>> \in Seq(S) /\ Len(<<e>>) = 1 /\ <<e>>[1] = e
    OBVIOUS
  <2>2. /\ w \in Seq(S) /\ Len(w) = Len(u) + 1
        /\ \A j \in 1 .. Len(u) + 1 :
             w[j] = IF j <= Len(u) THEN u[j] ELSE <<e>>[j - Len(u)]
    BY <2>1, <1>1, ConcatProperties
  <2> QED BY <2>1, <2>2, <1>1
<1> HIDE DEF w
<1>4. /\ w \o v \in Seq(S) /\ Len(w \o v) = Len(w) + Len(v)
      /\ \A j \in 1 .. Len(w) + Len(v) :
           (w \o v)[j] = IF j <= Len(w) THEN w[j] ELSE v[j - Len(w)]
  BY <1>3, <1>2, ConcatProperties
<1>5. InsertAt(s, i, e) = w \o v
  BY DEF InsertAt, u, v, w
<1>6. ASSUME NEW j \in 1 .. Len(s) + 1
      PROVE  (w \o v)[j] = IF j < i THEN s[j] ELSE IF j = i THEN e ELSE s[j-1]
  <2>1. CASE j <= i
    BY <2>1, <1>0, <1>1, <1>2, <1>3, <1>4
  <2>2. CASE ~(j <= i)
    <3>1. j - i \in 1 .. Len(s) - i + 1 /\ j \in 1 .. Len(w) + Len(v)
      BY <2>2, <1>0, <1>3, <1>2
    <3>2. (w \o v)[j] = v[j - i]
      BY <3>1, <2>2, <1>3, <1>4
    <3>3. v[j - i] = s[i + (j - i) - 1]
      BY <3>1, <1>2
    <3> QED BY <3>2, <3>3, <2>2
  <2> QED BY <2>1, <2>2
<1> QED BY <1>0, <1>2, <1>3, <1>4, <1>5, <1>6

\* A list of its own: e is in it only once.
LEMMA RemoveFirstFacts ==
  ASSUME NEW S, NEW s \in Seq(S), NEW e, IsInjective(s)
  PROVE  /\ RemoveFirst(s, e) \in Seq(S)
         /\ IsInjective(RemoveFirst(s, e))
         /\ \A x : Contains(RemoveFirst(s, e), x) <=> Contains(s, x) /\ x # e
         /\ ~Contains(s, e) => RemoveFirst(s, e) = s
<1>1. CASE ~Contains(s, e)
  BY <1>1 DEF Contains, RemoveFirst
<1>2. CASE Contains(s, e)
  <2>1. PICK i \in 1 .. Len(s) : s[i] = e
    BY <1>2 DEF Contains
  <2>2. {j \in 1 .. Len(s) : s[j] = e} = {i}
    BY <2>1 DEF IsInjective
  <2>3. SelectInSeq(s, LAMBDA v : v = e) = i
    BY <2>2, <2>1 DEF SelectInSeq, Min
  <2>4. RemoveFirst(s, e) = RemoveAt(s, i)
    BY <2>1, <2>3 DEF RemoveFirst
  <2> DEFINE r == RemoveFirst(s, e)
  <2>5. /\ r \in Seq(S)
        /\ Len(r) = Len(s) - 1
        /\ \A j \in 1 .. Len(r) : r[j] = IF j < i THEN s[j] ELSE s[j+1]
    BY <2>4, RemoveAtFacts
  <2> HIDE DEF r
  <2>6. IsInjective(r)
    <3>1. DOMAIN r = 1 .. Len(r) /\ DOMAIN s = 1 .. Len(s) /\ Len(s) \in Nat
      BY <2>5, LenProperties
    <3>2. ASSUME NEW x \in 1 .. Len(r), NEW y \in 1 .. Len(r), r[x] = r[y]
          PROVE  x = y
      <4> DEFINE f(z) == IF z < i THEN z ELSE z + 1
      <4>1. f(x) \in DOMAIN s /\ f(y) \in DOMAIN s /\ s[f(x)] = s[f(y)]
        BY <3>1, <3>2, <2>5, <2>1
      <4>2. f(x) = f(y)
        BY <4>1 DEF IsInjective
      <4> QED BY <4>2, <3>1, <2>1
    <3> QED BY <3>1, <3>2 DEF IsInjective
  <2>7. ASSUME NEW x, Contains(r, x) PROVE Contains(s, x) /\ x # e
    <3>1. PICK j \in 1 .. Len(r) : r[j] = x
      BY <2>7 DEF Contains
    <3>2. CASE j < i
      <4>1. j \in 1 .. Len(s) /\ s[j] = x /\ j # i
        BY <3>1, <3>2, <2>5, <2>1
      <4> QED BY <4>1, <2>1 DEF Contains, IsInjective
    <3>3. CASE ~(j < i)
      <4>1. j + 1 \in 1 .. Len(s) /\ s[j+1] = x /\ j + 1 # i
        BY <3>1, <3>3, <2>5, <2>1
      <4> QED BY <4>1, <2>1 DEF Contains, IsInjective
    <3> QED BY <3>2, <3>3
  <2>8. ASSUME NEW x, Contains(s, x), x # e PROVE Contains(r, x)
    <3>1. PICK j \in 1 .. Len(s) : s[j] = x
      BY <2>8 DEF Contains
    <3>2. j # i
      BY <3>1, <2>1, <2>8
    <3>3. CASE j < i
      <4>1. j \in 1 .. Len(r) /\ r[j] = x
        BY <3>3, <3>1, <2>5, <2>1
      <4> QED BY <4>1 DEF Contains
    <3>4. CASE j > i
      <4>1. j - 1 \in 1 .. Len(r) /\ r[j-1] = x
        BY <3>4, <3>1, <2>5, <2>1
      <4> QED BY <4>1 DEF Contains
    <3> QED BY <3>2, <3>3, <3>4, <3>1, <2>1
  <2> QED BY <2>5, <2>6, <2>7, <2>8, <1>2 DEF r
<1> QED BY <1>1, <1>2

\* A new element at position i.
LEMMA InsertAtKeepsOne ==
  ASSUME NEW S, NEW s \in Seq(S), NEW e \in S, NEW i \in 1 .. Len(s) + 1,
         IsInjective(s), ~Contains(s, e)
  PROVE  /\ InsertAt(s, i, e) \in Seq(S)
         /\ InsertAt(s, i, e) # <<>>
         /\ IsInjective(InsertAt(s, i, e))
         /\ \A x : Contains(InsertAt(s, i, e), x) <=> Contains(s, x) \/ x = e
<1> DEFINE r == InsertAt(s, i, e)
<1>1. /\ r \in Seq(S) /\ Len(r) = Len(s) + 1
      /\ \A j \in 1 .. Len(s) + 1 :
           r[j] = IF j < i THEN s[j] ELSE IF j = i THEN e ELSE s[j-1]
  BY InsertAtFacts
<1> HIDE DEF r
<1>2. \A j \in 1 .. Len(s) : s[j] # e
  BY DEF Contains
<1>3. IsInjective(r)
  <2>1. DOMAIN r = 1 .. Len(r) /\ DOMAIN s = 1 .. Len(s) /\ Len(s) \in Nat
    BY <1>1, LenProperties
  <2>2. ASSUME NEW x \in 1 .. Len(r), NEW y \in 1 .. Len(r), r[x] = r[y]
        PROVE  x = y
    <3> DEFINE f(z) == IF z < i THEN z ELSE z - 1
    <3>1. CASE x = i \/ y = i
      BY <3>1, <2>1, <2>2, <1>1, <1>2
    <3>2. CASE x # i /\ y # i
      <4>1. f(x) \in DOMAIN s /\ f(y) \in DOMAIN s /\ s[f(x)] = s[f(y)]
        BY <3>2, <2>1, <2>2, <1>1
      <4>2. f(x) = f(y)
        BY <4>1 DEF IsInjective
      <4> QED BY <4>2, <3>2, <2>1
    <3> QED BY <3>1, <3>2
  <2> QED BY <2>1, <2>2 DEF IsInjective
<1>4. ASSUME NEW x, Contains(r, x) PROVE Contains(s, x) \/ x = e
  <2>1. PICK j \in 1 .. Len(r) : r[j] = x
    BY <1>4 DEF Contains
  <2>2. \/ j \in 1 .. Len(s) /\ s[j] = x
        \/ x = e
        \/ j - 1 \in 1 .. Len(s) /\ s[j-1] = x
    BY <2>1, <1>1
  <2> QED BY <2>2 DEF Contains
<1>5. ASSUME NEW x, Contains(s, x) \/ x = e PROVE Contains(r, x)
  <2>1. CASE x = e
    BY <2>1, <1>1 DEF Contains
  <2>2. CASE Contains(s, x)
    <3>1. PICK j \in 1 .. Len(s) : s[j] = x
      BY <2>2 DEF Contains
    <3>2. \/ j \in 1 .. Len(r) /\ r[j] = x
          \/ j + 1 \in 1 .. Len(r) /\ r[j+1] = x
      BY <3>1, <1>1
    <3> QED BY <3>2 DEF Contains
  <2> QED BY <1>5, <2>1, <2>2
<1>6. r # <<>>
  BY <1>1
<1> QED BY <1>1, <1>3, <1>4, <1>5, <1>6 DEF r

\* A new element at the end.
LEMMA AppendKeepsOne ==
  ASSUME NEW S, NEW s \in Seq(S), NEW e \in S, IsInjective(s), ~Contains(s, e)
  PROVE  /\ Append(s, e) \in Seq(S)
         /\ Append(s, e) # <<>>
         /\ IsInjective(Append(s, e))
         /\ \A x : Contains(Append(s, e), x) <=> Contains(s, x) \/ x = e
<1>1. Append(s, e) = InsertAt(s, Len(s) + 1, e)
  <2> DEFINE r == InsertAt(s, Len(s) + 1, e)
  <2>1. /\ r \in Seq(S) /\ Len(r) = Len(s) + 1
        /\ \A j \in 1 .. Len(s) + 1 :
             r[j] = IF j < Len(s) + 1 THEN s[j]
                    ELSE IF j = Len(s) + 1 THEN e ELSE s[j-1]
    BY InsertAtFacts
  <2> HIDE DEF r
  <2>2. \A j \in 1 .. Len(r) : r[j] = Append(s, e)[j]
    BY <2>1, AppendProperties
  <2>3. Append(s, e) \in Seq(S) /\ Len(Append(s, e)) = Len(r)
    BY <2>1, AppendProperties
  <2>4. r = Append(s, e)
    BY <2>1, <2>2, <2>3, SeqEqual
  <2> QED BY <2>4 DEF r
<1> QED BY <1>1, InsertAtKeepsOne

\* A new element at the front.
LEMMA ConsKeepsOne ==
  ASSUME NEW S, NEW s \in Seq(S), NEW e \in S, IsInjective(s), ~Contains(s, e)
  PROVE  /\ <<e>> \o s \in Seq(S)
         /\ <<e>> \o s # <<>>
         /\ IsInjective(<<e>> \o s)
         /\ \A x : Contains(<<e>> \o s, x) <=> Contains(s, x) \/ x = e
<1>1. <<e>> \o s = InsertAt(s, 1, e)
  <2>1. SubSeq(s, 1, 0) = <<>> /\ SubSeq(s, 1, Len(s)) = s
    BY SubSeqEmpty, SubSeqFull
  <2>2. <<>> \o <<e>> = <<e>>
    BY ConcatEmptySeq
  <2> QED BY <2>1, <2>2 DEF InsertAt
<1>2. 1 \in 1 .. Len(s) + 1
  OBVIOUS
<1> DEFINE r == InsertAt(s, 1, e)
<1>3. /\ r \in Seq(S) /\ r # <<>> /\ IsInjective(r)
      /\ \A x : Contains(r, x) <=> Contains(s, x) \/ x = e
  BY <1>2, InsertAtKeepsOne
<1>4. <<e>> \o s = r
  BY <1>1
<1> HIDE DEF r
<1> QED BY <1>3, <1>4, Zenon

\* The empty list (rt_list_init) holds nothing.
LEMMA EmptyFacts ==
  /\ \A x : ~Contains(<<>>, x)
  /\ IsInjective(<<>>)
BY DEF Contains, IsInjective

\* The first entry of a list is in it, and a list is not empty exactly when
\* it holds something.
LEMMA HeadFacts ==
  ASSUME NEW S, NEW s \in Seq(S)
  PROVE  /\ s # <<>> => Head(s) \in S /\ Contains(s, Head(s))
         /\ s # <<>> <=> \E x \in S : Contains(s, x)
<1>1. ASSUME s # <<>> PROVE Head(s) \in S /\ Contains(s, Head(s))
  BY <1>1, HeadTailProperties DEF Contains
<1>2. ASSUME NEW x \in S, Contains(s, x) PROVE s # <<>>
  BY <1>2, EmptyFacts
<1> QED BY <1>1, <1>2

\* The list without its first element.
LEMMA TailKeepsOne ==
  ASSUME NEW S, NEW s \in Seq(S), s # <<>>, IsInjective(s)
  PROVE  /\ Tail(s) \in Seq(S) /\ IsInjective(Tail(s))
         /\ Len(s) > 0 /\ Len(Tail(s)) = Len(s) - 1
         /\ \A x : Contains(Tail(s), x) <=> Contains(s, x) /\ x # Head(s)
<1> DEFINE r == Tail(s)
<1>1. /\ r \in Seq(S) /\ Len(s) \in Nat /\ Len(s) > 0 /\ Len(r) = Len(s) - 1
      /\ \A i \in 1 .. Len(r) : r[i] = s[i+1]
      /\ Head(s) = s[1]
  BY HeadTailProperties, EmptySeq
<1> HIDE DEF r
<1>2. \A i, j \in 1 .. Len(s) : s[i] = s[j] => i = j
  BY <1>1 DEF IsInjective
<1>3. IsInjective(r)
  <2>1. \A i, j \in 1 .. Len(r) : r[i] = r[j] => i = j
    BY <1>1, <1>2
  <2> QED BY <1>1, <2>1 DEF IsInjective
<1>4. ASSUME NEW x PROVE Contains(r, x) <=> Contains(s, x) /\ x # Head(s)
  <2>1. ASSUME Contains(r, x) PROVE Contains(s, x) /\ x # Head(s)
    <3>1. PICK i \in 1 .. Len(r) : r[i] = x
      BY <2>1 DEF Contains
    <3>2. i + 1 \in 1 .. Len(s) /\ 1 \in 1 .. Len(s) /\ s[i+1] = x /\ i + 1 # 1
      BY <1>1, <3>1
    <3> QED BY <1>1, <1>2, <3>2 DEF Contains
  <2>2. ASSUME Contains(s, x), x # Head(s) PROVE Contains(r, x)
    <3>1. PICK i \in 1 .. Len(s) : s[i] = x
      BY <2>2 DEF Contains
    <3>2. i - 1 \in 1 .. Len(r) /\ i - 1 + 1 = i
      BY <1>1, <2>2, <3>1
    <3>3. r[i-1] = x
      BY <1>1, <3>1, <3>2
    <3> QED BY <3>2, <3>3 DEF Contains
  <2> QED BY <2>1, <2>2
<1> QED BY <1>1, <1>3, <1>4 DEF r

\* What a list holds is of the type of its elements.
LEMMA ContainsInS ==
  ASSUME NEW S, NEW s \in Seq(S), NEW x, Contains(s, x)
  PROVE  x \in S
BY ElementOfSeq DEF Contains

\* The position SelectInSeq finds is one of the list.
LEMMA MinOfNat ==
  ASSUME NEW T, T \subseteq Nat, T # {}
  PROVE  Min(T) \in T /\ \A y \in T : Min(T) <= y
<1>1. PICK x \in T : \A y \in T : ~(<<y, x>> \in OpToRel(<, Nat))
  BY NatLessThanWellFounded, WFMin
<1>2. ASSUME NEW y \in T, y < x PROVE FALSE
  <2>1. x \in Nat /\ y \in Nat
    OBVIOUS
  <2>2. <<y, x>> \in OpToRel(<, Nat)
    BY <2>1, <1>2, SMT DEF OpToRel
  <2> QED BY <2>2, <1>1
<1>3. \A y \in T : x <= y
  BY <1>2
<1> QED BY <1>3 DEF Min

\* Induction over 0 .. n, for a property that is given as the set of numbers
\* that have it: what a loop over a list has done after each of its rounds.
LEMMA SetInduction ==
  ASSUME NEW n \in Nat, NEW Holds, 0 \in Holds,
         \A i \in 0 .. n - 1 : i \in Holds => i + 1 \in Holds
  PROVE  \A i \in 0 .. n : i \in Holds
<1> DEFINE C == {i \in 0 .. n : i \notin Holds}
<1> SUFFICES ASSUME C # {} PROVE FALSE
  OBVIOUS
<1>1. Min(C) \in C /\ \A i \in C : Min(C) <= i
  BY MinOfNat
<1> DEFINE m == Min(C)
<1> HIDE DEF m
<1>2. m \in 0 .. n /\ m \notin Holds /\ \A i \in C : m <= i
  BY <1>1 DEF m
<1>3. m - 1 \in 0 .. n - 1 /\ m - 1 \in Holds
  BY <1>2
<1> QED BY <1>2, <1>3

\* The largest of the numbers up to n, if n is among them.
LEMMA MaxOfUpTo ==
  ASSUME NEW n \in Nat, NEW S, S \subseteq 1 .. n, n \in S
  PROVE  Max(S) = n
<1> DEFINE Top(x) == \A y \in S : x >= y
<1>1. \A x \in S : Top(x) <=> x = n
  OBVIOUS
<1>2. Max(S) = CHOOSE x \in S : Top(x)
  BY DEF Max
<1> HIDE DEF Top
<1> QED BY <1>1, <1>2

\* SetToSeq lists every element of a finite set once.
LEMMA SetToSeqFacts ==
  ASSUME NEW T, IsFiniteSet(T)
  PROVE  /\ SetToSeq(T) \in Seq(T)
         /\ IsInjective(SetToSeq(T))
         /\ \A x : Contains(SetToSeq(T), x) <=> x \in T
<1> DEFINE n == Cardinality(T)
           f == SetToSeq(T)
<1>1. n \in Nat /\ ExistsBijection(1 .. n, T)
  BY FS_CardinalityType
<1>2. \E g \in [1 .. n -> T] : IsInjective(g)
  BY <1>1 DEF ExistsBijection, Bijection, Injection
<1>3. f \in [1 .. n -> T] /\ IsInjective(f)
  BY <1>2 DEF SetToSeq
<1>4. IsFiniteSet(1 .. n) /\ Cardinality(1 .. n) = n
  BY <1>1, FS_Interval
<1>5. f \in Surjection(1 .. n, T)
  BY <1>3, <1>4, FS_Injection DEF Injection
<1> HIDE DEF f, n
<1>6. f \in Seq(T) /\ Len(f) = n
  BY <1>3, <1>1
<1>7. \A x : Contains(f, x) <=> x \in T
  BY <1>3, <1>5, <1>6 DEF Surjection, Contains
<1> QED BY <1>3, <1>6, <1>7 DEF f

-----------------------------------------------------------------------------
(* Lists kept in order *)

\* The list s is in the order of the keys of its entries.
Sorted(s, key) == \A i, j \in 1 .. Len(s) : i < j => key[s[i]] <= key[s[j]]

\* Taking an entry out of a list keeps it in order.
LEMMA RemoveFirstSorted ==
  ASSUME NEW S, NEW s \in Seq(S), NEW e, NEW key, Sorted(s, key), IsInjective(s)
  PROVE  Sorted(RemoveFirst(s, e), key)
<1>1. CASE ~Contains(s, e)
  BY <1>1, RemoveFirstFacts
<1>2. CASE Contains(s, e)
  <2>1. PICK i \in 1 .. Len(s) : s[i] = e
    BY <1>2 DEF Contains
  <2>2. {j \in 1 .. Len(s) : s[j] = e} = {i}
    BY <2>1 DEF IsInjective
  <2>3. SelectInSeq(s, LAMBDA v : v = e) = i
    BY <2>2, <2>1 DEF SelectInSeq, Min
  <2>4. RemoveFirst(s, e) = RemoveAt(s, i)
    BY <2>1, <2>3 DEF RemoveFirst
  <2> DEFINE r == RemoveFirst(s, e)
  <2>5. /\ r \in Seq(S)
        /\ Len(r) = Len(s) - 1
        /\ \A j \in 1 .. Len(r) : r[j] = IF j < i THEN s[j] ELSE s[j+1]
    BY <2>4, RemoveAtFacts
  <2> HIDE DEF r
  <2>6. ASSUME NEW x \in 1 .. Len(r), NEW y \in 1 .. Len(r), x < y
        PROVE  key[r[x]] <= key[r[y]]
    <3> DEFINE f(z) == IF z < i THEN z ELSE z + 1
    <3>1. f(x) \in 1 .. Len(s) /\ f(y) \in 1 .. Len(s) /\ f(x) < f(y)
      BY <2>5, <2>6
    <3>2. r[x] = s[f(x)] /\ r[y] = s[f(y)]
      BY <2>5
    <3> HIDE DEF f
    <3> QED BY <3>1, <3>2 DEF Sorted
  <2> QED BY <2>6 DEF Sorted, r
<1> QED BY <1>1, <1>2

\* So does putting one in, in front of the first entry with a higher key.
LEMMA InsertSorted ==
  ASSUME NEW S, NEW s \in Seq(S), NEW e \in S, NEW key, Sorted(s, key),
         \A x \in S : Contains(s, x) \/ x = e => key[x] \in Int
  PROVE  LET I == {i \in 1 .. Len(s) : key[e] < key[s[i]]}
             pos == IF I = {} THEN Len(s) + 1 ELSE Min(I)
         IN  pos \in 1 .. Len(s) + 1 /\ Sorted(InsertAt(s, pos, e), key)
<1> DEFINE I == {i \in 1 .. Len(s) : key[e] < key[s[i]]}
           pos == IF I = {} THEN Len(s) + 1 ELSE Min(I)
           r == InsertAt(s, pos, e)
<1>1. Len(s) \in Nat /\ \A i \in 1 .. Len(s) : s[i] \in S /\ key[s[i]] \in Int
  BY ElementOfSeq DEF Contains
<1>2. I # {} => Min(I) \in I /\ \A i \in I : Min(I) <= i
  <2>1. I \subseteq Nat
    BY <1>1
  <2> HIDE DEF I
  <2> QED BY <2>1, MinOfNat
<1>3. /\ pos \in 1 .. Len(s) + 1
      /\ \A i \in 1 .. Len(s) : i < pos => key[s[i]] <= key[e]
  <2>1. key[e] \in Int
    OBVIOUS
  <2>2. CASE I = {}
    BY <1>1, <2>1, <2>2
  <2>3. CASE I # {}
    <3>1. pos \in I /\ \A i \in I : pos <= i
      BY <1>2, <2>3
    <3> HIDE DEF pos
    <3> QED BY <1>1, <2>1, <3>1
  <2> QED BY <2>2, <2>3
<1>4. ASSUME NEW i \in 1 .. Len(s), pos <= i PROVE key[e] <= key[s[i]]
  <2>1. I # {}
    BY <1>1, <1>4
  <2>2. pos \in 1 .. Len(s) /\ key[e] < key[s[pos]]
    BY <1>2, <2>1
  <2> HIDE DEF pos, I
  <2>3. key[s[pos]] <= key[s[i]]
    <3>1. pos = i \/ pos < i
      BY <1>1, <1>4, <2>2
    <3>2. key[s[pos]] \in Int
      BY <1>1, <2>2
    <3> QED BY <1>1, <2>2, <3>1, <3>2 DEF Sorted
  <2>4. key[e] \in Int /\ key[s[pos]] \in Int /\ key[s[i]] \in Int
    BY <1>1, <2>2
  <2> QED BY <2>2, <2>3, <2>4
<1> HIDE DEF pos, I
<1>5. /\ Len(r) = Len(s) + 1
      /\ \A j \in 1 .. Len(s) + 1 :
           r[j] = IF j < pos THEN s[j] ELSE IF j = pos THEN e ELSE s[j-1]
  BY <1>3, InsertAtFacts
<1> HIDE DEF r
<1>6. ASSUME NEW x \in 1 .. Len(r), NEW y \in 1 .. Len(r), x < y
      PROVE  key[r[x]] <= key[r[y]]
  <2>1. CASE y < pos
    BY <1>1, <1>3, <1>5, <1>6, <2>1 DEF Sorted
  <2>2. CASE y = pos
    BY <1>1, <1>3, <1>5, <1>6, <2>2
  <2>3. CASE y > pos /\ x = pos
    BY <1>1, <1>3, <1>4, <1>5, <1>6, <2>3
  <2>4. CASE y > pos /\ x < pos
    <3>1. /\ r[x] = s[x] /\ r[y] = s[y-1] /\ x \in 1 .. Len(s)
          /\ y - 1 \in 1 .. Len(s) /\ x <= y - 1
      BY <1>1, <1>3, <1>5, <1>6, <2>4
    <3> QED BY <1>1, <3>1 DEF Sorted
  <2>5. CASE x > pos
    <3>1. /\ r[x] = s[x-1] /\ r[y] = s[y-1] /\ x - 1 \in 1 .. Len(s)
          /\ y - 1 \in 1 .. Len(s) /\ x - 1 < y - 1
      BY <1>1, <1>3, <1>5, <1>6, <2>5
    <3> QED BY <3>1 DEF Sorted
  <2> QED BY <1>1, <1>3, <1>5, <1>6, <2>1, <2>2, <2>3, <2>4, <2>5
<1>7. Sorted(r, key)
  BY <1>6 DEF Sorted
<1> QED BY <1>3, <1>7 DEF r, pos, I

\* The order depends on the keys of the entries only, whatever is added to all.
LEMMA SortedKeys ==
  ASSUME NEW S, NEW s \in Seq(S), NEW key, NEW new, NEW c \in Int,
         Sorted(s, key),
         \A x \in S : Contains(s, x) => key[x] \in Int /\ new[x] = key[x] + c
  PROVE  Sorted(s, new)
<1>1. \A i \in 1 .. Len(s) : key[s[i]] \in Int /\ new[s[i]] = key[s[i]] + c
  BY ElementOfSeq DEF Contains
<1> QED BY <1>1 DEF Sorted

-----------------------------------------------------------------------------
(* A counter modulo M, and the time b - a from a to b on it *)

\* What is added or subtracted wraps around at most once.
LEMMA WrapFacts ==
  ASSUME NEW M \in Nat, NEW x \in Int, M > 0, -M < x, x < 2 * M
  PROVE  x % M = IF x < 0 THEN x + M ELSE IF x < M THEN x ELSE x - M
<1>1. CASE x < 0
  BY <1>1
<1>2. CASE 0 <= x /\ x < M
  BY <1>2
<1>3. CASE M <= x
  BY <1>3
<1> QED BY <1>1, <1>2, <1>3

\* The time d from now on is d away.
LEMMA AheadFacts ==
  ASSUME NEW M \in Nat, M > 0, NEW now \in 0 .. M - 1, NEW d \in 0 .. M - 1
  PROVE  /\ (now + d) % M \in 0 .. M - 1
         /\ (((now + d) % M) - now) % M = d
<1> DEFINE at == (now + d) % M
<1>1. at = IF now + d < M THEN now + d ELSE now + d - M
  BY WrapFacts
<1> HIDE DEF at
<1>2. (at - now) % M = IF at < now THEN at - now + M ELSE at - now
  BY <1>1, WrapFacts
<1> QED BY <1>1, <1>2 DEF at

\* Of two times less than half a turn ahead, a is the earlier one exactly if
\* the way from a to b is shorter than half a turn and not empty.
LEMMA LaterFacts ==
  ASSUME NEW M \in Nat, M > 0, NEW now \in 0 .. M - 1,
         NEW a \in 0 .. M - 1, NEW b \in 0 .. M - 1,
         NEW half \in Nat, 2 * half < M,
         (a - now) % M \in 0 .. half - 1, (b - now) % M \in 0 .. half - 1
  PROVE  (b - a) % M \in 1 .. half - 1 <=> (a - now) % M < (b - now) % M
<1>1. (a - now) % M = IF a < now THEN a - now + M ELSE a - now
  BY WrapFacts
<1>2. (b - now) % M = IF b < now THEN b - now + M ELSE b - now
  BY WrapFacts
<1>3. (b - a) % M = IF b < a THEN b - a + M ELSE b - a
  BY WrapFacts
<1> QED BY <1>1, <1>2, <1>3

\* A tick brings every time ahead one tick nearer.
LEMMA NearerFacts ==
  ASSUME NEW M \in Nat, M > 1, NEW now \in 0 .. M - 1, NEW b \in 0 .. M - 1,
         (b - now) % M > 0
  PROVE  /\ (now + 1) % M \in 0 .. M - 1
         /\ (b - ((now + 1) % M)) % M = ((b - now) % M) - 1
<1> DEFINE next == (now + 1) % M
<1>1. next = IF now + 1 < M THEN now + 1 ELSE 0
  BY WrapFacts
<1>2. (b - now) % M = IF b < now THEN b - now + M ELSE b - now
  BY WrapFacts
<1> HIDE DEF next
<1>3. (b - next) % M = IF b < next THEN b - next + M ELSE b - next
  BY <1>1, WrapFacts
<1> QED BY <1>1, <1>2, <1>3 DEF next

-----------------------------------------------------------------------------
(* Lists of timers in the order of expiry, on a counter modulo M *)

\* What the entries of the list have left at tick is first or more, less than
\* half, and does not decrease along the list.
ByExpiry(list, tick, timeout, M, first, half) ==
  \A i \in 1 .. Len(list) :
     LET left(j) == (timeout[list[j]] - tick) % M IN
     /\ left(i) \in first .. half - 1
     /\ \A j \in 1 .. i : left(j) <= left(i)

\* key holds the ticks each timer of the list has left.
RunsFor(S, s, key, tick, timeout, M) ==
  \A x \in S : Contains(s, x) => key[x] = (timeout[x] - tick) % M

\* No timer of the list has fewer than first or half or more left.
NotMissed(S, s, key, first, half) ==
  \A x \in S : Contains(s, x) => key[x] \in first .. half - 1

\* ByExpiry in terms of Sorted, for a key that holds the time left.
LEMMA ByExpirySorted ==
  ASSUME NEW S, NEW s \in Seq(S), NEW M, NEW tick, NEW timeout,
         NEW first \in Int, NEW half \in Int, NEW key,
         RunsFor(S, s, key, tick, timeout, M)
  PROVE  ByExpiry(s, tick, timeout, M, first, half)
           <=> Sorted(s, key) /\ NotMissed(S, s, key, first, half)
<1>1. /\ Len(s) \in Nat
      /\ \A i \in 1 .. Len(s) :
           /\ s[i] \in S /\ Contains(s, s[i])
           /\ key[s[i]] = (timeout[s[i]] - tick) % M
  BY ElementOfSeq DEF Contains, RunsFor
<1>2. ASSUME ByExpiry(s, tick, timeout, M, first, half)
      PROVE  Sorted(s, key)
  BY <1>1, <1>2 DEF ByExpiry, Sorted
<1>3. ASSUME ByExpiry(s, tick, timeout, M, first, half)
      PROVE  NotMissed(S, s, key, first, half)
  <2>1. ASSUME NEW x \in S, Contains(s, x)
        PROVE  key[x] \in first .. half - 1
    BY <1>1, <1>3, <2>1 DEF ByExpiry, Contains
  <2> QED BY <2>1 DEF NotMissed
<1>4. ASSUME Sorted(s, key), NotMissed(S, s, key, first, half)
      PROVE  ByExpiry(s, tick, timeout, M, first, half)
  <2>1. ASSUME NEW i \in 1 .. Len(s), NEW j \in 1 .. i
        PROVE  /\ key[s[i]] \in first .. half - 1
               /\ key[s[j]] <= key[s[i]] /\ j \in 1 .. Len(s)
    <3>1. j \in 1 .. Len(s) /\ key[s[i]] \in first .. half - 1
      BY <1>1, <1>4 DEF NotMissed
    <3>2. CASE j = i
      BY <3>1, <3>2
    <3>3. CASE j < i
      BY <1>4, <3>1, <3>3 DEF Sorted
    <3> QED BY <3>1, <3>2, <3>3
  <2>2. \A i \in 1 .. Len(s) : i \in 1 .. i
    BY <1>1
  <2> QED BY <1>1, <2>1, <2>2 DEF ByExpiry
<1> QED BY <1>2, <1>3, <1>4

\* Stopping a timer, which may change the timeout of no other.
LEMMA ExpiryRemove ==
  ASSUME NEW S, NEW s \in Seq(S), NEW e, NEW M, NEW tick,
         NEW timeout, NEW new, NEW first \in Int, NEW half \in Int,
         IsInjective(s), ByExpiry(s, tick, timeout, M, first, half),
         \A x \in S : x # e => new[x] = timeout[x]
  PROVE  ByExpiry(RemoveFirst(s, e), tick, new, M, first, half)
<1> DEFINE key == [x \in S |-> (timeout[x] - tick) % M]
           r == RemoveFirst(s, e)
<1>1. \A x \in S : key[x] = (timeout[x] - tick) % M
  OBVIOUS
<1> HIDE DEF key, r
<1>2. RunsFor(S, s, key, tick, timeout, M)
  BY <1>1 DEF RunsFor
<1>3. Sorted(s, key) /\ NotMissed(S, s, key, first, half)
  BY <1>2, ByExpirySorted
<1>4. Sorted(r, key)
  BY <1>3, RemoveFirstSorted DEF r
<1>5. r \in Seq(S) /\ \A x : Contains(r, x) <=> Contains(s, x) /\ x # e
  BY RemoveFirstFacts DEF r
<1>6. RunsFor(S, r, key, tick, new, M)
  BY <1>1, <1>5 DEF RunsFor
<1>7. NotMissed(S, r, key, first, half)
  BY <1>3, <1>5 DEF NotMissed
<1> QED BY <1>4, <1>5, <1>6, <1>7, ByExpirySorted DEF r

\* In front of the first entry that expires strictly later than at.
PlaceOf(list, at, timeout, M, half) ==
  LET I == {i \in 1 .. Len(list) : (timeout[list[i]] - at) % M \in 1 .. half - 1}
  IN  IF I = {} THEN Len(list) + 1 ELSE Min(I)

\* Starting a timer that is to expire at new[e].
LEMMA ExpiryInsert ==
  ASSUME NEW S, NEW s \in Seq(S), NEW e \in S, NEW M \in Nat, M > 0,
         NEW tick \in 0 .. M - 1, NEW timeout \in [S -> 0 .. M - 1],
         NEW half \in Nat, 2 * half < M, NEW first \in Nat,
         IsInjective(s), ~Contains(s, e),
         ByExpiry(s, tick, timeout, M, first, half),
         NEW new \in [S -> 0 .. M - 1], (new[e] - tick) % M \in first .. half - 1,
         \A x \in S : x # e => new[x] = timeout[x],
         NEW pos, pos = PlaceOf(s, new[e], timeout, M, half)
  PROVE  ByExpiry(InsertAt(s, pos, e), tick, new, M, first, half)
<1> DEFINE at  == new[e]
           d   == (at - tick) % M
           I   == {i \in 1 .. Len(s) : (timeout[s[i]] - at) % M \in 1 .. half - 1}
           key == [x \in S |-> IF x = e THEN d ELSE (timeout[x] - tick) % M]
           J   == {i \in 1 .. Len(s) : key[e] < key[s[i]]}
<1>0. pos = IF I = {} THEN Len(s) + 1 ELSE Min(I)
  BY DEF PlaceOf
<1>1. key[e] = d /\ \A x \in S : x # e => key[x] = (timeout[x] - tick) % M
  OBVIOUS
<1>2. new[e] = at /\ \A x \in S : x # e => new[x] = timeout[x]
  OBVIOUS
<1> HIDE DEF key, I, J
<1>3. /\ Len(s) \in Nat
      /\ \A i \in 1 .. Len(s) : s[i] \in S /\ s[i] # e /\ Contains(s, s[i])
  <2>1. Len(s) \in Nat
    OBVIOUS
  <2>2. ASSUME NEW i \in 1 .. Len(s)
        PROVE  s[i] \in S /\ s[i] # e /\ Contains(s, s[i])
    BY ElementOfSeq DEF Contains
  <2> QED BY <2>1, <2>2
<1>4. Sorted(s, key) /\ NotMissed(S, s, key, first, half)
  <2>1. RunsFor(S, s, key, tick, timeout, M)
    BY <1>1 DEF RunsFor
  <2> QED BY <2>1, ByExpirySorted
<1>5. at \in 0 .. M - 1 /\ (at - tick) % M \in 0 .. half - 1
  OBVIOUS
<1>6. ASSUME NEW i \in 1 .. Len(s) PROVE i \in I <=> i \in J
  <2>1. /\ timeout[s[i]] \in 0 .. M - 1
        /\ (timeout[s[i]] - tick) % M \in 0 .. half - 1
        /\ key[s[i]] = (timeout[s[i]] - tick) % M
    <3>1. s[i] \in S /\ s[i] # e /\ Contains(s, s[i])
      BY <1>3
    <3>2. key[s[i]] = (timeout[s[i]] - tick) % M
      BY <1>1, <3>1
    <3>3. key[s[i]] \in first .. half - 1
      BY <1>4, <3>1 DEF NotMissed
    <3>4. timeout[s[i]] \in 0 .. M - 1
      BY <3>1
    <3>5. (timeout[s[i]] - tick) % M \in first .. half - 1
      BY <3>2, <3>3
    <3>6. \A z : z \in first .. half - 1 => z \in 0 .. half - 1
      OBVIOUS
    <3> QED BY <3>2, <3>4, <3>5, <3>6
  <2> DEFINE b == timeout[s[i]]
  <2> HIDE DEF b
  <2>2. b \in 0 .. M - 1 /\ (b - tick) % M \in 0 .. half - 1
    BY <2>1 DEF b
  <2> HIDE DEF at
  <2>3. (b - at) % M \in 1 .. half - 1 <=> d < (b - tick) % M
    BY <1>5, <2>2, LaterFacts
  <2>4. i \in I <=> (b - at) % M \in 1 .. half - 1
    BY DEF I, b
  <2>5. i \in J <=> d < (b - tick) % M
    BY <1>1, <2>1 DEF J, b
  <2> QED BY <2>3, <2>4, <2>5
<1>7. I = J
  BY <1>6 DEF I, J
<1> DEFINE place == IF J = {} THEN Len(s) + 1 ELSE Min(J)
           r == InsertAt(s, place, e)
<1>8. place = pos
  BY <1>0, <1>7
<1>9. place \in 1 .. Len(s) + 1 /\ Sorted(r, key)
  <2>1. ASSUME NEW x \in S, Contains(s, x) \/ x = e
        PROVE  key[x] \in Int
    <3>1. CASE x = e
      BY <1>1, <1>5, <3>1
    <3>2. CASE Contains(s, x)
      <4>1. key[x] \in first .. half - 1
        BY <1>4, <3>2 DEF NotMissed
      <4> QED BY <4>1
    <3> QED BY <2>1, <3>1, <3>2
  <2> HIDE DEF d, at
  <2> QED BY <1>4, <2>1, InsertSorted DEF J
<1> HIDE DEF place, at
<1>10. r \in Seq(S) /\ \A x : Contains(r, x) => Contains(s, x) \/ x = e
  BY <1>9, InsertAtKeepsOne
<1> HIDE DEF r
<1>11. \A x \in S : Contains(r, x) =>
         key[x] = (new[x] - tick) % M /\ key[x] \in first .. half - 1
  <2>1. ASSUME NEW x \in S, Contains(r, x), x = e
        PROVE  key[x] = (new[x] - tick) % M /\ key[x] \in first .. half - 1
    <3>1. key[e] = (new[e] - tick) % M
      BY <1>1, <1>2
    <3> HIDE DEF d
    <3> QED BY <2>1, <3>1
  <2>2. ASSUME NEW x \in S, Contains(r, x), x # e
        PROVE  key[x] = (new[x] - tick) % M /\ key[x] \in first .. half - 1
    <3>1. Contains(s, x)
      BY <1>10, <2>2
    <3> HIDE DEF d
    <3> QED BY <1>1, <1>2, <1>4, <2>2, <3>1 DEF NotMissed
  <2> QED BY <2>1, <2>2
<1>12. ByExpiry(r, tick, new, M, first, half)
  <2>1. RunsFor(S, r, key, tick, new, M) /\ NotMissed(S, r, key, first, half)
    BY <1>11 DEF RunsFor, NotMissed
  <2>2. first \in Int /\ half \in Int
    OBVIOUS
  <2> HIDE DEF d
  <2> QED BY <1>9, <1>10, <2>1, <2>2, ByExpirySorted
<1> QED BY <1>2, <1>5, <1>8, <1>9, <1>12 DEF r

\* A tick brings every timer one tick nearer to its expiry.
LEMMA ExpiryTick ==
  ASSUME NEW S, NEW s \in Seq(S), NEW M \in Nat, M > 1,
         NEW tick \in 0 .. M - 1, NEW timeout \in [S -> 0 .. M - 1],
         NEW half \in Nat, ByExpiry(s, tick, timeout, M, 1, half)
  PROVE  ByExpiry(s, (tick + 1) % M, timeout, M, 0, half)
<1>1. Len(s) \in Nat /\ \A i \in 1 .. Len(s) : s[i] \in S
  BY ElementOfSeq
<1>2. ASSUME NEW i \in 1 .. Len(s)
      PROVE  /\ (timeout[s[i]] - tick) % M \in 1 .. half - 1
             /\ (timeout[s[i]] - ((tick + 1) % M)) % M = ((timeout[s[i]] - tick) % M) - 1
  <2> DEFINE b == timeout[s[i]]
  <2>1. (b - tick) % M \in 1 .. half - 1 /\ b \in 0 .. M - 1
    BY <1>1 DEF ByExpiry
  <2> HIDE DEF b
  <2>2. (b - ((tick + 1) % M)) % M = ((b - tick) % M) - 1
    BY <2>1, NearerFacts
  <2> QED BY <2>1, <2>2 DEF b
<1> DEFINE old(i) == (timeout[s[i]] - tick) % M
           new(i) == (timeout[s[i]] - ((tick + 1) % M)) % M
<1>3. \A i \in 1 .. Len(s) : old(i) \in 1 .. half - 1 /\ new(i) = old(i) - 1
  BY <1>2
<1>4. \A i \in 1 .. Len(s) : \A j \in 1 .. i : old(j) <= old(i) /\ j \in 1 .. Len(s)
  BY <1>1 DEF ByExpiry
<1> HIDE DEF old
<1>5. \A i \in 1 .. Len(s) :
        new(i) \in 0 .. half - 1 /\ \A j \in 1 .. i : new(j) <= new(i)
  <2> HIDE DEF new
  <2> QED BY <1>3, <1>4
<1> QED BY <1>5 DEF ByExpiry

\* When the first timer is not due, none is.
LEMMA ExpiryNotDue ==
  ASSUME NEW S, NEW s \in Seq(S), NEW M, NEW tick, NEW timeout,
         NEW half \in Nat, ByExpiry(s, tick, timeout, M, 0, half),
         s # <<>> => (timeout[Head(s)] - tick) % M # 0
  PROVE  ByExpiry(s, tick, timeout, M, 1, half)
<1>1. Len(s) \in Nat /\ (s # <<>> => Head(s) = s[1] /\ 1 \in 1 .. Len(s))
  BY HeadTailProperties
<1> QED BY <1>1 DEF ByExpiry

=============================================================================
