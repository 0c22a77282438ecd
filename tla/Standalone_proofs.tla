-------------------------- MODULE Standalone_proofs --------------------------
(***************************************************************************)
(* Two components that stand alone, without threads or the tick.           *)
(*                                                                         *)
(* The heap of mem.c: whatever is allocated, freed and resized, the blocks *)
(* tile the heap, no two holes are neighbours, and the search for room     *)
(* starts at the lowest hole and misses none that fits.                    *)
(*                                                                         *)
(* The decoder of ir_recv.c gets every frame that is sent whole after a    *)
(* silence, for any number of bits and any noise before it, and main takes *)
(* the newest code wherever the interrupt hits it.                         *)
(***************************************************************************)
EXTENDS SmallMem, IrReceiver, Sequences_proofs

Header == [next : 0 .. End, prev : 0 .. End, used : BOOLEAN]

BlocksOf(g) == DOMAIN g \ {End}

\* The headers g form one chain in both directions, from 0 to the end.
Chain(g) ==
  /\ g \in [DOMAIN g -> Header]
  /\ 0 \in DOMAIN g /\ End \in DOMAIN g /\ DOMAIN g \subseteq 0 .. End
  /\ g[End].used /\ g[0].prev = 0
  /\ \A b \in BlocksOf(g) :
       /\ g[b].next \in DOMAIN g /\ b + HeaderSize < g[b].next
       /\ \A x \in DOMAIN g : x <= b \/ g[b].next <= x
       /\ b # 0 => g[b].prev \in BlocksOf(g) /\ g[g[b].prev].next = b

\* No hole is followed by a hole, except perhaps on a side of b.
HolesOnlyAt(g, b) ==
  \A x \in BlocksOf(g) : (~g[x].used /\ ~g[g[x].next].used) => x = b \/ g[x].next = b

NoHoles(g) == \A x \in BlocksOf(g) : ~g[x].used => g[g[x].next].used

\* The bytes of the used blocks and their headers.
Bytes(g) == UNION {b .. g[b].next - 1 : b \in {x \in BlocksOf(g) : g[x].used}}

\* The search for a hole starts at the first one.
Lowest(s) ==
  /\ s.lfree \in DOMAIN s.blk
  /\ s.lfree = End \/ ~s.blk[s.lfree].used
  /\ \A b \in BlocksOf(s.blk) : ~s.blk[b].used => s.lfree <= b

\* All of it but the rule on holes.
Sound(s) ==
  /\ s = [blk |-> s.blk, lfree |-> s.lfree, used |-> s.used]
  /\ Chain(s.blk)
  /\ Lowest(s)
  /\ s.used = Cardinality(Bytes(s.blk))

HeapOK(s) == Sound(s) /\ NoHoles(s.blk)

\* The used blocks of the heap r are those of s, and as long.
SameUsed(r, s) ==
  \A x : /\ x \in BlocksOf(r.blk) /\ r.blk[x].used <=> x \in BlocksOf(s.blk) /\ s.blk[x].used
         /\ x \in BlocksOf(s.blk) /\ s.blk[x].used => r.blk[x].next = s.blk[x].next

IInv ==
  /\ HeapOK(h)
  /\ HeldHasRoom
  /\ held \in [DOMAIN held -> Sizes]

-----------------------------------------------------------------------------
(* Sizes *)

\* The constants of the heap as the proofs use them.
LEMMA SizeFacts ==
  /\ AlignSize \in Nat /\ AlignSize > 0 /\ HeaderSize \in Nat /\ HeaderSize > 0
  /\ MinSize \in Nat /\ MinSize > 0 /\ HeapSize \in Nat /\ HeapSize > 0
  /\ End \in Nat /\ End = HeapSize + HeaderSize
  /\ \A n \in Sizes : n \in Nat /\ n > 0
BY HeapAssumption DEF End

\* RT_ALIGN rounds up.
LEMMA AlignFacts ==
  ASSUME NEW n \in Nat, n > 0
  PROVE  Align(n) \in Nat /\ Align(n) >= n
<1> DEFINE A == AlignSize
           m == n + A - 1
           q == m \div A
<1>1. A \in Nat /\ A > 0 /\ m \in Nat
  BY SizeFacts
<1> HIDE DEF A, m
<1>2. q \in Int /\ m = A * q + (m % A) /\ m % A \in 0 .. A - 1
  BY <1>1
<1>3. q * A = A * q /\ q * A \in Int
  BY <1>2, <1>1
<1> HIDE DEF q
<1>4. q * A >= n
  BY <1>1, <1>2, <1>3 DEF m
<1> QED BY <1>1, <1>3, <1>4 DEF Align, q, m, A

\* A request is rounded up, if at all, by the smallest block.
LEMMA AtLeastMinFacts ==
  ASSUME NEW n \in Nat, n > 0
  PROVE  AtLeastMin(n) \in Nat /\ AtLeastMin(n) >= n
BY SizeFacts, AlignFacts DEF AtLeastMin

-----------------------------------------------------------------------------
(* The chain *)

\* A byte belongs to one block at most.
LEMMA OneBlock ==
  ASSUME NEW g, Chain(g), NEW x \in BlocksOf(g), NEW y \in BlocksOf(g), NEW n \in Int,
         x <= n, n < g[x].next, y <= n, n < g[y].next
  PROVE  x = y
<1>1. x \in Int /\ y \in Int /\ g[x].next \in Int /\ g[y].next \in Int
  BY SizeFacts DEF Chain, BlocksOf
<1>2. (x <= y \/ g[y].next <= x) /\ (y <= x \/ g[x].next <= y)
  BY DEF Chain, BlocksOf
<1> QED BY <1>1, <1>2

\* The block behind a block has it for its predecessor.
LEMMA NextPrev ==
  ASSUME NEW g, Chain(g), NEW b \in BlocksOf(g), g[b].next # End
  PROVE  g[g[b].next].prev = b
<1> DEFINE n == g[b].next
           a == g[n].prev
<1>1. n \in BlocksOf(g) /\ n # 0 /\ b \in Int /\ n \in Int /\ b < n
  BY SizeFacts DEF Chain, BlocksOf
<1>2. a \in BlocksOf(g) /\ g[a].next = n
  BY <1>1 DEF Chain
<1>3. a \in Int /\ a < n
  BY <1>1, <1>2, SizeFacts DEF Chain, BlocksOf
<1>4. (a <= b \/ n <= a) /\ (b <= a \/ n <= b)
  BY <1>2 DEF Chain, BlocksOf
<1> QED BY <1>1, <1>3, <1>4

\* What Split, Join and Mark do to each header.
SplitShape(r, g, a, b) ==
  /\ DOMAIN r = DOMAIN g \cup {b} /\ r \in [DOMAIN r -> Header]
  /\ \A x \in DOMAIN r :
       /\ r[x].next = IF x = b THEN g[a].next ELSE IF x = a THEN b ELSE g[x].next
       /\ r[x].prev = IF x = b THEN a
                      ELSE IF x = g[a].next /\ x # End THEN b ELSE g[x].prev
       /\ r[x].used = IF x = b THEN FALSE ELSE g[x].used

JoinShape(r, g, a, b) ==
  /\ DOMAIN r = DOMAIN g \ {b} /\ r \in [DOMAIN r -> Header]
  /\ \A x \in DOMAIN r :
       /\ r[x].next = IF x = a THEN g[b].next ELSE g[x].next
       /\ r[x].prev = IF x = g[b].next THEN a ELSE g[x].prev
       /\ r[x].used = g[x].used

MarkShape(r, g, b, u) ==
  /\ DOMAIN r = DOMAIN g /\ r \in [DOMAIN r -> Header]
  /\ \A x \in DOMAIN r :
       /\ r[x].next = g[x].next /\ r[x].prev = g[x].prev
       /\ r[x].used = IF x = b THEN u ELSE g[x].used

\* A new header inside block a keeps the chain.
LEMMA SplitChain ==
  ASSUME NEW g, Chain(g), NEW a \in BlocksOf(g), NEW b \in Int,
         a + HeaderSize < b, b + HeaderSize < g[a].next,
         NEW r, SplitShape(r, g, a, b)
  PROVE  Chain(r) /\ b \notin DOMAIN g /\ b \in BlocksOf(r)
<1> DEFINE D == DOMAIN g
           n == g[a].next
<1>0. /\ HeaderSize \in Nat /\ HeaderSize > 0 /\ End \in Nat
      /\ D \subseteq 0 .. End /\ 0 \in D /\ End \in D
      /\ a \in D /\ a # End /\ a \in Int
      /\ n \in D /\ n \in Int
      /\ \A x \in D : x \in Int /\ (x <= a \/ n <= x)
  BY SizeFacts DEF Chain, BlocksOf
<1>1. b \notin D /\ b \in 0 .. End /\ b # 0 /\ b # End /\ b < n /\ a < b
  BY <1>0
<1>2. /\ DOMAIN r = D \cup {b} /\ r \in [DOMAIN r -> Header]
      /\ BlocksOf(r) = BlocksOf(g) \cup {b}
  BY <1>1 DEF SplitShape, BlocksOf
<1>5. /\ \A x \in D : /\ r[x].next = IF x = a THEN b ELSE g[x].next
                      /\ x # n \/ x = End => r[x].prev = g[x].prev
                      /\ r[x].used = g[x].used
      /\ r[b].next = n /\ r[b].prev = a /\ (n # End => r[n].prev = b)
  <2>1. \A x \in D : x \in DOMAIN r /\ x # b
    BY <1>1, <1>2
  <2> QED BY <1>0, <1>1, <1>2, <2>1 DEF SplitShape
<1>6. a # n /\ n # 0
  BY <1>0
<1>3. r[End].used /\ r[0].prev = 0
  BY <1>0, <1>5, <1>6 DEF Chain
<1>4. ASSUME NEW x \in BlocksOf(r)
      PROVE  /\ r[x].next \in DOMAIN r /\ x + HeaderSize < r[x].next
             /\ \A y \in DOMAIN r : y <= x \/ r[x].next <= y
             /\ x # 0 => r[x].prev \in BlocksOf(r) /\ r[r[x].prev].next = x
  <2>1. CASE x = b
    <3>1. r[x].next = n /\ r[x].prev = a
      BY <1>5, <2>1
    <3>2. a \in BlocksOf(r) /\ r[a].next = b
      BY <1>0, <1>2, <1>5
    <3>3. \A y \in DOMAIN r : y <= b \/ n <= y
      BY <1>0, <1>1, <1>2
    <3> QED BY <1>0, <1>2, <2>1, <3>1, <3>2, <3>3
  <2>2. CASE x = a
    <3>1. r[x].next = b /\ r[x].prev = g[a].prev
      BY <1>0, <1>5, <1>6, <2>2
    <3>2. \A y \in DOMAIN r : y <= a \/ b <= y
      BY <1>0, <1>1, <1>2
    <3>3. a # 0 => g[a].prev \in BlocksOf(g) /\ g[g[a].prev].next = a
      BY DEF Chain
    <3>4. g[a].prev \in BlocksOf(g) /\ g[g[a].prev].next = a
            => r[g[a].prev].next = a
      BY <1>0, <1>5, <1>6 DEF BlocksOf
    <3> QED BY <1>2, <2>2, <3>1, <3>2, <3>3, <3>4
  <2>3. CASE x # a /\ x # b
    <3>1. x \in BlocksOf(g) /\ x \in D
      BY <1>2, <2>3 DEF BlocksOf
    <3>2. /\ g[x].next \in D /\ x + HeaderSize < g[x].next
          /\ \A y \in D : y <= x \/ g[x].next <= y
          /\ x # 0 => g[x].prev \in BlocksOf(g) /\ g[g[x].prev].next = x
      BY <3>1 DEF Chain
    <3>3. r[x].next = g[x].next
      BY <1>5, <2>3, <3>1
    <3>4. b <= x \/ g[x].next <= b
      BY <1>0, <1>1, <2>3, <3>1, <3>2
    <3>5. x = n => r[x].prev = b /\ r[b].next = x
      BY <1>5, <3>1 DEF BlocksOf
    <3>6. x # n /\ x # 0 => /\ r[x].prev = g[x].prev /\ g[x].prev # a
                            /\ g[x].prev # b
                            /\ r[g[x].prev].next = x
      BY <1>1, <1>5, <3>1, <3>2 DEF BlocksOf
    <3> QED BY <1>2, <1>1, <3>2, <3>3, <3>4, <3>5, <3>6
  <2> QED BY <2>1, <2>2, <2>3
<1> QED BY <1>0, <1>1, <1>2, <1>3, <1>4 DEF Chain

\* Merging a block with the one behind it keeps the chain.
LEMMA JoinChain ==
  ASSUME NEW g, Chain(g), NEW a \in BlocksOf(g), NEW b \in BlocksOf(g), g[a].next = b,
         NEW r, JoinShape(r, g, a, b)
  PROVE  Chain(r) /\ a \in BlocksOf(r)
<1> DEFINE D == DOMAIN g
           n == g[b].next
<1>0. /\ HeaderSize \in Nat /\ HeaderSize > 0 /\ End \in Nat
      /\ D \subseteq 0 .. End /\ 0 \in D /\ End \in D
      /\ a \in D /\ a # End /\ a \in Int /\ b \in D /\ b # End /\ b \in Int
      /\ n \in D /\ n \in Int /\ a + HeaderSize < b /\ b + HeaderSize < n
      /\ \A x \in D : x \in Int /\ (x <= a \/ b <= x) /\ (x <= b \/ n <= x)
  BY SizeFacts DEF Chain, BlocksOf
<1>1. a # b /\ b # n /\ a # n /\ b # 0 /\ n # 0
  BY <1>0
<1>2. /\ DOMAIN r = D \ {b} /\ r \in [DOMAIN r -> Header]
      /\ BlocksOf(r) = BlocksOf(g) \ {b} /\ a \in BlocksOf(r)
  BY <1>0, <1>1 DEF JoinShape, BlocksOf
<1>3. r[End].used /\ r[0].prev = 0
  BY <1>0, <1>1, <1>2 DEF JoinShape, Chain
<1>4. ASSUME NEW x \in BlocksOf(r)
      PROVE  /\ r[x].next \in DOMAIN r /\ x + HeaderSize < r[x].next
             /\ \A y \in DOMAIN r : y <= x \/ r[x].next <= y
             /\ x # 0 => r[x].prev \in BlocksOf(r) /\ r[r[x].prev].next = x
  <2>1. x \in BlocksOf(g) /\ x \in D /\ x # b
    BY <1>2 DEF BlocksOf
  <2>2. /\ g[x].next \in D /\ x + HeaderSize < g[x].next
        /\ \A y \in D : y <= x \/ g[x].next <= y
        /\ x # 0 => g[x].prev \in BlocksOf(g) /\ g[g[x].prev].next = x
    BY <2>1 DEF Chain
  <2>3. /\ x = a => r[x].next = n
        /\ x # a => r[x].next = g[x].next /\ g[x].next # b
    <3>1. x # a => g[x].next # b
      <4>1. g[b].prev = a
        BY <1>0, NextPrev
      <4>2. g[x].next = b => g[b].prev = x
        BY <1>0, <2>1, NextPrev
      <4> QED BY <4>1, <4>2
    <3> QED BY <1>2, <2>1, <3>1 DEF JoinShape
  <2>4. /\ r[x].next \in DOMAIN r /\ x + HeaderSize < r[x].next
        /\ \A y \in DOMAIN r : y <= x \/ r[x].next <= y
    BY <1>0, <1>1, <1>2, <2>1, <2>2, <2>3
  <2>5. ASSUME x = n PROVE r[x].prev = a /\ r[a].next = x
    BY <1>1, <1>2, <2>5 DEF JoinShape, BlocksOf
  <2>6. ASSUME x # n, x # 0 PROVE r[x].prev \in BlocksOf(r) /\ r[r[x].prev].next = x
    <3> DEFINE q == g[x].prev
    <3>1. r[x].prev = q /\ q \in BlocksOf(g) /\ g[q].next = x /\ q # b
      BY <1>2, <2>1, <2>2, <2>6 DEF JoinShape
    <3>2. q # a /\ q \in BlocksOf(r)
      BY <1>2, <2>1, <3>1
    <3> QED BY <3>1, <3>2, <1>2 DEF JoinShape, BlocksOf
  <2> QED BY <1>2, <2>4, <2>5, <2>6
<1> QED BY <1>0, <1>1, <1>2, <1>3, <1>4 DEF Chain

\* The flag of a block is not part of the chain.
LEMMA MarkChain ==
  ASSUME NEW g, Chain(g), NEW b \in BlocksOf(g), NEW u \in BOOLEAN,
         NEW r, MarkShape(r, g, b, u)
  PROVE  Chain(r) /\ BlocksOf(r) = BlocksOf(g)
<1>1. /\ DOMAIN r = DOMAIN g /\ r \in [DOMAIN r -> Header]
      /\ BlocksOf(r) = BlocksOf(g) /\ End # b /\ End \in DOMAIN g
  BY DEF MarkShape, BlocksOf, Chain
<1>2. r[End].used /\ r[0].prev = 0
  BY <1>1 DEF MarkShape, Chain
<1>3. \A x \in DOMAIN g : r[x].next = g[x].next /\ r[x].prev = g[x].prev
  BY <1>1 DEF MarkShape
<1> HIDE DEF BlocksOf
<1>4. \A x \in BlocksOf(r) : x \in DOMAIN g
  BY <1>1 DEF BlocksOf
<1> QED BY <1>1, <1>2, <1>3, <1>4 DEF Chain

-----------------------------------------------------------------------------
(* The bytes of the used blocks *)

\* They are bytes of the heap, so their number is a natural one.
LEMMA BytesFacts ==
  ASSUME NEW g, Chain(g)
  PROVE  /\ \A n : n \in Bytes(g) <=> \E x \in BlocksOf(g) : g[x].used /\ n \in x .. g[x].next - 1
         /\ IsFiniteSet(Bytes(g)) /\ Cardinality(Bytes(g)) \in 0 .. End
<1>1. \A n : n \in Bytes(g) <=> \E x \in BlocksOf(g) : g[x].used /\ n \in x .. g[x].next - 1
  BY DEF Bytes
<1>2. Bytes(g) \in SUBSET (0 .. End - 1)
  <2>1. \A x \in BlocksOf(g) : x \in 0 .. End /\ g[x].next \in 0 .. End
    BY DEF Chain, BlocksOf
  <2> QED BY <1>1, <2>1, SizeFacts
<1>3. IsFiniteSet(0 .. End - 1) /\ Cardinality(0 .. End - 1) = End
  BY SizeFacts, FS_Interval
<1>4. /\ IsFiniteSet(Bytes(g)) /\ Cardinality(Bytes(g)) <= End
      /\ Cardinality(Bytes(g)) \in Nat
  BY <1>2, <1>3, FS_Subset, FS_CardinalityType
<1> QED BY <1>1, <1>4, SizeFacts

\* Two heaps with the same used blocks have the same bytes in use.
LEMMA BytesSame ==
  ASSUME NEW g, Chain(g), NEW r, Chain(r),
         \A x : x \in BlocksOf(r) /\ r[x].used <=> x \in BlocksOf(g) /\ g[x].used,
         \A x \in BlocksOf(g) : g[x].used => r[x].next = g[x].next
  PROVE  Bytes(r) = Bytes(g)
<1>1. \A n : n \in Bytes(r) <=> \E x \in BlocksOf(r) : r[x].used /\ n \in x .. r[x].next - 1
  BY BytesFacts
<1>2. \A n : n \in Bytes(g) <=> \E x \in BlocksOf(g) : g[x].used /\ n \in x .. g[x].next - 1
  BY BytesFacts
<1>3. \A n : n \in Bytes(r) <=> n \in Bytes(g)
  BY <1>1, <1>2
<1> QED BY <1>3

\* A block b that is used in r and not in g makes its bytes the difference.
LEMMA BytesMore ==
  ASSUME NEW g, Chain(g), NEW r, Chain(r), NEW b \in BlocksOf(r), r[b].used,
         \A x : x # b => (x \in BlocksOf(r) /\ r[x].used <=> x \in BlocksOf(g) /\ g[x].used),
         \A x \in BlocksOf(g) : x # b /\ g[x].used => r[x].next = g[x].next,
         b \in BlocksOf(g) => ~g[b].used
  PROVE  Cardinality(Bytes(r)) = Cardinality(Bytes(g)) + (r[b].next - b)
<1> DEFINE I == b .. r[b].next - 1
           B == Bytes(g)
<1>1. b \in Int /\ r[b].next \in Int /\ b < r[b].next
  BY SizeFacts DEF Chain, BlocksOf
<1>2. Bytes(r) = B \cup I
  <2>1. \A n : n \in Bytes(r) <=> \E x \in BlocksOf(r) : r[x].used /\ n \in x .. r[x].next - 1
    BY BytesFacts
  <2>2. \A n : n \in B <=> \E x \in BlocksOf(g) : g[x].used /\ n \in x .. g[x].next - 1
    BY BytesFacts
  <2> HIDE DEF B
  <2> QED BY <2>1, <2>2
<1>3. B \cap I = {}
  <2> SUFFICES ASSUME NEW n \in I, n \in B PROVE FALSE
    OBVIOUS
  <2>1. PICK x \in BlocksOf(g) : g[x].used /\ n \in x .. g[x].next - 1
    BY BytesFacts
  <2>2. x # b /\ x \in BlocksOf(r) /\ r[x].next = g[x].next
    BY <2>1
  <2>3. x \in Int /\ r[x].next \in Int
    BY <2>2 DEF Chain, BlocksOf
  <2>4. n \in Int /\ x <= n /\ n < r[x].next /\ b <= n /\ n < r[b].next
    BY <1>1, <2>1, <2>2, <2>3
  <2> QED BY <2>2, <2>4, OneBlock
<1>4. IsFiniteSet(B) /\ IsFiniteSet(I) /\ Cardinality(I) = r[b].next - b
  <2>1. r[b].next - 1 \in Int
    BY <1>1
  <2>2. IsFiniteSet(I) /\ Cardinality(I) = IF b > r[b].next - 1 THEN 0 ELSE r[b].next - 1 - b + 1
    BY <1>1, <2>1, FS_Interval
  <2> QED BY <1>1, <2>2, BytesFacts
<1> HIDE DEF B, I
<1>5. Cardinality(B \cup I) = Cardinality(B) + Cardinality(I) - Cardinality(B \cap I)
  BY <1>4, FS_Union
<1>6. Cardinality(B \cap I) = 0
  BY <1>3, FS_EmptySet
<1>7. Cardinality(B) \in Int
  BY <1>4, FS_CardinalityType
<1> QED BY <1>1, <1>2, <1>4, <1>5, <1>6, <1>7 DEF B

\* Cutting a used block into a used and a free one gives the bytes of the
\* second one back.
LEMMA BytesCut ==
  ASSUME NEW g, Chain(g), NEW a \in BlocksOf(g), g[a].used, NEW b \in Int,
         a + HeaderSize < b, b + HeaderSize < g[a].next,
         NEW r, SplitShape(r, g, a, b)
  PROVE  Cardinality(Bytes(g)) = Cardinality(Bytes(r)) + (g[a].next - b)
<1> DEFINE q == [r EXCEPT ![b].used = TRUE]
           n == g[a].next
<1>1. Chain(r) /\ b \notin DOMAIN g /\ b \in BlocksOf(r)
  BY SplitChain
<1>2. /\ \A x \in DOMAIN g : /\ r[x].next = IF x = a THEN b ELSE g[x].next
                             /\ r[x].used = g[x].used
      /\ r[b].next = n /\ r[b].used = FALSE
      /\ BlocksOf(r) = BlocksOf(g) \cup {b}
  <2>1. DOMAIN r = DOMAIN g \cup {b}
    BY DEF SplitShape
  <2> QED BY <1>1, <2>1 DEF SplitShape, BlocksOf
<1>3. MarkShape(q, r, b, TRUE)
  <2>1. r \in [DOMAIN r -> Header] /\ b \in DOMAIN r
    BY <1>1 DEF Chain, BlocksOf
  <2> QED BY <2>1 DEF MarkShape, Header
<1>4. Chain(q) /\ BlocksOf(q) = BlocksOf(r)
  BY <1>1, <1>3, MarkChain
<1>5. /\ \A x \in BlocksOf(r) : /\ q[x].next = r[x].next
                                /\ q[x].used = IF x = b THEN TRUE ELSE r[x].used
  BY <1>3 DEF MarkShape, BlocksOf
<1> HIDE DEF q
<1>6. Cardinality(Bytes(q)) = Cardinality(Bytes(r)) + (q[b].next - b)
  <2>1. /\ b \in BlocksOf(q) /\ q[b].used
        /\ \A x : x # b => (x \in BlocksOf(q) /\ q[x].used <=> x \in BlocksOf(r) /\ r[x].used)
        /\ \A x \in BlocksOf(r) : x # b /\ r[x].used => q[x].next = r[x].next
        /\ b \in BlocksOf(r) => ~r[b].used
    BY <1>1, <1>2, <1>4, <1>5
  <2> HIDE DEF n
  <2> QED BY <1>1, <1>4, <2>1, BytesMore
<1>7. Bytes(q) = Bytes(g)
  <2>1. \A i : i \in Bytes(q) <=> \E x \in BlocksOf(q) : q[x].used /\ i \in x .. q[x].next - 1
    BY <1>4, BytesFacts
  <2>2. \A i : i \in Bytes(g) <=> \E x \in BlocksOf(g) : g[x].used /\ i \in x .. g[x].next - 1
    BY BytesFacts
  <2>3. a \in Int /\ n \in Int /\ HeaderSize \in Nat
    BY SizeFacts DEF Chain, BlocksOf
  <2>4. \A x \in BlocksOf(g) : x \in DOMAIN g /\ x # b
    BY <1>1 DEF BlocksOf
  <2>5. /\ \A x \in BlocksOf(g) : /\ q[x].next = IF x = a THEN b ELSE g[x].next
                                  /\ q[x].used = g[x].used
        /\ q[b].next = n /\ q[b].used
        /\ BlocksOf(q) = BlocksOf(g) \cup {b}
    BY <1>2, <1>4, <1>5, <2>4
  <2>6. ASSUME NEW i, i \in Bytes(g) PROVE i \in Bytes(q)
    <3>1. PICK x \in BlocksOf(g) : g[x].used /\ i \in x .. g[x].next - 1
      BY <2>2, <2>6
    <3>2. CASE x # a
      BY <2>1, <2>4, <2>5, <3>1, <3>2
    <3>3. CASE x = a
      <4>1. i \in a .. b - 1 \/ i \in b .. n - 1
        BY <2>3, <3>1, <3>3
      <4> QED BY <2>1, <2>4, <2>5, <3>1, <3>3, <4>1
    <3> QED BY <3>2, <3>3
  <2>7. ASSUME NEW i, i \in Bytes(q) PROVE i \in Bytes(g)
    <3>1. PICK x \in BlocksOf(q) : q[x].used /\ i \in x .. q[x].next - 1
      BY <2>1, <2>7
    <3>2. CASE x = b \/ x = a
      <4>1. i \in a .. n - 1
        BY <2>3, <2>5, <3>1, <3>2
      <4> QED BY <2>2, <4>1
    <3>3. CASE x # b /\ x # a
      BY <2>2, <2>5, <3>1, <3>3
    <3> QED BY <3>2, <3>3
  <2> QED BY <2>6, <2>7
<1> QED BY <1>2, <1>5, <1>6, <1>7, <1>1

-----------------------------------------------------------------------------
(* plug_holes *)

\* Merging a hole with the hole behind it leaves the used blocks, their bytes
\* and the start of the search.
LEMMA JoinSound ==
  ASSUME NEW s, Sound(s), NEW a \in BlocksOf(s.blk), NEW b \in BlocksOf(s.blk),
         s.blk[a].next = b, ~s.blk[a].used, ~s.blk[b].used,
         NEW r, r = Join(s, a, b)
  PROVE  /\ Sound(r) /\ SameUsed(r, s)
         /\ JoinShape(r.blk, s.blk, a, b)
<1> DEFINE g == s.blk
           n == g[b].next
           f == r.blk
<1>0. /\ Chain(g) /\ g \in [DOMAIN g -> Header] /\ n \in DOMAIN g
      /\ a \in DOMAIN g /\ b \in DOMAIN g /\ a \in 0 .. End /\ n \in 0 .. End
      /\ a \in Int /\ b \in Int /\ a < b /\ b < n /\ a # End
      /\ Lowest(s) /\ s.lfree \in Int
  BY SizeFacts DEF Sound, Chain, BlocksOf, Lowest
<1>1. s.lfree <= a /\ s.lfree # b
  BY <1>0 DEF Lowest
<1>2. /\ f = Without([g EXCEPT ![a].next = n, ![n].prev = a], b)
      /\ r.lfree = s.lfree /\ r.used = s.used
      /\ r = [blk |-> r.blk, lfree |-> r.lfree, used |-> r.used]
  <2>1. s = [blk |-> s.blk, lfree |-> s.lfree, used |-> s.used]
    BY DEF Sound
  <2> QED BY <1>1, <2>1 DEF Join
<1>3. JoinShape(f, g, a, b)
  <2> DEFINE e == [g EXCEPT ![a].next = n, ![n].prev = a]
  <2>1. e \in [DOMAIN g -> Header]
    BY <1>0, SMTT(30) DEF Header
  <2>2. ASSUME NEW x \in DOMAIN g
        PROVE  /\ e[x].next = IF x = a THEN n ELSE g[x].next
               /\ e[x].prev = IF x = n THEN a ELSE g[x].prev
               /\ e[x].used = g[x].used
    BY <1>0, SMTT(30) DEF Header
  <2> HIDE DEF e
  <2>3. f = [x \in DOMAIN g \ {b} |-> e[x]]
    BY <1>2, <2>1 DEF Without, e
  <2> HIDE DEF f
  <2> QED BY <2>1, <2>2, <2>3 DEF JoinShape
<1> HIDE DEF g, f
<1>4. Chain(f) /\ a \in BlocksOf(f)
  BY <1>0, <1>3, JoinChain DEF g
<1>5. /\ BlocksOf(f) = BlocksOf(g) \ {b}
      /\ \A x \in BlocksOf(f) : /\ f[x].used = g[x].used
                                /\ x # a => f[x].next = g[x].next
  BY <1>3 DEF JoinShape, BlocksOf
<1>6. SameUsed(r, s)
  BY <1>5 DEF SameUsed, f, g
<1>7. Bytes(f) = Bytes(g)
  BY <1>0, <1>4, <1>6, BytesSame DEF SameUsed, f, g
<1>8. Lowest(r)
  <2>0. r.lfree = s.lfree /\ s.lfree # b
    BY <1>1, <1>2
  <2>1. r.lfree \in DOMAIN f /\ (r.lfree = End \/ ~f[r.lfree].used)
    <3>1. s.lfree \in DOMAIN g /\ (s.lfree = End \/ ~g[s.lfree].used)
      BY <1>0 DEF Lowest, g
    <3>2. DOMAIN f = DOMAIN g \ {b} /\ \A x \in DOMAIN f : f[x].used = g[x].used
      BY <1>3 DEF JoinShape
    <3> QED BY <2>0, <3>1, <3>2
  <2>2. \A x \in BlocksOf(f) : ~f[x].used => r.lfree <= x
    <3>1. \A x \in BlocksOf(g) : ~g[x].used => s.lfree <= x
      BY <1>0 DEF Lowest, g
    <3> QED BY <1>5, <2>0, <3>1
  <2> QED BY <2>1, <2>2 DEF Lowest, f
<1> QED BY <1>2, <1>3, <1>4, <1>6, <1>7, <1>8 DEF Sound, f, g

\* A heap whose only neighbouring holes are around the hole b.
AlmostOK(s, b) ==
  /\ Sound(s)
  /\ b \in BlocksOf(s.blk) /\ ~s.blk[b].used
  /\ HolesOnlyAt(s.blk, b)

\* The used blocks of three heaps in a row.
LEMMA SameUsedTwice ==
  ASSUME NEW r, NEW q, NEW s, SameUsed(r, q), SameUsed(q, s)
  PROVE  SameUsed(r, s)
BY DEF SameUsed

\* The hole behind b is merged into b.
LEMMA PlugForwardFacts ==
  ASSUME NEW s, NEW b, AlmostOK(s, b), NEW r, r = PlugForward(s, b)
  PROVE  /\ AlmostOK(r, b) /\ SameUsed(r, s)
         /\ r.blk[r.blk[b].next].used
<1> DEFINE g == s.blk
           n == g[b].next
<1>0. /\ Sound(s) /\ Chain(g) /\ b \in BlocksOf(g) /\ ~g[b].used /\ HolesOnlyAt(g, b)
      /\ b \in Int /\ n \in Int /\ b < n /\ n \in DOMAIN g /\ g[End].used
  BY SizeFacts DEF AlmostOK, Sound, Chain, BlocksOf
<1>1. CASE g[n].used
  <2>1. r = s
    BY <1>1 DEF PlugForward
  <2> QED BY <1>1, <2>1 DEF SameUsed
<1>2. CASE ~g[n].used
  <2>1. n \in BlocksOf(g)
    BY <1>0, <1>2 DEF BlocksOf
  <2>2. r = Join(s, b, n)
    BY <1>0, <1>2, <2>1 DEF PlugForward, BlocksOf
  <2> HIDE DEF g, n
  <2>3. Sound(r) /\ SameUsed(r, s) /\ JoinShape(r.blk, s.blk, b, n)
    BY <1>0, <1>2, <2>1, <2>2, JoinSound DEF g, n
  <2> DEFINE f == r.blk
             m == g[n].next
  <2>4. Chain(f) /\ Chain(g)
    BY <1>0, <2>3 DEF Sound
  <2>5. /\ DOMAIN f = DOMAIN g \ {n} /\ BlocksOf(f) = BlocksOf(g) \ {n}
        /\ \A x \in DOMAIN f : /\ f[x].used = g[x].used
                               /\ f[x].next = IF x = b THEN m ELSE g[x].next
    BY <2>3 DEF JoinShape, BlocksOf, g
  <2>6. b \in BlocksOf(f) /\ b \in DOMAIN f /\ f[b].next = m /\ ~f[b].used
    BY <1>0, <2>5 DEF BlocksOf
  <2>7. m \in DOMAIN f /\ m \in DOMAIN g /\ m # b
    <3>1. m \in DOMAIN f /\ b < m /\ b \in Int /\ m \in Int
      BY <2>4, <2>6, SizeFacts DEF Chain, BlocksOf
    <3> QED BY <2>5, <3>1
  <2>8. g[m].used
    BY <1>0, <1>2, <2>1, <2>7 DEF HolesOnlyAt, n
  <2>9. HolesOnlyAt(f, b)
    <3> SUFFICES ASSUME NEW x \in BlocksOf(f), ~f[x].used, ~f[f[x].next].used, x # b
                 PROVE  f[x].next = b
      BY DEF HolesOnlyAt
    <3>1. x \in BlocksOf(g) /\ x # n /\ x \in DOMAIN f
      BY <2>5 DEF BlocksOf
    <3>2. f[x].next = g[x].next /\ f[x].next \in DOMAIN f
      BY <2>4, <2>5, <3>1 DEF Chain
    <3> QED BY <1>0, <2>5, <3>1, <3>2 DEF HolesOnlyAt
  <2> QED BY <2>3, <2>5, <2>6, <2>7, <2>8, <2>9 DEF AlmostOK
<1> QED BY <1>1, <1>2

\* Then b is merged into the hole in front of it, and no two holes are left.
LEMMA PlugBackwardFacts ==
  ASSUME NEW s, NEW b, AlmostOK(s, b), s.blk[s.blk[b].next].used,
         NEW r, r = PlugBackward(s, b)
  PROVE  HeapOK(r) /\ SameUsed(r, s)
<1> DEFINE g == s.blk
           p == g[b].prev
           n == g[b].next
<1>0. /\ Sound(s) /\ Chain(g) /\ b \in BlocksOf(g) /\ ~g[b].used /\ HolesOnlyAt(g, b)
      /\ g[n].used
      /\ b # 0 => p \in BlocksOf(g) /\ g[p].next = b
      /\ b = 0 => p = 0
  BY DEF AlmostOK, Sound, Chain
<1>1. \A x \in BlocksOf(g) : g[x].next = b => b # 0 /\ x = p
  <2> SUFFICES ASSUME NEW x \in BlocksOf(g), g[x].next = b PROVE b # 0 /\ x = p
    OBVIOUS
  <2>1. b # End /\ g[b].prev = x
    BY <1>0, NextPrev DEF BlocksOf
  <2>2. x \in Int /\ x >= 0 /\ x < b /\ b \in Int
    BY <1>0, SizeFacts DEF Chain, BlocksOf
  <2> QED BY <2>1, <2>2
<1> HIDE DEF g
<1>2. CASE p = b \/ g[p].used
  <2>1. r = s
    BY <1>2 DEF PlugBackward, g
  <2>2. p # b => p \in BlocksOf(g) /\ g[p].used
    BY <1>0, <1>2
  <2>3. NoHoles(g)
    <3>0. b = 0 => p = b
      BY <1>0
    <3>1. ASSUME NEW x \in BlocksOf(g), ~g[x].used, g[x].next = b PROVE FALSE
      <4>1. b # 0 /\ x = p /\ g[p].next = b
        BY <1>0, <1>1, <3>1
      <4>2. p # b
        BY <1>0, <4>1, SizeFacts DEF Chain, BlocksOf
      <4> QED BY <2>2, <3>1, <4>1, <4>2
    <3> QED BY <1>0, <3>1 DEF NoHoles, HolesOnlyAt
  <2> QED BY <1>0, <2>1, <2>3 DEF HeapOK, SameUsed, g
<1>3. CASE p # b /\ ~g[p].used
  <2>1. r = Join(s, p, b) /\ p \in BlocksOf(g) /\ g[p].next = b
    BY <1>0, <1>3 DEF PlugBackward, g
  <2> HIDE DEF p, n
  <2>2. Sound(r) /\ SameUsed(r, s) /\ JoinShape(r.blk, s.blk, p, b)
    BY <1>0, <1>3, <2>1, JoinSound DEF g
  <2> DEFINE f == r.blk
  <2>3. Chain(f)
    BY <2>2 DEF Sound
  <2>4. /\ DOMAIN f = DOMAIN g \ {b} /\ BlocksOf(f) = BlocksOf(g) \ {b}
        /\ \A x \in DOMAIN f : /\ f[x].used = g[x].used
                               /\ f[x].next = IF x = p THEN n ELSE g[x].next
    BY <2>2 DEF JoinShape, BlocksOf, g, n
  <2>5. NoHoles(f)
    <3> SUFFICES ASSUME NEW x \in BlocksOf(f), ~f[x].used, ~f[f[x].next].used
                 PROVE  FALSE
      BY DEF NoHoles
    <3>1. x \in BlocksOf(g) /\ x # b /\ x \in DOMAIN f /\ f[x].next \in DOMAIN f
      BY <2>3, <2>4 DEF Chain, BlocksOf
    <3>2. x # p
      BY <1>0, <2>4, <3>1
    <3>3. f[x].next = g[x].next /\ ~g[x].used /\ ~g[g[x].next].used
      BY <2>4, <3>1, <3>2
    <3> QED BY <1>0, <1>1, <3>1, <3>2, <3>3 DEF HolesOnlyAt
  <2> QED BY <2>2, <2>5 DEF HeapOK
<1> QED BY <1>2, <1>3

\* plug_holes leaves a heap without neighbouring holes.
LEMMA PlugFacts ==
  ASSUME NEW s, NEW b, AlmostOK(s, b), NEW r, r = PlugHoles(s, b)
  PROVE  HeapOK(r) /\ SameUsed(r, s)
<1> DEFINE q == PlugForward(s, b)
<1>1. AlmostOK(q, b) /\ SameUsed(q, s) /\ q.blk[q.blk[b].next].used
  BY PlugForwardFacts
<1> HIDE DEF q
<1>2. HeapOK(PlugBackward(q, b)) /\ SameUsed(PlugBackward(q, b), q)
  BY <1>1, PlugBackwardFacts
<1> QED BY <1>1, <1>2, SameUsedTwice DEF PlugHoles, q

-----------------------------------------------------------------------------
(* rt_smem_alloc, rt_smem_free, rt_smem_realloc *)

\* What a heap in order says of each of its blocks.
LEMMA BlockFacts ==
  ASSUME NEW s, Sound(s), NEW b \in BlocksOf(s.blk)
  PROVE  /\ Chain(s.blk) /\ s.blk \in [DOMAIN s.blk -> Header]
         /\ b \in DOMAIN s.blk /\ b # End /\ b \in Int
         /\ s.blk[b].next \in DOMAIN s.blk /\ s.blk[b].next \in Int
         /\ b + HeaderSize < s.blk[b].next /\ b < s.blk[b].next /\ s.blk[b].next <= End
         /\ DataSize(s, b) = s.blk[b].next - (b + HeaderSize) /\ DataSize(s, b) \in Int
         /\ s.lfree \in DOMAIN s.blk /\ s.lfree \in Int
         /\ s.used \in 0 .. End /\ HeaderSize \in Nat
<1>1. Chain(s.blk) /\ Lowest(s) /\ s.used = Cardinality(Bytes(s.blk))
  BY DEF Sound
<1>2. s.used \in 0 .. End
  BY <1>1, BytesFacts
<1> QED BY <1>1, <1>2, SizeFacts DEF Chain, BlocksOf, Lowest, DataSize

\* A used block becomes a hole, and is merged with the holes around it.
LEMMA ReleaseFacts ==
  ASSUME NEW s, HeapOK(s), NEW b \in BlocksOf(s.blk), s.blk[b].used,
         NEW r, r = Release(s, b)
  PROVE  /\ HeapOK(r)
         /\ \A x : /\ x \in BlocksOf(r.blk) /\ r.blk[x].used
                        <=> x \in BlocksOf(s.blk) /\ s.blk[x].used /\ x # b
                   /\ x \in BlocksOf(s.blk) /\ s.blk[x].used /\ x # b
                        => r.blk[x].next = s.blk[x].next
<1> DEFINE g == s.blk
           q == [s EXCEPT !.blk[b].used = FALSE,
                          !.lfree = IF b < @ THEN b ELSE @,
                          !.used = @ - (s.blk[b].next - b)]
           f == q.blk
<1>0. /\ Sound(s) /\ Chain(g) /\ g \in [DOMAIN g -> Header] /\ NoHoles(g)
      /\ b \in DOMAIN g /\ b \in Int /\ g[b].next \in Int
      /\ s = [blk |-> s.blk, lfree |-> s.lfree, used |-> s.used]
      /\ s.lfree \in DOMAIN g /\ s.lfree \in Int /\ s.used \in Int
  BY BlockFacts DEF HeapOK, Sound
<1>1. /\ f = [g EXCEPT ![b].used = FALSE]
      /\ q.lfree = IF b < s.lfree THEN b ELSE s.lfree
      /\ q.used = s.used - (g[b].next - b)
      /\ q = [blk |-> q.blk, lfree |-> q.lfree, used |-> q.used]
  <2>1. f = [g EXCEPT ![b].used = FALSE]
    BY <1>0
  <2>2. q.lfree = IF b < s.lfree THEN b ELSE s.lfree
    BY <1>0
  <2>3. q.used = s.used - (g[b].next - b)
    BY <1>0
  <2>4. q = [blk |-> q.blk, lfree |-> q.lfree, used |-> q.used]
    <3>1. s \in [blk : {g}, lfree : {s.lfree}, used : {s.used}]
      BY <1>0
    <3>2. q \in [blk : {f}, lfree : {q.lfree}, used : {q.used}]
      BY <3>1
    <3> HIDE DEF q, f
    <3> QED BY <3>2 DEF f
  <2> QED BY <2>1, <2>2, <2>3, <2>4
<1> HIDE DEF q, f
<1>2. MarkShape(f, g, b, FALSE)
  BY <1>0, <1>1 DEF MarkShape, Header
<1>3. Chain(f) /\ BlocksOf(f) = BlocksOf(g)
  BY <1>0, <1>2, MarkChain
<1>4. \A x \in BlocksOf(g) : /\ f[x].next = g[x].next
                             /\ f[x].used = IF x = b THEN FALSE ELSE g[x].used
  BY <1>2 DEF MarkShape, BlocksOf
<1>5. Cardinality(Bytes(g)) = Cardinality(Bytes(f)) + (g[b].next - b)
  <2>1. /\ \A x : x # b => (x \in BlocksOf(g) /\ g[x].used <=> x \in BlocksOf(f) /\ f[x].used)
        /\ \A x \in BlocksOf(f) : x # b /\ f[x].used => g[x].next = f[x].next
        /\ b \in BlocksOf(f) => ~f[b].used
    BY <1>3, <1>4
  <2> HIDE DEF g
  <2> QED BY <1>0, <1>3, <2>1, BytesMore DEF g
<1>6. q.used = Cardinality(Bytes(f))
  <2>1. s.used = Cardinality(Bytes(g)) /\ Cardinality(Bytes(f)) \in Int
    BY <1>0, <1>3, BytesFacts DEF Sound
  <2> QED BY <1>0, <1>1, <1>5, <2>1
<1>7. Lowest(q)
  <2>1. Lowest(s)
    BY <1>0 DEF Sound
  <2>2. \A x \in BlocksOf(g) : x \in Int /\ x \in DOMAIN g /\ x # End
    BY <1>0, SizeFacts DEF Chain, BlocksOf
  <2>3. s.lfree # End => s.lfree \in BlocksOf(g)
    BY <1>0 DEF BlocksOf
  <2>4. DOMAIN f = DOMAIN g
    BY <1>2 DEF MarkShape
  <2>5. q.lfree \in DOMAIN f /\ (q.lfree = End \/ ~f[q.lfree].used)
    BY <1>0, <1>1, <1>4, <2>1, <2>3, <2>4 DEF Lowest
  <2>6. \A x \in BlocksOf(f) : ~f[x].used => q.lfree <= x
    BY <1>0, <1>1, <1>3, <1>4, <2>1, <2>2 DEF Lowest
  <2> QED BY <2>5, <2>6 DEF Lowest, f
<1>8. Sound(q)
  BY <1>1, <1>3, <1>6, <1>7 DEF Sound, f
<1>9. HolesOnlyAt(f, b)
  <2> SUFFICES ASSUME NEW x \in BlocksOf(f), ~f[x].used, ~f[f[x].next].used, x # b, f[x].next # b
               PROVE  FALSE
    BY DEF HolesOnlyAt
  <2>1. x \in BlocksOf(g) /\ f[x].next = g[x].next /\ ~g[x].used
    BY <1>3, <1>4
  <2>2. g[x].next \in DOMAIN g /\ g[g[x].next].used
    BY <1>0, <2>1 DEF NoHoles, Chain
  <2> QED BY <1>2, <2>1, <2>2 DEF MarkShape
<1>10. AlmostOK(q, b)
  BY <1>3, <1>4, <1>8, <1>9 DEF AlmostOK, f
<1>11. HeapOK(r) /\ SameUsed(r, q)
  <2>1. r = PlugHoles(q, b)
    BY DEF Release, q
  <2> QED BY <1>10, <2>1, PlugFacts
<1> QED BY <1>3, <1>4, <1>11 DEF SameUsed, f

\* SplitAt splits the block and leaves the rest of the heap alone.
LEMMA SplitFacts ==
  ASSUME NEW s, Sound(s), NEW a \in BlocksOf(s.blk), NEW b \in Int,
         a + HeaderSize < b, b + HeaderSize < s.blk[a].next,
         NEW r, r = SplitAt(s, a, b)
  PROVE  /\ SplitShape(r.blk, s.blk, a, b)
         /\ r.lfree = s.lfree /\ r.used = s.used
         /\ r = [blk |-> r.blk, lfree |-> r.lfree, used |-> r.used]
<1> DEFINE g == s.blk
           n == g[a].next
           f == [x \in DOMAIN g \cup {b} |->
                  IF x = b THEN [next |-> n, prev |-> a, used |-> FALSE]
                  ELSE IF x = a THEN [g[a] EXCEPT !.next = b]
                  ELSE IF x = n /\ n # End THEN [g[x] EXCEPT !.prev = b]
                  ELSE g[x]]
<1>0. /\ Chain(g) /\ g \in [DOMAIN g -> Header] /\ n \in 0 .. End /\ a \in 0 .. End
      /\ s = [blk |-> s.blk, lfree |-> s.lfree, used |-> s.used]
      /\ a \in Int /\ n \in Int /\ HeaderSize \in Nat
  BY SizeFacts DEF Sound, Chain, BlocksOf
<1>1. /\ r.blk = f /\ r.lfree = s.lfree /\ r.used = s.used
      /\ r = [blk |-> r.blk, lfree |-> r.lfree, used |-> r.used]
  BY <1>0 DEF SplitAt
<1>2. b \in 0 .. End /\ b # a /\ b # n /\ a # n
  BY <1>0, SizeFacts
<1>3. ASSUME NEW x \in DOMAIN f
      PROVE  /\ f[x] \in Header
             /\ f[x].next = IF x = b THEN n ELSE IF x = a THEN b ELSE g[x].next
             /\ f[x].prev = IF x = b THEN a
                            ELSE IF x = n /\ x # End THEN b ELSE g[x].prev
             /\ f[x].used = IF x = b THEN FALSE ELSE g[x].used
  <2>1. CASE x = b
    BY <1>0, <1>2, <2>1 DEF Header
  <2>2. CASE x # b /\ x = a
    BY <1>0, <1>2, <2>2 DEF Header
  <2>3. CASE x # b /\ x # a
    BY <1>0, <1>2, <2>3 DEF Header
  <2> QED BY <2>1, <2>2, <2>3
<1>4. DOMAIN f = DOMAIN g \cup {b} /\ f \in [DOMAIN f -> Header]
  BY <1>3
<1> HIDE DEF f
<1>5. SplitShape(f, g, a, b)
  BY <1>3, <1>4 DEF SplitShape
<1> QED BY <1>1, <1>5

\* The hole b is cut to n bytes, or left as it is.
LEMMA CutHole ==
  ASSUME NEW s, HeapOK(s), NEW b \in BlocksOf(s.blk), ~s.blk[b].used,
         NEW n \in Nat, n > 0, DataSize(s, b) >= n,
         NEW c, \/ c = s
                \/ /\ DataSize(s, b) > n + HeaderSize
                   /\ c = SplitAt(s, b, b + HeaderSize + n)
  PROVE  /\ AlmostOK(c, b) /\ SameUsed(c, s)
         /\ c.blk[b].next >= b + HeaderSize + n
<1> DEFINE g == s.blk
           t == b + HeaderSize + n
           f == c.blk
<1>0. /\ Sound(s) /\ Chain(g) /\ NoHoles(g) /\ b \in DOMAIN g /\ b \in Int /\ b # End
      /\ g[b].next \in DOMAIN g /\ g[b].next \in Int /\ HeaderSize \in Nat
      /\ DataSize(s, b) = g[b].next - (b + HeaderSize)
      /\ Lowest(s) /\ s.lfree \in Int /\ HeaderSize > 0
  BY BlockFacts, SizeFacts DEF HeapOK, Sound
<1>1. CASE c = s
  BY <1>0, <1>1 DEF AlmostOK, SameUsed, HolesOnlyAt, NoHoles
<1>2. CASE DataSize(s, b) > n + HeaderSize /\ c = SplitAt(s, b, t)
  <2>1. t \in Int /\ b + HeaderSize < t /\ t + HeaderSize < g[b].next
    BY <1>0, <1>2
  <2> HIDE DEF t
  <2>2. /\ SplitShape(f, g, b, t) /\ c.lfree = s.lfree /\ c.used = s.used
        /\ c = [blk |-> c.blk, lfree |-> c.lfree, used |-> c.used]
    BY <1>0, <1>2, <2>1, SplitFacts
  <2> HIDE DEF f
  <2>3. Chain(f) /\ t \notin DOMAIN g /\ t \in BlocksOf(f)
    BY <1>0, <2>1, <2>2, SplitChain
  <2>4. /\ DOMAIN f = DOMAIN g \cup {t} /\ BlocksOf(f) = BlocksOf(g) \cup {t}
        /\ \A x \in DOMAIN g : /\ f[x].next = IF x = b THEN t ELSE g[x].next
                               /\ f[x].used = g[x].used
        /\ f[t].next = g[b].next /\ f[t].used = FALSE
    <3>1. DOMAIN f = DOMAIN g \cup {t}
      BY <2>2 DEF SplitShape
    <3> QED BY <2>2, <2>3, <3>1 DEF SplitShape, BlocksOf
  <2>5. \A x \in BlocksOf(g) : x \in DOMAIN g /\ x # t
    BY <2>3 DEF BlocksOf
  <2>6. SameUsed(c, s)
    <3>1. \A x \in BlocksOf(g) : g[x].used => x # b
      OBVIOUS
    <3> QED BY <2>4, <2>5, <3>1 DEF SameUsed, f
  <2>7. Bytes(f) = Bytes(g)
    BY <1>0, <2>3, <2>6, BytesSame DEF SameUsed, f
  <2>8. Lowest(c)
    <3>1. s.lfree <= b /\ b < t
      BY <1>0, <2>1 DEF Lowest
    <3>2. c.lfree \in DOMAIN f /\ (c.lfree = End \/ ~f[c.lfree].used)
      BY <1>0, <2>2, <2>4 DEF Lowest
    <3>3. \A x \in BlocksOf(f) : ~f[x].used => c.lfree <= x
      BY <1>0, <2>1, <2>2, <2>4, <2>5, <3>1 DEF Lowest
    <3> QED BY <3>2, <3>3 DEF Lowest, f
  <2>9. HolesOnlyAt(f, b)
    <3> SUFFICES ASSUME NEW x \in BlocksOf(f), ~f[x].used, x # b
                 PROVE  f[f[x].next].used
      BY DEF HolesOnlyAt
    <3>1. CASE x = t
      BY <1>0, <2>4, <3>1 DEF NoHoles
    <3>2. CASE x # t
      <4>1. x \in BlocksOf(g) /\ f[x].next = g[x].next /\ ~g[x].used
        BY <2>4, <2>5, <3>2
      <4>2. g[x].next \in DOMAIN g /\ g[g[x].next].used
        BY <1>0, <4>1 DEF NoHoles, Chain
      <4> QED BY <2>4, <4>1, <4>2
    <3> QED BY <3>1, <3>2
  <2>10. Sound(c)
    BY <1>0, <2>2, <2>3, <2>7, <2>8 DEF Sound, f
  <2>11. b \in BlocksOf(f) /\ ~f[b].used /\ f[b].next = t
    BY <1>0, <2>4
  <2> QED BY <2>1, <2>6, <2>9, <2>10, <2>11 DEF AlmostOK, f, t
<1> QED BY <1>1, <1>2

\* "update lowest heap": lfree moves on when the block it was on is taken.
LEMMA AdvanceFacts ==
  ASSUME NEW q, NEW b \in BlocksOf(q.blk),
         q = [blk |-> q.blk, lfree |-> q.lfree, used |-> q.used],
         Chain(q.blk), NoHoles(q.blk), q.used = Cardinality(Bytes(q.blk)),
         q.lfree \in DOMAIN q.blk,
         q.lfree = End \/ q.lfree = b \/ ~q.blk[q.lfree].used,
         \A x \in BlocksOf(q.blk) : ~q.blk[x].used => q.lfree <= x,
         NEW r, r = AdvanceLfree(q, b)
  PROVE  HeapOK(r) /\ r.blk = q.blk
<1>1. CASE b # q.lfree
  <2>1. r = q
    BY <1>1 DEF AdvanceLfree
  <2> QED BY <1>1, <2>1 DEF HeapOK, Sound, Lowest
<1>2. CASE b = q.lfree
  <2> DEFINE g == q.blk
             M == {x \in DOMAIN g : x >= b /\ (x = End \/ ~g[x].used)}
             m == Min(M)
  <2>1. \A x \in DOMAIN g : x \in Nat /\ x <= End
    BY SizeFacts DEF Chain
  <2>2. M \subseteq Nat /\ End \in M
    BY <2>1 DEF Chain, BlocksOf
  <2>3. m \in M /\ \A x \in M : m <= x
    <3> HIDE DEF M
    <3> QED BY <2>2, MinOfNat
  <2>4. r.blk = g /\ r.lfree = m /\ r.used = q.used
    BY <1>2 DEF AdvanceLfree
  <2>5. r = [blk |-> r.blk, lfree |-> r.lfree, used |-> r.used]
    <3>1. q \in [blk : {g}, lfree : {q.lfree}, used : {q.used}]
      OBVIOUS
    <3> HIDE DEF m
    <3>2. r = [q EXCEPT !.lfree = m]
      BY <1>2 DEF AdvanceLfree, m
    <3>3. r \in [blk : {g}, lfree : {m}, used : {q.used}]
      BY <3>1, <3>2
    <3> QED BY <3>3, <2>4
  <2> HIDE DEF m
  <2>6. \A x \in BlocksOf(g) : ~g[x].used => x \in M
    BY <1>2, <2>1 DEF BlocksOf
  <2>7. m \in DOMAIN g /\ (m = End \/ ~g[m].used)
    BY <2>3
  <2> HIDE DEF M
  <2>8. Lowest(r)
    BY <2>3, <2>4, <2>6, <2>7 DEF Lowest
  <2> QED BY <2>4, <2>5, <2>8 DEF HeapOK, Sound
<1> QED BY <1>1, <1>2

\* A hole with room for n bytes becomes a used block with room for them.
LEMMA TakeFacts ==
  ASSUME NEW s, HeapOK(s), NEW b \in BlocksOf(s.blk), ~s.blk[b].used,
         NEW n \in Nat, n > 0, DataSize(s, b) >= n, NEW r, r = Take(s, b, n)
  PROVE  /\ HeapOK(r) /\ b \in BlocksOf(r.blk) /\ r.blk[b].used
         /\ r.blk[b].next >= b + HeaderSize + n
         /\ \A x : x # b =>
              /\ x \in BlocksOf(r.blk) /\ r.blk[x].used <=> x \in BlocksOf(s.blk) /\ s.blk[x].used
              /\ x \in BlocksOf(s.blk) /\ s.blk[x].used => r.blk[x].next = s.blk[x].next
<1> DEFINE c == IF DataSize(s, b) >= n + HeaderSize + Align(MinSize)
                THEN SplitAt(s, b, b + HeaderSize + n) ELSE s
           g == c.blk
           q == [c EXCEPT !.used = @ + (c.blk[b].next - b), !.blk[b].used = TRUE]
           f == q.blk
<1>0. r = AdvanceLfree(q, b)
  BY DEF Take
<1>1. /\ AlmostOK(c, b) /\ SameUsed(c, s)
      /\ g[b].next >= b + HeaderSize + n
  <2>1. Align(MinSize) \in Nat /\ Align(MinSize) > 0
    BY SizeFacts, AlignFacts
  <2>2. HeaderSize \in Nat /\ DataSize(s, b) \in Int
    BY BlockFacts DEF HeapOK
  <2>3. c = s \/ (DataSize(s, b) > n + HeaderSize /\ c = SplitAt(s, b, b + HeaderSize + n))
    BY <2>1, <2>2
  <2> HIDE DEF c
  <2> QED BY <2>3, CutHole
<1> HIDE DEF c
<1>2. /\ Sound(c) /\ Chain(g) /\ Lowest(c) /\ b \in BlocksOf(g) /\ ~g[b].used
      /\ HolesOnlyAt(g, b) /\ c.used = Cardinality(Bytes(g))
      /\ c = [blk |-> c.blk, lfree |-> c.lfree, used |-> c.used]
  BY <1>1 DEF AlmostOK, Sound
<1>3. /\ g \in [DOMAIN g -> Header] /\ b \in DOMAIN g /\ b \in Int /\ g[b].next \in Int
      /\ c.lfree \in Int /\ c.used \in Int /\ HeaderSize \in Nat
  BY <1>2, BlockFacts
<1>4. /\ f = [g EXCEPT ![b].used = TRUE]
      /\ q.lfree = c.lfree
      /\ q.used = c.used + (g[b].next - b)
      /\ q = [blk |-> q.blk, lfree |-> q.lfree, used |-> q.used]
  <2>1. f = [g EXCEPT ![b].used = TRUE]
    BY <1>2
  <2>2. q.lfree = c.lfree
    BY <1>2
  <2>3. q.used = c.used + (g[b].next - b)
    BY <1>2
  <2>4. q = [blk |-> q.blk, lfree |-> q.lfree, used |-> q.used]
    <3>1. c \in [blk : {g}, lfree : {c.lfree}, used : {c.used}]
      BY <1>2
    <3>2. q \in [blk : {f}, lfree : {q.lfree}, used : {q.used}]
      BY <3>1
    <3> HIDE DEF q, f
    <3> QED BY <3>2 DEF f
  <2> QED BY <2>1, <2>2, <2>3, <2>4
<1> HIDE DEF q, f
<1>5. MarkShape(f, g, b, TRUE)
  BY <1>3, <1>4 DEF MarkShape, Header
<1>6. Chain(f) /\ BlocksOf(f) = BlocksOf(g) /\ DOMAIN f = DOMAIN g
  BY <1>2, <1>5, MarkChain DEF MarkShape
<1>7. \A x \in DOMAIN g : /\ f[x].next = g[x].next
                          /\ f[x].used = IF x = b THEN TRUE ELSE g[x].used
  BY <1>5 DEF MarkShape
<1>8. \A x \in BlocksOf(g) : x \in DOMAIN g
  BY DEF BlocksOf
<1>9. Cardinality(Bytes(f)) = Cardinality(Bytes(g)) + (f[b].next - b)
  <2>1. /\ b \in BlocksOf(f) /\ f[b].used
        /\ \A x : x # b => (x \in BlocksOf(f) /\ f[x].used <=> x \in BlocksOf(g) /\ g[x].used)
        /\ \A x \in BlocksOf(g) : x # b /\ g[x].used => f[x].next = g[x].next
        /\ b \in BlocksOf(g) => ~g[b].used
    BY <1>2, <1>3, <1>6, <1>7, <1>8
  <2> QED BY <1>2, <1>6, <2>1, BytesMore
<1>10. q.used = Cardinality(Bytes(f))
  BY <1>2, <1>3, <1>4, <1>7, <1>9
<1>11. NoHoles(f)
  <2> SUFFICES ASSUME NEW x \in BlocksOf(f), ~f[x].used, ~f[f[x].next].used PROVE FALSE
    BY DEF NoHoles
  <2>1. x \in BlocksOf(g) /\ x # b /\ f[x].next = g[x].next /\ ~g[x].used
    BY <1>6, <1>7, <1>8
  <2>2. g[x].next \in DOMAIN g
    BY <1>2, <2>1 DEF Chain
  <2>3. g[x].next # b /\ ~g[g[x].next].used
    BY <1>7, <2>1, <2>2
  <2> QED BY <1>2, <2>1, <2>3 DEF HolesOnlyAt
<1>12. /\ q.lfree \in DOMAIN f
       /\ q.lfree = End \/ q.lfree = b \/ ~f[q.lfree].used
       /\ \A x \in BlocksOf(f) : ~f[x].used => q.lfree <= x
  BY <1>2, <1>4, <1>6, <1>7, <1>8 DEF Lowest
<1>13. HeapOK(r) /\ r.blk = f
  <2>1. /\ b \in BlocksOf(q.blk)
        /\ q = [blk |-> q.blk, lfree |-> q.lfree, used |-> q.used]
        /\ Chain(q.blk) /\ NoHoles(q.blk) /\ q.used = Cardinality(Bytes(q.blk))
        /\ q.lfree \in DOMAIN q.blk
        /\ q.lfree = End \/ q.lfree = b \/ ~q.blk[q.lfree].used
        /\ \A x \in BlocksOf(q.blk) : ~q.blk[x].used => q.lfree <= x
    BY <1>2, <1>4, <1>6, <1>10, <1>11, <1>12 DEF f
  <2> QED BY <1>0, <2>1, AdvanceFacts DEF f
<1>14. /\ b \in BlocksOf(f) /\ f[b].used /\ f[b].next = g[b].next
       /\ \A x : x # b => /\ x \in BlocksOf(f) /\ f[x].used
                               <=> x \in BlocksOf(s.blk) /\ s.blk[x].used
                          /\ x \in BlocksOf(s.blk) /\ s.blk[x].used => f[x].next = s.blk[x].next
  BY <1>1, <1>2, <1>3, <1>6, <1>7, <1>8 DEF SameUsed
<1> QED BY <1>1, <1>13, <1>14

\* The end of a used block is given back.
LEMMA ShrinkFacts ==
  ASSUME NEW s, HeapOK(s), NEW b \in BlocksOf(s.blk), s.blk[b].used,
         NEW n \in Nat, n > 0, DataSize(s, b) > n + HeaderSize,
         NEW r, r = Shrink(s, b, n)
  PROVE  /\ HeapOK(r)
         /\ b \in BlocksOf(r.blk) /\ r.blk[b].used /\ r.blk[b].next = b + HeaderSize + n
         /\ \A x : x # b =>
              /\ x \in BlocksOf(r.blk) /\ r.blk[x].used <=> x \in BlocksOf(s.blk) /\ s.blk[x].used
              /\ x \in BlocksOf(s.blk) /\ s.blk[x].used => r.blk[x].next = s.blk[x].next
<1> DEFINE g == s.blk
           t == b + HeaderSize + n
           c == SplitAt(s, b, t)
           f == c.blk
           q == [c EXCEPT !.used = @ - (DataSize(s, b) - n),
                          !.lfree = IF t < @ THEN t ELSE @]
<1>0. /\ Sound(s) /\ Chain(g) /\ NoHoles(g) /\ b \in DOMAIN g /\ b \in Int /\ b # End
      /\ g[b].next \in DOMAIN g /\ g[b].next \in Int /\ HeaderSize \in Nat /\ HeaderSize > 0
      /\ DataSize(s, b) = g[b].next - (b + HeaderSize)
      /\ Lowest(s) /\ s.lfree \in Int /\ s.lfree \in DOMAIN g /\ s.used \in Int
      /\ s.used = Cardinality(Bytes(g))
  BY BlockFacts, SizeFacts DEF HeapOK, Sound
<1>1. t \in Int /\ b + HeaderSize < t /\ t + HeaderSize < g[b].next
  BY <1>0
<1>2. r = PlugHoles(q, t)
  BY DEF Shrink
<1> HIDE DEF t
<1>3. /\ SplitShape(f, g, b, t) /\ c.lfree = s.lfree /\ c.used = s.used
      /\ c = [blk |-> c.blk, lfree |-> c.lfree, used |-> c.used]
  BY <1>0, <1>1, SplitFacts
<1> HIDE DEF c
<1>4. /\ q.blk = f /\ q.lfree = (IF t < s.lfree THEN t ELSE s.lfree)
      /\ q.used = s.used - (g[b].next - t)
      /\ q = [blk |-> q.blk, lfree |-> q.lfree, used |-> q.used]
  <2>1. q.blk = f
    BY <1>3
  <2>2. q.lfree = IF t < s.lfree THEN t ELSE s.lfree
    BY <1>3
  <2>3. q.used = s.used - (g[b].next - t)
    <3>1. q.used = s.used - (DataSize(s, b) - n)
      BY <1>3
    <3> QED BY <1>0, <3>1 DEF t
  <2>4. q = [blk |-> q.blk, lfree |-> q.lfree, used |-> q.used]
    <3>1. c \in [blk : {f}, lfree : {c.lfree}, used : {c.used}]
      BY <1>3
    <3>2. q \in [blk : {f}, lfree : {q.lfree}, used : {q.used}]
      BY <3>1
    <3> HIDE DEF q, f
    <3> QED BY <3>2, <2>1
  <2> QED BY <2>1, <2>2, <2>3, <2>4
<1> HIDE DEF q, f
<1>5. Chain(f) /\ t \notin DOMAIN g /\ t \in BlocksOf(f)
  BY <1>0, <1>1, <1>3, SplitChain
<1>6. /\ DOMAIN f = DOMAIN g \cup {t} /\ BlocksOf(f) = BlocksOf(g) \cup {t}
      /\ \A x \in DOMAIN g : /\ f[x].next = IF x = b THEN t ELSE g[x].next
                             /\ f[x].used = g[x].used
      /\ f[t].next = g[b].next /\ f[t].used = FALSE
  <2>1. DOMAIN f = DOMAIN g \cup {t}
    BY <1>3 DEF SplitShape
  <2> QED BY <1>3, <1>5, <2>1 DEF SplitShape, BlocksOf
<1>7. \A x \in BlocksOf(g) : x \in DOMAIN g /\ x # t /\ x \in Int
  BY <1>0, <1>5, SizeFacts DEF BlocksOf, Chain
<1>8. q.used = Cardinality(Bytes(f))
  <2>1. Cardinality(Bytes(g)) = Cardinality(Bytes(f)) + (g[b].next - t)
    BY <1>0, <1>1, <1>3, BytesCut
  <2>2. Cardinality(Bytes(f)) \in Int
    BY <1>5, BytesFacts
  <2> QED BY <1>0, <1>1, <1>4, <2>1, <2>2
<1>9. Lowest(q)
  <2>1. q.lfree \in DOMAIN f /\ (q.lfree = End \/ ~f[q.lfree].used)
    BY <1>0, <1>4, <1>6 DEF Lowest
  <2>2. \A x \in BlocksOf(f) : ~f[x].used => q.lfree <= x
    BY <1>0, <1>1, <1>4, <1>6, <1>7 DEF Lowest
  <2> QED BY <1>4, <2>1, <2>2 DEF Lowest
<1>10. HolesOnlyAt(f, t)
  <2> SUFFICES ASSUME NEW x \in BlocksOf(f), ~f[x].used, x # t, f[x].next # t
               PROVE  f[f[x].next].used
    BY DEF HolesOnlyAt
  <2>1. x \in BlocksOf(g) /\ f[x].next = g[x].next /\ ~g[x].used
    BY <1>6, <1>7
  <2>2. g[x].next \in DOMAIN g /\ g[g[x].next].used
    BY <1>0, <2>1 DEF NoHoles, Chain
  <2> QED BY <1>6, <2>1, <2>2
<1>11. AlmostOK(q, t)
  <2>1. Sound(q)
    BY <1>4, <1>5, <1>8, <1>9 DEF Sound
  <2> QED BY <1>4, <1>5, <1>6, <1>10, <2>1 DEF AlmostOK
<1>12. HeapOK(r) /\ SameUsed(r, q)
  BY <1>2, <1>11, PlugFacts
<1>13. b \in BlocksOf(f) /\ f[b].used /\ f[b].next = t
  BY <1>0, <1>6
<1>14. \A x : x # b => /\ x \in BlocksOf(f) /\ f[x].used <=> x \in BlocksOf(g) /\ g[x].used
                       /\ x \in BlocksOf(g) /\ g[x].used => f[x].next = g[x].next
  BY <1>6, <1>7
<1> QED BY <1>4, <1>12, <1>13, <1>14 DEF SameUsed, t

-----------------------------------------------------------------------------
(* Every call keeps the invariant *)

\* What the invariant says of a block a user holds.
LEMMA HeldFacts ==
  ASSUME IInv
  PROVE  /\ HeapOK(h) /\ Sound(h) /\ Chain(h.blk)
         /\ Blocks = BlocksOf(h.blk)
         /\ \A x : x \in DOMAIN held <=> x \in BlocksOf(h.blk) /\ h.blk[x].used
         /\ \A x \in DOMAIN held : /\ held[x] \in Sizes /\ held[x] \in Int
                                   /\ h.blk[x].next - (x + HeaderSize) >= held[x]
BY SizeFacts DEF IInv, HeapOK, Sound, HeldHasRoom, DataSize, Blocks, BlocksOf

\* The invariant of the heap and of what is held after a call.
LEMMA IInvHolds ==
  ASSUME HeapOK(h'), held' \in [DOMAIN held' -> Sizes],
         \A x : x \in DOMAIN held' <=> x \in BlocksOf(h'.blk) /\ h'.blk[x].used,
         \A x \in DOMAIN held' : h'.blk[x].next - (x + HeaderSize) >= held'[x]
  PROVE  IInv'
<1>1. DOMAIN held' = {b \in Blocks' : h'.blk[b].used}
  BY DEF Blocks, BlocksOf
<1>2. HeldHasRoom'
  BY <1>1 DEF HeldHasRoom, DataSize
<1> QED BY <1>2 DEF IInv

\* The lowest hole that fits is a block.
LEMMA FitsFacts ==
  ASSUME NEW s, Sound(s), NEW n \in Nat, n > 0, Fits(s, n) # {}
  PROVE  LET b == Min(Fits(s, n)) IN
         b \in BlocksOf(s.blk) /\ ~s.blk[b].used /\ DataSize(s, b) >= n
<1> DEFINE F == Fits(s, n)
           b == Min(F)
<1>1. F \subseteq Nat /\ F # {}
  BY SizeFacts DEF Fits, Sound, Chain
<1>2. b \in F
  <2> HIDE DEF F
  <2> QED BY <1>1, MinOfNat
<1> HIDE DEF b
<1>3. b \in DOMAIN s.blk /\ b <= HeapSize - n /\ ~s.blk[b].used /\ DataSize(s, b) >= n /\ b \in Nat
  BY <1>1, <1>2 DEF Fits
<1>4. b # End
  BY <1>3, SizeFacts
<1> QED BY <1>3, <1>4 DEF BlocksOf, b

\* rt_malloc.
LEMMA MallocStep ==
  ASSUME IInv, NEW n \in Sizes, Malloc(n)
  PROVE  IInv'
<1> DEFINE size == AtLeastMin(Align(n))
           fits == Fits(h, size)
           b == Min(fits)
<1>0. /\ n \in Nat /\ size \in Nat /\ size > 0 /\ size >= n /\ HeaderSize \in Nat
  BY SizeFacts, AlignFacts, AtLeastMinFacts
<1>1. CASE size > HeapSize \/ fits = {}
  BY <1>1 DEF Malloc, memvars, IInv, HeldHasRoom, Blocks, DataSize
<1>2. CASE ~(size > HeapSize) /\ fits # {}
  <2>1. /\ h' = Take(h, b, size)
        /\ held' = [x \in DOMAIN held \cup {b} |-> IF x = b THEN n ELSE held[x]]
    BY <1>2 DEF Malloc
  <2>2. b \in BlocksOf(h.blk) /\ ~h.blk[b].used /\ DataSize(h, b) >= size
    <3> HIDE DEF size
    <3> QED BY <1>0, <1>2, HeldFacts, FitsFacts
  <2> HIDE DEF size, b
  <2>3. /\ HeapOK(h') /\ b \in BlocksOf(h'.blk) /\ h'.blk[b].used
        /\ h'.blk[b].next >= b + HeaderSize + size
        /\ \A x : x # b =>
             /\ x \in BlocksOf(h'.blk) /\ h'.blk[x].used <=> x \in BlocksOf(h.blk) /\ h.blk[x].used
             /\ x \in BlocksOf(h.blk) /\ h.blk[x].used => h'.blk[x].next = h.blk[x].next
    BY <1>0, <2>1, <2>2, HeldFacts, TakeFacts
  <2>4. b \in Int /\ h'.blk[b].next \in Int
    BY <2>3, BlockFacts DEF HeapOK
  <2>5. held' \in [DOMAIN held' -> Sizes]
    BY <2>1, HeldFacts
  <2>6. \A x : x \in DOMAIN held' <=> x \in BlocksOf(h'.blk) /\ h'.blk[x].used
    BY <2>1, <2>3, HeldFacts
  <2>7. \A x \in DOMAIN held' : h'.blk[x].next - (x + HeaderSize) >= held'[x]
    BY <1>0, <2>1, <2>3, <2>4, HeldFacts
  <2> QED BY <2>3, <2>5, <2>6, <2>7, IInvHolds
<1> QED BY <1>1, <1>2

\* rt_free.
LEMMA FreeStep ==
  ASSUME IInv, NEW b \in DOMAIN held, Free(b)
  PROVE  IInv'
<1>1. /\ h' = Release(h, b)
      /\ held' = [x \in DOMAIN held \ {b} |-> held[x]]
  BY DEF Free
<1>2. b \in BlocksOf(h.blk) /\ h.blk[b].used
  BY HeldFacts
<1>3. /\ HeapOK(h')
      /\ \A x : /\ x \in BlocksOf(h'.blk) /\ h'.blk[x].used
                     <=> x \in BlocksOf(h.blk) /\ h.blk[x].used /\ x # b
                /\ x \in BlocksOf(h.blk) /\ h.blk[x].used /\ x # b
                     => h'.blk[x].next = h.blk[x].next
  BY <1>1, <1>2, HeldFacts, ReleaseFacts
<1>4. held' \in [DOMAIN held' -> Sizes]
  BY <1>1, HeldFacts
<1>5. \A x : x \in DOMAIN held' <=> x \in BlocksOf(h'.blk) /\ h'.blk[x].used
  BY <1>1, <1>3, HeldFacts
<1>6. \A x \in DOMAIN held' : h'.blk[x].next - (x + HeaderSize) >= held'[x]
  BY <1>1, <1>3, HeldFacts
<1> QED BY <1>3, <1>4, <1>5, <1>6, IInvHolds

\* rt_realloc, where the block moves.
LEMMA MoveStep ==
  ASSUME IInv, NEW b \in DOMAIN held, NEW n \in Sizes, Move(b, n)
  PROVE  IInv'
<1> DEFINE size == AtLeastMin(Align(n))
           fits == Fits(h, size)
           to == Min(fits)
           q == Take(h, to, size)
<1>0. /\ n \in Nat /\ size \in Nat /\ size > 0 /\ size >= n /\ HeaderSize \in Nat
  BY SizeFacts, AlignFacts, AtLeastMinFacts
<1>1. CASE size > HeapSize \/ fits = {}
  BY <1>1 DEF Move, memvars, IInv, HeldHasRoom, Blocks, DataSize
<1>2. CASE ~(size > HeapSize) /\ fits # {}
  <2>1. /\ h' = Release(q, b)
        /\ held' = [x \in (DOMAIN held \ {b}) \cup {to} |-> IF x = to THEN n ELSE held[x]]
    BY <1>2 DEF Move
  <2>2. to \in BlocksOf(h.blk) /\ ~h.blk[to].used /\ DataSize(h, to) >= size
    <3> HIDE DEF size
    <3> QED BY <1>0, <1>2, HeldFacts, FitsFacts
  <2> HIDE DEF size, to
  <2>3. /\ HeapOK(q) /\ to \in BlocksOf(q.blk) /\ q.blk[to].used
        /\ q.blk[to].next >= to + HeaderSize + size
        /\ \A x : x # to =>
             /\ x \in BlocksOf(q.blk) /\ q.blk[x].used <=> x \in BlocksOf(h.blk) /\ h.blk[x].used
             /\ x \in BlocksOf(h.blk) /\ h.blk[x].used => q.blk[x].next = h.blk[x].next
    BY <1>0, <2>2, HeldFacts, TakeFacts
  <2> HIDE DEF q
  <2>4. to \in Int /\ q.blk[to].next \in Int
    BY <2>3, BlockFacts DEF HeapOK
  <2>5. b # to /\ b \in BlocksOf(q.blk) /\ q.blk[b].used
    BY <2>2, <2>3, HeldFacts
  <2>6. /\ HeapOK(h')
        /\ \A x : /\ x \in BlocksOf(h'.blk) /\ h'.blk[x].used
                       <=> x \in BlocksOf(q.blk) /\ q.blk[x].used /\ x # b
                  /\ x \in BlocksOf(q.blk) /\ q.blk[x].used /\ x # b
                       => h'.blk[x].next = q.blk[x].next
    BY <2>1, <2>3, <2>5, ReleaseFacts
  <2>7. held' \in [DOMAIN held' -> Sizes]
    BY <2>1, HeldFacts
  <2>8. \A x : x \in DOMAIN held' <=> x \in BlocksOf(h'.blk) /\ h'.blk[x].used
    BY <2>1, <2>3, <2>5, <2>6, HeldFacts
  <2>9. \A x \in DOMAIN held' : h'.blk[x].next - (x + HeaderSize) >= held'[x]
    BY <1>0, <2>1, <2>3, <2>4, <2>5, <2>6, HeldFacts
  <2> QED BY <2>6, <2>7, <2>8, <2>9, IInvHolds
<1> QED BY <1>1, <1>2

\* rt_realloc.
LEMMA ReallocStep ==
  ASSUME IInv, NEW b \in DOMAIN held, NEW n \in Sizes, Realloc(b, n)
  PROVE  IInv'
<1> DEFINE size == Align(n)
           old == DataSize(h, b)
<1>0. /\ n \in Nat /\ size \in Nat /\ size > 0 /\ size >= n /\ HeaderSize \in Nat
      /\ MinSize \in Nat /\ old \in Int /\ old = h.blk[b].next - (b + HeaderSize) /\ b \in Int
      /\ b \in BlocksOf(h.blk) /\ h.blk[b].used
  <2>1. b \in BlocksOf(h.blk) /\ h.blk[b].used /\ Sound(h)
    BY HeldFacts
  <2> QED BY <2>1, SizeFacts, AlignFacts, BlockFacts
<1> HIDE DEF size, old
<1>1. CASE UNCHANGED memvars
  BY <1>1 DEF memvars, IInv, HeldHasRoom, Blocks, DataSize
<1>2. CASE size = old /\ held' = [held EXCEPT ![b] = n] /\ h' = h
  <2>1. HeapOK(h') /\ held' \in [DOMAIN held' -> Sizes]
    BY <1>2, HeldFacts
  <2>2. \A x : x \in DOMAIN held' <=> x \in BlocksOf(h'.blk) /\ h'.blk[x].used
    BY <1>2, HeldFacts
  <2>3. \A x \in DOMAIN held' : h'.blk[x].next - (x + HeaderSize) >= held'[x]
    BY <1>0, <1>2, HeldFacts
  <2> QED BY <2>1, <2>2, <2>3, IInvHolds
<1>3. CASE size + HeaderSize + MinSize < old /\ h' = Shrink(h, b, size) /\ held' = [held EXCEPT ![b] = n]
  <2>1. DataSize(h, b) > size + HeaderSize
    BY <1>0, <1>3 DEF old
  <2>2. /\ HeapOK(h')
        /\ b \in BlocksOf(h'.blk) /\ h'.blk[b].used /\ h'.blk[b].next = b + HeaderSize + size
        /\ \A x : x # b =>
             /\ x \in BlocksOf(h'.blk) /\ h'.blk[x].used <=> x \in BlocksOf(h.blk) /\ h.blk[x].used
             /\ x \in BlocksOf(h.blk) /\ h.blk[x].used => h'.blk[x].next = h.blk[x].next
    BY <1>0, <1>3, <2>1, HeldFacts, ShrinkFacts
  <2>3. held' \in [DOMAIN held' -> Sizes] /\ DOMAIN held' = DOMAIN held
    BY <1>3, HeldFacts
  <2>4. \A x : x \in DOMAIN held' <=> x \in BlocksOf(h'.blk) /\ h'.blk[x].used
    BY <1>0, <2>2, <2>3, HeldFacts
  <2>5. \A x \in DOMAIN held' : h'.blk[x].next - (x + HeaderSize) >= held'[x]
    <3> SUFFICES ASSUME NEW x \in DOMAIN held'
                 PROVE  h'.blk[x].next - (x + HeaderSize) >= held'[x]
      OBVIOUS
    <3>1. CASE x = b
      BY <1>0, <1>3, <2>2, <2>3, <3>1
    <3>2. CASE x # b
      BY <1>3, <2>2, <2>3, <3>2, HeldFacts
    <3> QED BY <3>1, <3>2
  <2> QED BY <2>2, <2>3, <2>4, <2>5, IInvHolds
<1>4. CASE Move(b, n)
  BY <1>4, MoveStep
<1> QED BY <1>1, <1>2, <1>3, <1>4 DEF Realloc, size, old

-----------------------------------------------------------------------------
(* The theorems *)

\* rt_smem_init: one hole in front of the end.
LEMMA InitIInv ==
  ASSUME Init
  PROVE  IInv
<1> DEFINE g == [b \in {0, End} |-> [next |-> End, prev |-> b, used |-> (b = End)]]
<1>0. /\ End \in Nat /\ HeaderSize \in Nat /\ HeaderSize < End /\ 0 # End
      /\ HeaderSize > 0
  BY SizeFacts
<1>1. h = [blk |-> g, lfree |-> 0, used |-> 0] /\ held = [b \in {} |-> 0]
  BY DEF Init
<1>2. /\ DOMAIN g = {0, End} /\ BlocksOf(g) = {0} /\ g \in [DOMAIN g -> Header]
      /\ g[0].next = End /\ g[0].prev = 0 /\ g[0].used = FALSE /\ g[End].used = TRUE
  <2>1. DOMAIN g = {0, End} /\ BlocksOf(g) = {0}
    BY <1>0 DEF BlocksOf
  <2>2. \A x \in {0, End} : [next |-> End, prev |-> x, used |-> (x = End)] \in Header
    BY <1>0 DEF Header
  <2> QED BY <1>0, <2>1, <2>2
<1> HIDE DEF g
<1>3. Chain(g)
  BY <1>0, <1>2 DEF Chain
<1>4. Bytes(g) = {}
  BY <1>2 DEF Bytes
<1>5. Cardinality(Bytes(g)) = 0
  BY <1>4, FS_EmptySet
<1>6. NoHoles(g)
  BY <1>2 DEF NoHoles
<1>7. h.blk = g /\ h.lfree = 0 /\ h.used = 0
      /\ h = [blk |-> h.blk, lfree |-> h.lfree, used |-> h.used]
  BY <1>1
<1>8. Lowest(h)
  BY <1>2, <1>7 DEF Lowest
<1>9. HeapOK(h)
  BY <1>3, <1>5, <1>6, <1>7, <1>8 DEF HeapOK, Sound
<1>10. DOMAIN held = {} /\ held \in [DOMAIN held -> Sizes]
  BY <1>1
<1>11. {b \in Blocks : h.blk[b].used} = {}
  BY <1>2, <1>7 DEF Blocks, BlocksOf
<1>12. HeldHasRoom
  BY <1>10, <1>11 DEF HeldHasRoom
<1> QED BY <1>9, <1>10, <1>12 DEF IInv

\* The inductive invariant: one chain of blocks in both directions, no two
\* holes in a row, the search starts at the first hole, the bytes in use are
\* those of the used blocks, and these are the blocks users hold.
THEOREM Invariance == Spec => []IInv
<1>1. IInv /\ [Next]_memvars => IInv'
  <2> SUFFICES ASSUME IInv, [Next]_memvars PROVE IInv'
    OBVIOUS
  <2>1. ASSUME NEW n \in Sizes, Malloc(n) PROVE IInv'
    BY <2>1, MallocStep
  <2>2. ASSUME NEW b \in DOMAIN held, Free(b) PROVE IInv'
    BY <2>2, FreeStep
  <2>3. ASSUME NEW b \in DOMAIN held, NEW n \in Sizes, Realloc(b, n) PROVE IInv'
    BY <2>3, ReallocStep
  <2>4. CASE UNCHANGED memvars
    BY <2>4 DEF memvars, IInv, HeldHasRoom, Blocks, DataSize
  <2> QED BY <2>1, <2>2, <2>3, <2>4 DEF Next
<1> QED BY InitIInv, <1>1, PTL DEF Spec

\* Offsets and sizes stay inside the heap: no header is read or written
\* outside, and the number of used bytes neither exceeds it nor drops below 0.
THEOREM TypeCorrect == Spec => []TypeOK
<1>1. ASSUME IInv PROVE TypeOK
  <2>1. /\ h = [blk |-> h.blk, lfree |-> h.lfree, used |-> h.used]
        /\ Chain(h.blk) /\ h.lfree \in DOMAIN h.blk
    BY <1>1 DEF IInv, HeapOK, Sound, Lowest
  <2>2. h.used \in 0 .. End
    BY <1>1, <2>1, BytesFacts DEF IInv, HeapOK, Sound
  <2>3. /\ 0 \in DOMAIN h.blk /\ End \in DOMAIN h.blk /\ DOMAIN h.blk \subseteq 0 .. End
        /\ h.blk \in [DOMAIN h.blk -> Header]
    BY <2>1 DEF Chain
  <2>4. h \in [blk : [DOMAIN h.blk -> Header], lfree : DOMAIN h.blk, used : 0 .. End]
    BY <2>1, <2>2, <2>3
  <2>5. held \in [DOMAIN held -> Sizes]
    BY <1>1 DEF IInv
  <2> QED BY <2>3, <2>4, <2>5 DEF TypeOK, Header
<1> QED BY <1>1, Invariance, PTL

\* The blocks tile the heap, whatever is allocated, resized and freed: each
\* leads to the next and back, and has room for its header and some data.
THEOREM Tiles == Spec => []ChainTiles
<1>1. ASSUME IInv PROVE ChainTiles
  <2>1. Chain(h.blk) /\ Blocks = BlocksOf(h.blk)
    BY <1>1, HeldFacts
  <2>2. ASSUME NEW b \in BlocksOf(h.blk)
        PROVE  /\ h.blk[b].next \in DOMAIN h.blk /\ b + HeaderSize < h.blk[b].next
               /\ \A x \in DOMAIN h.blk : x <= b \/ h.blk[b].next <= x
               /\ h.blk[b].next = End \/ h.blk[h.blk[b].next].prev = b
    BY <2>1, <2>2, NextPrev DEF Chain
  <2> QED BY <2>1, <2>2 DEF ChainTiles
<1> QED BY <1>1, Invariance, PTL

\* plug_holes leaves no two free blocks in a row.
THEOREM HolesArePlugged == Spec => []NoTwoHoles
<1>1. IInv => NoTwoHoles
  BY DEF IInv, HeapOK, NoHoles, NoTwoHoles, Blocks, BlocksOf
<1> QED BY <1>1, Invariance, PTL

\* lfree is the first free block, or the end if there is none.
THEOREM SearchStartsLowest == Spec => []LfreeIsLowest
<1>1. IInv => LfreeIsLowest
  BY DEF IInv, HeapOK, Sound, Lowest, LfreeIsLowest, Blocks, BlocksOf
<1> QED BY <1>1, Invariance, PTL

\* What is reported as used is what the used blocks and their headers cover.
THEOREM Accounted == Spec => []UsedIsAccounted
<1>1. IInv => UsedIsAccounted
  BY DEF IInv, HeapOK, Sound, UsedIsAccounted, Bytes, Blocks, BlocksOf
<1> QED BY <1>1, Invariance, PTL

\* The used blocks are those users hold, each with the room that was asked
\* for: no block is lost, given twice or too small.
THEOREM UsersHaveRoom == Spec => []HeldHasRoom
<1>1. IInv => HeldHasRoom
  BY DEF IInv
<1> QED BY <1>1, Invariance, PTL

\* The search from lfree on, bounded by the end of the heap, sees every free
\* block with enough room: rt_malloc fails only if there is none.
THEOREM SeesEveryFit == Spec => []FindsEveryFit
<1>1. ASSUME IInv PROVE FindsEveryFit
  <2> SUFFICES ASSUME NEW n \in Nat, n > 0
               PROVE  Fits(h, n) = {b \in Blocks : ~h.blk[b].used /\ DataSize(h, b) >= n}
    BY SizeFacts, AlignFacts, AtLeastMinFacts DEF FindsEveryFit
  <2>1. Sound(h) /\ Lowest(h) /\ Blocks = BlocksOf(h.blk)
    BY <1>1, HeldFacts DEF Sound
  <2>2. ASSUME NEW b \in DOMAIN h.blk
        PROVE  (h.lfree <= b /\ b <= HeapSize - n /\ ~h.blk[b].used /\ DataSize(h, b) >= n)
                 <=> (b \in Blocks /\ ~h.blk[b].used /\ DataSize(h, b) >= n)
    <3>1. CASE b = End
      BY <2>1, <3>1, SizeFacts DEF BlocksOf
    <3>2. CASE b # End
      <4>1. b \in BlocksOf(h.blk)
        BY <3>2 DEF BlocksOf
      <4>2. /\ b \in Int /\ h.blk[b].next \in Int /\ h.blk[b].next <= End
            /\ DataSize(h, b) = h.blk[b].next - (b + HeaderSize)
        BY <2>1, <4>1, BlockFacts
      <4>3. DataSize(h, b) >= n => b <= HeapSize - n
        BY <4>2, SizeFacts
      <4>4. ~h.blk[b].used => h.lfree <= b
        BY <2>1, <4>1 DEF Lowest
      <4> QED BY <2>1, <4>1, <4>3, <4>4
    <3> QED BY <3>1, <3>2
  <2> QED BY <2>2 DEF Fits, Blocks
<1> QED BY <1>1, Invariance, PTL

-----------------------------------------------------------------------------
(* The IR receiver                                                         *)

\* A frame has as many edges behind its first one.
Edges == 2 * Bits + 3

\* What a frame still has to come after n of those.
Rest(c, n) == [i \in 1 .. Edges - n |-> FrameOf(c)[i + n]]

\* The interval before edge n.
Before(c, n) == IF n = 0 THEN 40000 ELSE FrameOf(c)[n]

\* The number of bits whose spaces have ended with edge n.
BitsBy(n) == (n - 2) \div 2

\* The decoder has the first m bits of the frame.
HasBits(m) ==
  /\ cnt = m
  /\ \A i \in BitNo : raw[i] = IF i < m THEN code[i] ELSE 0

\* Where the decoder is when edge n of the frame has been served.
Served(n) ==
  /\ n = 0 => state = "LEADER_LOW"
  /\ n = 1 => state = "LEADER_HIGH"
  /\ n \in 2 .. 2 * Bits + 1 =>
       /\ state = (IF (n % 2) = 0 THEN "DATA_LOW" ELSE "DATA_HIGH")
       /\ HasBits(BitsBy(n))
  /\ n >= 2 * Bits + 2 => state = "IDLE" /\ last = code

\* Edge n is the last one that came: its latch alone is set until the handler
\* runs, which finds the decoder where the edge before left it.
Reached(n) ==
  /\ togo = Rest(code, n)
  /\ line <=> (n % 2) = 1
  /\ \/ /\ fall <=> (n % 2) = 0
        /\ rise <=> (n % 2) = 1
        /\ elapsed = Before(code, n)
        /\ n > 0 => Served(n - 1)
     \/ ~Pending /\ Served(n)

\* A frame is coming or has come undisturbed.
InStep == code # NoFrame => \E n \in 0 .. Edges : Reached(n)

\* No frame is under way if none is known.
NoneLeft == code = NoFrame => togo = <<>>

IrTyped ==
  /\ IrTypeOK
  /\ elapsed \in Nat

IrIInv == IrTyped /\ NoneLeft /\ InStep /\ TakesNewest

-----------------------------------------------------------------------------
(* Frames                                                                  *)

\* The constants as the proofs use them.
LEMMA BitsFacts ==
  /\ Bits \in Nat /\ Bits > 0 /\ Edges \in Nat
  /\ 0 \in BitNo /\ BitNo \subseteq Nat
  /\ Zero \in Code
BY IrAssumption DEF Edges, BitNo, Code, Zero

\* No frame is not a frame.
LEMMA NoFrameFacts ==
  ASSUME NEW c \in Code
  PROVE  c # NoFrame
<1>1. DOMAIN c = BitNo /\ 0 \in BitNo
  BY BitsFacts DEF Code
<1>2. DOMAIN NoFrame = {}
  BY DEF NoFrame
<1> QED BY <1>1, <1>2

\* The intervals of a frame.
LEMMA FrameFacts ==
  ASSUME NEW c \in Code
  PROVE  /\ FrameOf(c) \in [1 .. Edges -> Nat]
         /\ FrameOf(c)[1] = 9000 /\ FrameOf(c)[2] = 4500
         /\ \A n \in 3 .. Edges :
              FrameOf(c)[n] = IF n % 2 = 0 THEN Space(c[(n \div 2) - 2]) ELSE 560
<1>1. Bits \in Nat /\ Bits > 0
  BY BitsFacts
<1> DEFINE f == FrameOf(c)
<1>2. DOMAIN f = 1 .. Edges
  BY DEF FrameOf, Edges
<1>3. f[1] = 9000
  BY <1>1 DEF FrameOf
<1>4. f[2] = 4500
  BY <1>1 DEF FrameOf
<1>5. ASSUME NEW n \in 3 .. Edges
      PROVE  f[n] = IF n % 2 = 0 THEN Space(c[(n \div 2) - 2]) ELSE 560
  <2>1. n \in 1 .. 2 * Bits + 3 /\ n > 2 /\ n # 1 /\ n # 2
    BY <1>1, <1>5 DEF Edges
  <2>2. CASE (n % 2) = 0
    BY <2>1, <2>2 DEF FrameOf
  <2>3. CASE (n % 2) # 0
    BY <2>1, <2>3 DEF FrameOf
  <2> QED BY <2>2, <2>3
<1>6. ASSUME NEW n \in 1 .. Edges PROVE f[n] \in Nat
  <2>1. \A x : Space(x) \in Nat
    BY DEF Space
  <2>2. n \in 3 .. Edges \/ n = 1 \/ n = 2
    BY <1>1 DEF Edges
  <2> HIDE DEF f
  <2> QED BY <1>3, <1>4, <1>5, <2>1, <2>2
<1>7. f = [n \in 1 .. Edges |-> f[n]]
  BY DEF FrameOf, Edges
<1>8. f \in [1 .. Edges -> Nat]
  <2> HIDE DEF f
  <2> QED BY <1>6, <1>7
<1> QED BY <1>3, <1>4, <1>5, <1>8

\* What is still to come, edge by edge.
LEMMA RestFacts ==
  ASSUME NEW c \in Code, NEW n \in 0 .. Edges
  PROVE  /\ Rest(c, n) \in Seq(Nat) /\ Len(Rest(c, n)) = Edges - n
         /\ n # Edges => /\ Head(Rest(c, n)) = FrameOf(c)[n + 1]
                         /\ Tail(Rest(c, n)) = Rest(c, n + 1)
         /\ n = Edges <=> Rest(c, n) = <<>>
<1> DEFINE f == FrameOf(c)
           r == Rest(c, n)
<1>1. f \in [1 .. Edges -> Nat] /\ Edges \in Nat
  BY FrameFacts, BitsFacts
<1> HIDE DEF f
<1>2. r = [i \in 1 .. Edges - n |-> f[i + n]] /\ Edges - n \in Nat
  BY <1>1 DEF Rest, f
<1>3. r \in Seq(Nat) /\ Len(r) = Edges - n
  BY <1>1, <1>2
<1>4. n = Edges <=> r = <<>>
  <2> HIDE DEF r
  <2> QED BY <1>1, <1>3
<1>5. ASSUME n # Edges PROVE Head(r) = f[n + 1] /\ Tail(r) = Rest(c, n + 1)
  <2>1. r # <<>> /\ Len(r) > 0
    BY <1>1, <1>3, <1>5
  <2>2. Head(r) = f[n + 1]
    <3>1. Head(r) = r[1] /\ 1 \in 1 .. Edges - n
      BY <1>1, <1>3, <1>5, <2>1
    <3>2. r[1] = f[1 + n]
      BY <1>2, <3>1
    <3>3. 1 + n = n + 1
      BY <1>1
    <3> QED BY <3>1, <3>2, <3>3
  <2>3. /\ Tail(r) \in Seq(Nat) /\ Len(Tail(r)) = Len(r) - 1
        /\ \A i \in 1 .. Len(r) - 1 : Tail(r)[i] = r[i + 1]
    <3> HIDE DEF r
    <3> QED BY <1>3, <2>1
  <2>4. Len(r) - 1 = Edges - (n + 1)
    BY <1>1, <1>3
  <2>5. ASSUME NEW i \in 1 .. Edges - (n + 1) PROVE r[i + 1] = f[i + (n + 1)]
    <3>1. i + 1 \in 1 .. Edges - n /\ (i + 1) + n = i + (n + 1)
      BY <1>1
    <3> QED BY <1>2, <3>1
  <2>6. Rest(c, n + 1) = [i \in 1 .. Edges - (n + 1) |-> f[i + (n + 1)]]
    BY DEF Rest, f
  <2> DEFINE u == Tail(r)
  <2> HIDE DEF r
  <2>7. u = [i \in 1 .. Edges - (n + 1) |-> u[i]]
    <3>1. u \in Seq(Nat) /\ Len(u) = Edges - (n + 1)
      BY <2>3, <2>4
    <3> HIDE DEF u
    <3> QED BY <3>1
  <2>8. \A i \in 1 .. Edges - (n + 1) : u[i] = f[i + (n + 1)]
    BY <2>3, <2>4, <2>5
  <2> HIDE DEF u
  <2>9. u = Rest(c, n + 1)
    BY <2>6, <2>7, <2>8
  <2> QED BY <2>2, <2>9 DEF u
<1> QED BY <1>3, <1>4, <1>5 DEF f

\* A frame begins with all of its intervals to come.
LEMMA RestAtFirst ==
  ASSUME NEW c \in Code
  PROVE  Rest(c, 0) = FrameOf(c)
<1> DEFINE f == FrameOf(c)
<1>1. f \in [1 .. Edges -> Nat] /\ Edges \in Nat
  BY FrameFacts, BitsFacts
<1>2. Rest(c, 0) = [i \in 1 .. Edges - 0 |-> f[i + 0]]
  BY DEF Rest
<1> HIDE DEF f
<1>3. f = [i \in 1 .. Edges |-> f[i]]
  BY <1>1
<1>4. [i \in 1 .. Edges - 0 |-> f[i + 0]] = [i \in 1 .. Edges |-> f[i]]
  BY <1>1
<1> QED BY <1>2, <1>3, <1>4 DEF f

-----------------------------------------------------------------------------
(* Types                                                                   *)

\* A bit goes into a word at its place.
LEMMA WithBitTyped ==
  ASSUME raw \in Code, NEW bit \in {0, 1}
  PROVE  WithBit(bit) \in Code
BY DEF WithBit, Code

\* What the handler does to the decoder.
LEMMA HandlerTyped ==
  ASSUME IrTyped, PinInterrupt
  PROVE  IrTyped'
<1>0. /\ raw \in Code /\ last \in Code /\ cnt \in 0 .. Bits /\ rdy \in BOOLEAN
      /\ Bits \in Nat /\ Bits > 0 /\ Zero \in Code /\ elapsed \in Nat
      /\ state \in {"IDLE", "LEADER_LOW", "LEADER_HIGH", "DATA_LOW", "DATA_HIGH"}
      /\ state \in {"DATA_LOW", "DATA_HIGH"} => cnt < Bits
  BY BitsFacts DEF IrTyped, IrTypeOK
<1> DEFINE Good ==
      /\ raw' \in Code /\ last' \in Code /\ cnt' \in 0 .. Bits /\ rdy' \in BOOLEAN
      /\ state' \in {"IDLE", "LEADER_LOW", "LEADER_HIGH", "DATA_LOW", "DATA_HIGH"}
      /\ state' \in {"DATA_LOW", "DATA_HIGH"} => cnt' < Bits
<1>1. /\ Resumed = "IDLE" \/ Resumed = state
      /\ Resumed \in {"IDLE", "LEADER_LOW", "LEADER_HIGH", "DATA_LOW", "DATA_HIGH"}
  BY <1>0 DEF Resumed
<1>2. ASSUME Resumed = "IDLE" PROVE Good
  <2>1. WaitStart
    BY <1>2 DEF PinInterrupt
  <2> QED BY <1>0, <2>1 DEF WaitStart, Become, Keep
<1>3. ASSUME Resumed = "LEADER_LOW" PROVE Good
  <2>1. MeasureMark(LeaderMark(elapsed), "LEADER_HIGH", Resumed)
    BY <1>3 DEF PinInterrupt
  <2> QED BY <1>0, <1>3, <2>1 DEF MeasureMark, Become, Keep
<1>4. ASSUME Resumed = "LEADER_HIGH" PROVE Good
  <2>1. LeaderHigh
    BY <1>4 DEF PinInterrupt
  <2>2. \/ state' = "LEADER_HIGH" /\ Keep
        \/ /\ state' = "DATA_LOW" /\ raw' = Zero /\ cnt' = 0
           /\ last' = last /\ rdy' = rdy
        \/ /\ state' = "IDLE" /\ rdy' \in BOOLEAN
           /\ raw' = raw /\ cnt' = cnt /\ last' = last
    BY <2>1, Zenon DEF LeaderHigh, Become
  <2> QED BY <1>0, <2>2 DEF Keep
<1>5. ASSUME Resumed = "DATA_LOW" PROVE Good
  <2>1. MeasureMark(BitMark(elapsed), "DATA_HIGH", Resumed)
    BY <1>5 DEF PinInterrupt
  <2>2. cnt < Bits
    BY <1>0, <1>1, <1>5
  <2> QED BY <1>0, <1>5, <2>1, <2>2 DEF MeasureMark, Become, Keep
<1>6. ASSUME Resumed = "DATA_HIGH" PROVE Good
  <2>1. DataHigh
    BY <1>6 DEF PinInterrupt
  <2>2. cnt < Bits
    BY <1>0, <1>1, <1>6
  <2>3. ASSUME NEW bit \in {0, 1}, StoreBit(bit) PROVE Good
    <3> DEFINE w == WithBit(bit)
    <3>1. w \in Code
      BY <1>0, WithBitTyped
    <3> HIDE DEF w
    <3>2. /\ raw' = w /\ cnt' = cnt + 1
          /\ IF cnt + 1 = Bits
             THEN last' = w /\ rdy' = TRUE /\ state' = "IDLE"
             ELSE state' = "DATA_LOW" /\ last' = last /\ rdy' = rdy
      BY <2>3 DEF StoreBit, Become, w
    <3>3. cnt + 1 \in 0 .. Bits /\ (cnt + 1 # Bits => cnt + 1 < Bits)
      BY <1>0, <2>2
    <3> QED BY <1>0, <3>1, <3>2, <3>3, Zenon
  <2>4. \/ state' \in {"IDLE", "DATA_HIGH"} /\ Keep
        \/ StoreBit(0) \/ StoreBit(1)
    BY <2>1 DEF DataHigh, Become
  <2>5. ASSUME state' \in {"IDLE", "DATA_HIGH"} /\ Keep PROVE Good
    BY <1>0, <2>2, <2>5 DEF Keep
  <2> QED BY <2>3, <2>4, <2>5
<1>7. Good
  BY <1>1, <1>2, <1>3, <1>4, <1>5, <1>6
<1>8. /\ line' = line /\ code' = code /\ got' = got /\ rise' = FALSE /\ fall' = FALSE
      /\ elapsed' = 0 /\ pc' = (IF pc = "wfi" THEN "check" ELSE pc)
  BY DEF PinInterrupt, Wake
<1> QED BY <1>7, <1>8 DEF IrTyped, IrTypeOK

-----------------------------------------------------------------------------
(* The decoder follows a frame                                             *)

\* The first edge comes after a silence, so that the decoder starts anew.
LEMMA ServesFirst ==
  ASSUME IrTyped, elapsed = 40000, fall, PinInterrupt
  PROVE  state' = "LEADER_LOW"
<1>1. Resumed = "IDLE"
  BY DEF Resumed, FrameTimeout
<1>2. WaitStart
  BY <1>1 DEF PinInterrupt
<1> QED BY <1>2 DEF WaitStart, Become

\* Every other edge of a frame comes in time.
LEMMA ServesNext ==
  ASSUME elapsed \in Nat, elapsed <= FrameTimeout, PinInterrupt
  PROVE  /\ state = "IDLE" => WaitStart
         /\ state = "LEADER_LOW"
              => MeasureMark(LeaderMark(elapsed), "LEADER_HIGH", state)
         /\ state = "LEADER_HIGH" => LeaderHigh
         /\ state = "DATA_LOW" => MeasureMark(BitMark(elapsed), "DATA_HIGH", state)
         /\ state = "DATA_HIGH" => DataHigh
<1>1. Resumed = state
  BY DEF Resumed, FrameTimeout
<1> QED BY <1>1 DEF PinInterrupt

\* The leader's mark.
LEMMA ServesMark ==
  ASSUME elapsed = 9000, rise, state = "LEADER_LOW", PinInterrupt
  PROVE  state' = "LEADER_HIGH"
<1>1. MeasureMark(LeaderMark(elapsed), "LEADER_HIGH", state)
  BY ServesNext DEF FrameTimeout
<1>2. LeaderMark(elapsed)
  BY DEF LeaderMark
<1> QED BY <1>1, <1>2 DEF MeasureMark, Become

\* The leader's space: the word is cleared.
LEMMA ServesSpace ==
  ASSUME elapsed = 4500, fall, state = "LEADER_HIGH", PinInterrupt
  PROVE  state' = "DATA_LOW" /\ cnt' = 0 /\ raw' = Zero
<1>1. LeaderHigh
  BY ServesNext DEF FrameTimeout
<1>2. LeaderSpace(elapsed)
  BY DEF LeaderSpace
<1> QED BY <1>1, <1>2 DEF LeaderHigh, Become

\* The mark of a bit.
LEMMA ServesBitMark ==
  ASSUME elapsed = 560, rise, state = "DATA_LOW", PinInterrupt
  PROVE  state' = "DATA_HIGH" /\ cnt' = cnt /\ raw' = raw
<1>1. MeasureMark(BitMark(elapsed), "DATA_HIGH", state)
  BY ServesNext DEF FrameTimeout
<1>2. BitMark(elapsed)
  BY DEF BitMark
<1> QED BY <1>1, <1>2 DEF MeasureMark, Become, Keep

\* The space of a bit: its value is stored.
LEMMA ServesBit ==
  ASSUME NEW bit \in {0, 1}, elapsed = Space(bit), fall, state = "DATA_HIGH",
         PinInterrupt
  PROVE  StoreBit(bit)
<1>1. elapsed \in {560, 1690} /\ (elapsed = 1690 <=> bit = 1)
  BY DEF Space
<1>2. DataHigh
  BY <1>1, ServesNext DEF FrameTimeout
<1>3. ZeroSpace(elapsed) <=> elapsed = 560
  BY <1>1 DEF ZeroSpace
<1>4. OneSpace(elapsed) <=> elapsed = 1690
  BY <1>1 DEF OneSpace
<1> QED BY <1>1, <1>2, <1>3, <1>4 DEF DataHigh

\* The stop mark ends on a rising edge, which an idle decoder ignores.
LEMMA ServesStop ==
  ASSUME elapsed = 560, ~fall, state = "IDLE", PinInterrupt
  PROVE  state' = "IDLE" /\ last' = last
<1>1. WaitStart
  BY ServesNext DEF FrameTimeout
<1> QED BY <1>1 DEF WaitStart, Become, Keep

\* Each edge takes the decoder one on in the frame.
LEMMA Serves ==
  ASSUME IrTyped, code \in Code, NEW n \in 0 .. Edges,
         fall <=> (n % 2) = 0, rise <=> (n % 2) = 1,
         elapsed = Before(code, n), n > 0 => Served(n - 1), PinInterrupt
  PROVE  Served(n)'
<1>0. /\ Bits \in Nat /\ Bits > 0 /\ Edges = 2 * Bits + 3 /\ n \in 0 .. 2 * Bits + 3
      /\ code' = code
  BY BitsFacts DEF Edges, PinInterrupt
<1> DEFINE f == FrameOf(code)
<1>1. /\ f[1] = 9000 /\ f[2] = 4500
      /\ \A i \in 3 .. Edges :
           f[i] = IF i % 2 = 0 THEN Space(code[(i \div 2) - 2]) ELSE 560
  BY FrameFacts
<1>2. n > 0 => elapsed = f[n]
  BY <1>0 DEF Before
<1> HIDE DEF f
<1>3. CASE n = 0
  <2>1. elapsed = 40000 /\ fall
    BY <1>3 DEF Before
  <2>2. state' = "LEADER_LOW"
    BY <2>1, ServesFirst
  <2> QED BY <1>0, <1>3, <2>2 DEF Served
<1>4. CASE n = 1
  <2>1. elapsed = 9000 /\ rise
    BY <1>1, <1>2, <1>4
  <2>2. state = "LEADER_LOW"
    BY <1>4 DEF Served
  <2>3. state' = "LEADER_HIGH"
    BY <2>1, <2>2, ServesMark
  <2> QED BY <1>0, <1>4, <2>3 DEF Served
<1>5. CASE n = 2
  <2>1. elapsed = 4500 /\ fall
    BY <1>1, <1>2, <1>5
  <2>2. state = "LEADER_HIGH"
    BY <1>5 DEF Served
  <2>3. state' = "DATA_LOW" /\ cnt' = 0 /\ raw' = Zero
    BY <2>1, <2>2, ServesSpace
  <2>4. HasBits(0)'
    BY <2>3 DEF HasBits, Zero, BitNo
  <2>5. BitsBy(n) = 0
    BY <1>5 DEF BitsBy
  <2> QED BY <1>0, <1>5, <2>3, <2>4, <2>5 DEF Served
<1>6. CASE n \in 3 .. 2 * Bits + 2 /\ (n % 2) = 1
  <2> DEFINE m == BitsBy(n)
  <2>1. n \in 3 .. Edges /\ n <= 2 * Bits + 1
    BY <1>0, <1>6
  <2>2. elapsed = 560 /\ rise
    BY <1>1, <1>2, <1>6, <2>1
  <2>3. m = BitsBy(n - 1) /\ ((n - 1) % 2) = 0 /\ n - 1 \in 2 .. 2 * Bits + 1
    BY <1>0, <1>6, <2>1 DEF BitsBy
  <2> HIDE DEF m
  <2>4. state = "DATA_LOW" /\ HasBits(m)
    BY <2>1, <2>3 DEF Served
  <2>5. state' = "DATA_HIGH" /\ cnt' = cnt /\ raw' = raw
    BY <2>2, <2>4, ServesBitMark
  <2>6. HasBits(m)'
    BY <1>0, <2>4, <2>5 DEF HasBits
  <2>7. (n % 2) # 0 /\ n \in 2 .. 2 * Bits + 1 /\ n # 0 /\ n # 1 /\ ~(n >= 2 * Bits + 2)
    BY <1>0, <1>6, <2>1
  <2> QED BY <2>5, <2>6, <2>7 DEF Served, m
<1>7. CASE n \in 3 .. 2 * Bits + 2 /\ (n % 2) = 0
  <2> DEFINE m == BitsBy(n - 1)
  <2>1. n \in 3 .. Edges /\ n - 1 \in 2 .. 2 * Bits + 1 /\ ((n - 1) % 2) # 0
    BY <1>0, <1>7
  <2>2. m = (n \div 2) - 2 /\ m \in BitNo /\ m + 1 = BitsBy(n)
        /\ (m + 1 = Bits <=> n = 2 * Bits + 2)
    BY <1>0, <1>7 DEF BitsBy, BitNo
  <2> HIDE DEF m
  <2> DEFINE bit == code[m]
  <2>3. elapsed = Space(bit) /\ fall
    BY <1>1, <1>2, <1>7, <2>1, <2>2
  <2>4. state = "DATA_HIGH" /\ HasBits(m)
    BY <2>1 DEF Served, m
  <2>5. bit \in {0, 1}
    BY <2>2 DEF Code
  <2> HIDE DEF bit
  <2>6. StoreBit(bit)
    BY <2>3, <2>4, <2>5, ServesBit
  <2> DEFINE w == WithBit(bit)
  <2>7. w = [raw EXCEPT ![m] = bit] /\ raw \in Code
    <3>1. raw[m] = 0 /\ cnt = m /\ raw \in Code
      BY <2>2, <2>4 DEF HasBits, IrTyped, IrTypeOK, BitNo
    <3> QED BY <2>5, <3>1 DEF WithBit
  <2>8. \A i \in BitNo : w[i] = IF i < m + 1 THEN code[i] ELSE 0
    <3>1. BitNo \subseteq Nat /\ m \in Nat
      BY <2>2, BitsFacts
    <3>2. \A i \in BitNo : raw[i] = IF i < m THEN code[i] ELSE 0
      BY <2>4 DEF HasBits
    <3>3. \A i \in BitNo : w[i] = IF i = m THEN code[m] ELSE raw[i]
      BY <2>7 DEF Code, bit
    <3> HIDE DEF w
    <3> QED BY <3>1, <3>2, <3>3
  <2> HIDE DEF w
  <2>9. /\ raw' = w /\ cnt' = m + 1
        /\ m + 1 = Bits => last' = w /\ state' = "IDLE"
        /\ m + 1 # Bits => state' = "DATA_LOW"
    BY <2>4, <2>6 DEF StoreBit, Become, HasBits, w
  <2>10. CASE m + 1 = Bits
    <3>1. \A i \in BitNo : i < m + 1
      BY <1>0, <2>10 DEF BitNo
    <3>2. w = code
      <4>1. w \in Code
        BY <2>5, <2>7 DEF Code
      <4>2. \A i \in BitNo : w[i] = code[i]
        BY <2>8, <3>1
      <4> QED BY <4>1, <4>2 DEF Code
    <3>3. n = 2 * Bits + 2
      BY <2>2, <2>10
    <3> QED BY <1>0, <2>9, <2>10, <3>2, <3>3 DEF Served
  <2>11. CASE m + 1 # Bits
    <3>1. n \in 2 .. 2 * Bits + 1 /\ n # 0 /\ n # 1 /\ ~(n >= 2 * Bits + 2)
      BY <1>0, <1>7, <2>2, <2>11
    <3>2. HasBits(m + 1)'
      BY <1>0, <2>8, <2>9 DEF HasBits
    <3> QED BY <1>7, <2>2, <2>9, <2>11, <3>1, <3>2 DEF Served
  <2> QED BY <2>10, <2>11
<1>8. CASE n = 2 * Bits + 3
  <2>1. n \in 3 .. Edges /\ (n % 2) # 0 /\ n - 1 >= 2 * Bits + 2 /\ n > 0
    BY <1>0, <1>8
  <2>2. elapsed = 560 /\ ~fall
    BY <1>1, <1>2, <2>1
  <2>3. state = "IDLE" /\ last = code
    BY <2>1 DEF Served
  <2>4. state' = "IDLE" /\ last' = last
    BY <2>2, <2>3, ServesStop
  <2>5. n # 0 /\ n # 1 /\ n \notin 2 .. 2 * Bits + 1
    BY <1>0, <1>8
  <2> QED BY <1>0, <2>3, <2>4, <2>5 DEF Served
<1>9. n = 0 \/ n = 1 \/ n = 2 \/ n \in 3 .. 2 * Bits + 2 \/ n = 2 * Bits + 3
  BY <1>0
<1>10. (n % 2) = 0 \/ (n % 2) = 1
  BY <1>0
<1> QED BY <1>3, <1>4, <1>5, <1>6, <1>7, <1>8, <1>9, <1>10

-----------------------------------------------------------------------------
(* The invariant                                                           *)

\* What the signal does to its part of the state.
SignalStep == Noise \/ SendEdge \/ Interrupted \/ (\E c \in Code : SendFrame(c))

\* The signal keeps the types.
LEMMA SignalTyped ==
  ASSUME IrIInv, SignalStep
  PROVE  IrTyped'
<1>0. /\ line \in BOOLEAN /\ rise \in BOOLEAN /\ fall \in BOOLEAN
      /\ elapsed \in Nat /\ code \in Code \cup {NoFrame}
  BY DEF IrIInv, IrTyped, IrTypeOK
<1>1. UNCHANGED <<state, raw, cnt, last, rdy, pc, got>>
  BY DEF SignalStep, Noise, SendEdge, Interrupted, SendFrame, decoder
<1>2. ASSUME NEW us \in Nat, Edge(us)
      PROVE  line' \in BOOLEAN /\ rise' \in BOOLEAN /\ fall' \in BOOLEAN /\ elapsed' \in Nat
  BY <1>0, <1>2, Zenon DEF Edge
<1>3. /\ line' \in BOOLEAN /\ rise' \in BOOLEAN /\ fall' \in BOOLEAN
      /\ elapsed' \in Nat /\ code' \in Code \cup {NoFrame}
  <2>1. CASE Noise
    <3>1. CASE \E us \in Intervals : Edge(us)
      <4>1. PICK us \in Intervals : Edge(us)
        BY <3>1
      <4>2. us \in Nat
        BY IrAssumption
      <4> QED BY <1>2, <2>1, <4>1, <4>2 DEF Noise
    <3>2. CASE line' = ~line /\ UNCHANGED <<rise, fall, elapsed>>
      <4>1. line' \in BOOLEAN
        BY <1>0, <3>2, Zenon
      <4> QED BY <1>0, <2>1, <3>2, <4>1 DEF Noise
    <3> QED BY <2>1, <3>1, <3>2 DEF Noise
  <2>2. CASE SendEdge
    <3>1. code # NoFrame
      BY <2>2 DEF SendEdge, IrIInv, NoneLeft
    <3>2. PICK n \in 0 .. Edges : togo = Rest(code, n)
      BY <3>1 DEF IrIInv, InStep, Reached
    <3>3. togo \in Seq(Nat) /\ togo # <<>>
      BY <1>0, <2>2, <3>1, <3>2, RestFacts DEF SendEdge
    <3>4. Head(togo) \in Nat
      BY <3>3
    <3> QED BY <1>0, <1>2, <2>2, <3>4 DEF SendEdge
  <2>3. CASE Interrupted
    BY <1>0, <2>3 DEF Interrupted
  <2>4. ASSUME NEW c \in Code, SendFrame(c)
        PROVE  /\ line' \in BOOLEAN /\ rise' \in BOOLEAN /\ fall' \in BOOLEAN
               /\ elapsed' \in Nat /\ code' \in Code \cup {NoFrame}
    BY <1>2, <2>4 DEF SendFrame
  <2> QED BY <2>1, <2>2, <2>3, <2>4 DEF SignalStep
<1> QED BY <1>1, <1>3 DEF IrIInv, IrTyped, IrTypeOK

\* The signal sends frames edge by edge.
LEMMA SignalInStep ==
  ASSUME IrIInv, SignalStep
  PROVE  NoneLeft' /\ InStep'
<1>0. /\ line \in BOOLEAN /\ rise \in BOOLEAN /\ fall \in BOOLEAN
      /\ code \in Code \cup {NoFrame} /\ Bits \in Nat /\ Edges \in Nat
  BY BitsFacts DEF IrIInv, IrTyped, IrTypeOK
<1>1. CASE Noise
  BY <1>1 DEF Noise, NoneLeft, InStep
<1>2. CASE SendEdge
  <2>1. code # NoFrame /\ code \in Code /\ code' = code
    BY <1>0, <1>2 DEF SendEdge, IrIInv, NoneLeft
  <2>2. PICK n \in 0 .. Edges : Reached(n)
    BY <2>1 DEF IrIInv, InStep
  <2>3. ~rise /\ ~fall /\ togo # <<>>
    BY <1>2 DEF SendEdge, Pending
  <2>4. Served(n) /\ togo = Rest(code, n) /\ (line <=> (n % 2) = 1)
    <3>1. (n % 2) = 0 \/ (n % 2) = 1
      BY <1>0
    <3> QED BY <2>2, <2>3, <3>1 DEF Reached
  <2>5. /\ n # Edges /\ n + 1 \in 0 .. Edges
        /\ Head(togo) = FrameOf(code)[n + 1] /\ Tail(togo) = Rest(code, n + 1)
    <3>1. n # Edges
      BY <2>1, <2>3, <2>4, RestFacts
    <3>2. n + 1 \in 0 .. Edges
      BY <1>0, <3>1
    <3>3. /\ Head(Rest(code, n)) = FrameOf(code)[n + 1]
          /\ Tail(Rest(code, n)) = Rest(code, n + 1)
      BY <2>1, <3>1, RestFacts
    <3> QED BY <2>4, <3>1, <3>2, <3>3
  <2>6. /\ line' <=> ~line
        /\ rise' <=> ~line
        /\ fall' <=> line
        /\ elapsed' = Head(togo) /\ togo' = Tail(togo)
    BY <1>2, <2>3, Zenon DEF SendEdge, Edge
  <2>7. /\ (n + 1) % 2 = 1 <=> ~((n % 2) = 1)
        /\ (n + 1) % 2 = 0 <=> (n % 2) = 1
    BY <1>0
  <2>8. Served(n)'
    BY <1>2, <2>4 DEF Served, HasBits, SendEdge, decoder
  <2>9. elapsed' = Before(code', n + 1)
    BY <2>1, <2>5, <2>6 DEF Before
  <2>10. Reached(n + 1)'
    <3>1. (n + 1) - 1 = n
      BY <1>0
    <3>2. togo' = Rest(code', n + 1)
      BY <2>1, <2>5, <2>6
    <3>3. /\ line' <=> (n + 1) % 2 = 1
          /\ rise' <=> (n + 1) % 2 = 1
          /\ fall' <=> (n + 1) % 2 = 0
      BY <2>4, <2>6, <2>7
    <3> DEFINE m == n + 1
    <3>4. /\ togo' = Rest(code', m) /\ elapsed' = Before(code', m)
          /\ m - 1 = n
      BY <2>9, <3>1, <3>2
    <3>5. /\ line' <=> (m % 2) = 1
          /\ rise' <=> (m % 2) = 1
          /\ fall' <=> (m % 2) = 0
      BY <3>3
    <3> HIDE DEF m
    <3>6. Served(m - 1)'
      BY <2>8, <3>4
    <3>7. Reached(m)'
      BY <3>4, <3>5, <3>6 DEF Reached
    <3> QED BY <3>7 DEF m
  <2> QED BY <2>1, <2>5, <2>10 DEF NoneLeft, InStep
<1>3. CASE Interrupted
  BY <1>3 DEF Interrupted, NoneLeft, InStep
<1>4. ASSUME NEW c \in Code, SendFrame(c)
      PROVE  NoneLeft' /\ InStep'
  <2>1. code' = c /\ togo' = FrameOf(c) /\ c # NoFrame
    BY <1>4, NoFrameFacts DEF SendFrame
  <2>2. ~line' /\ fall' /\ ~rise' /\ elapsed' = 40000
    <3>1. line /\ ~rise /\ ~fall /\ Edge(40000)
      BY <1>4 DEF SendFrame, Pending
    <3>2. /\ line' <=> ~line
          /\ rise' <=> rise \/ ~line
          /\ fall' <=> fall \/ line
      <4>1. PICK us : Edge(us)
        BY <3>1
      <4> QED BY <4>1, Zenon DEF Edge
    <3>3. ~line' /\ fall' /\ ~rise'
      BY <3>1, <3>2
    <3> QED BY <3>1, <3>3 DEF Edge
  <2>3. togo' = Rest(code', 0) /\ elapsed' = Before(code', 0)
    BY <2>1, <2>2, RestAtFirst DEF Before
  <2>4. (0 % 2) = 0 /\ 0 \in 0 .. Edges
    BY <1>0
  <2>5. Reached(0)'
    BY <2>2, <2>3, <2>4 DEF Reached
  <2> QED BY <2>1, <2>4, <2>5 DEF NoneLeft, InStep
<1> QED BY <1>1, <1>2, <1>3, <1>4 DEF SignalStep

\* The handler serves the edge that is pending.
LEMMA HandlerInStep ==
  ASSUME IrIInv, PinInterrupt
  PROVE  NoneLeft' /\ InStep'
<1>1. code' = code /\ togo' = togo /\ line' = line /\ ~Pending'
  BY DEF PinInterrupt, Pending
<1>2. ASSUME code # NoFrame
      PROVE  InStep'
  <2>1. PICK n \in 0 .. Edges : Reached(n)
    BY <1>2 DEF IrIInv, InStep
  <2>2. /\ fall <=> (n % 2) = 0
        /\ rise <=> (n % 2) = 1
        /\ elapsed = Before(code, n) /\ (n > 0 => Served(n - 1))
    BY <2>1 DEF Reached, PinInterrupt
  <2>3. code \in Code /\ IrTyped
    BY <1>2 DEF IrIInv, IrTyped, IrTypeOK
  <2>4. Served(n)'
    BY <2>2, <2>3, Serves
  <2>5. Reached(n)'
    BY <1>1, <2>1, <2>4 DEF Reached
  <2> QED BY <2>5 DEF InStep
<1>3. NoneLeft'
  BY <1>1 DEF IrIInv, NoneLeft
<1> QED BY <1>1, <1>2, <1>3 DEF InStep

\* main and the tick leave the signal and the decoder alone.
LEMMA MainStep ==
  ASSUME IrIInv, SysTick \/ Main
  PROVE  IrIInv'
<1>0. /\ rdy \in BOOLEAN /\ got \in Code /\ last \in Code
      /\ pc \in {"wfi", "check", "clear", "read", "print"}
  BY DEF IrIInv, IrTyped, IrTypeOK
<1>1. UNCHANGED <<signal, decoder>>
  BY DEF SysTick, Main, Check
<1>2. /\ rdy' \in BOOLEAN /\ got' \in Code
      /\ pc' \in {"wfi", "check", "clear", "read", "print"}
  <2>1. CASE SysTick
    BY <1>0, <2>1 DEF SysTick, Wake
  <2>2. CASE Check
    BY <1>0, <2>2 DEF Check
  <2>3. CASE GetCode
    BY <1>0, <2>3 DEF GetCode
  <2>4. CASE PrintCode
    BY <1>0, <2>4 DEF PrintCode
  <2> QED BY <2>1, <2>2, <2>3, <2>4 DEF Main
<1>3. TakesNewest'
  <2>0. (~rdy /\ pc # "read" => got = last) /\ last' = last
    BY <1>1 DEF IrIInv, TakesNewest, decoder
  <2>1. CASE SysTick
    BY <2>0, <2>1 DEF TakesNewest, SysTick, Wake
  <2>2. CASE Check
    BY <2>0, <2>2 DEF TakesNewest, Check
  <2>3. CASE GetCode
    BY <2>0, <2>3 DEF TakesNewest, GetCode
  <2>4. CASE PrintCode
    BY <2>0, <2>4 DEF TakesNewest, PrintCode
  <2> QED BY <2>1, <2>2, <2>3, <2>4 DEF Main
<1>4. IrTyped'
  BY <1>1, <1>2 DEF IrIInv, IrTyped, IrTypeOK, signal, decoder
<1>5. NoneLeft' /\ InStep'
  BY <1>1 DEF IrIInv, NoneLeft, InStep, Reached, Served, HasBits, Pending, signal, decoder
<1> QED BY <1>3, <1>4, <1>5 DEF IrIInv

\* A code that becomes ready is the newest.
LEMMA NewestStep ==
  ASSUME IrIInv, PinInterrupt
  PROVE  TakesNewest'
<1>1. rdy' = TRUE \/ (last' = last /\ rdy' = rdy)
  <2>1. ASSUME NEW bit \in {0, 1}, StoreBit(bit)
        PROVE  rdy' = TRUE \/ (last' = last /\ rdy' = rdy)
    BY <2>1 DEF StoreBit
  <2>2. ASSUME LeaderHigh PROVE rdy' = TRUE \/ (last' = last /\ rdy' = rdy)
    <3>1. \/ Keep \/ (last' = last /\ rdy' = rdy)
          \/ last' = last /\ rdy' = (rdy \/ RepeatSpace(elapsed))
      BY <2>2, Zenon DEF LeaderHigh
    <3>2. rdy \in BOOLEAN
      BY DEF IrIInv, IrTyped, IrTypeOK
    <3>3. CASE last' = last /\ rdy' = (rdy \/ RepeatSpace(elapsed))
      BY <3>2, <3>3, Zenon
    <3> QED BY <3>1, <3>3 DEF Keep
  <2>3. WaitStart \/ DataHigh \/ LeaderHigh \/ Keep
        \/ MeasureMark(LeaderMark(elapsed), "LEADER_HIGH", Resumed)
        \/ MeasureMark(BitMark(elapsed), "DATA_HIGH", Resumed)
    BY DEF PinInterrupt
  <2>4. Keep \/ LeaderHigh \/ StoreBit(0) \/ StoreBit(1)
    BY <2>3 DEF WaitStart, DataHigh, MeasureMark
  <2> QED BY <2>1, <2>2, <2>4 DEF Keep
<1>2. got' = got /\ (pc' # "read" => pc # "read")
  BY DEF PinInterrupt, Wake
<1> QED BY <1>1, <1>2 DEF IrIInv, TakesNewest

\* The decoder starts idle, with no code and no frame under way.
LEMMA IrInitIInv ==
  ASSUME IrInit
  PROVE  IrIInv
<1>1. Zero \in Code /\ 0 \in 0 .. Bits
  BY BitsFacts
<1>2. IrTyped
  BY <1>1 DEF IrInit, IrTyped, IrTypeOK
<1> QED BY <1>2 DEF IrInit, IrIInv, NoneLeft, InStep, TakesNewest

\* Every step keeps the invariant.
LEMMA IrNextIInv ==
  ASSUME IrIInv, [IrNext]_irvars
  PROVE  IrIInv'
<1>1. CASE SignalStep
  <2>1. TakesNewest'
    BY <1>1 DEF IrIInv, TakesNewest, SignalStep, Noise, SendEdge, Interrupted,
                SendFrame, decoder
  <2> QED BY <1>1, <2>1, SignalTyped, SignalInStep DEF IrIInv
<1>2. CASE PinInterrupt
  <2>1. IrTyped
    BY DEF IrIInv
  <2> QED BY <1>2, <2>1, HandlerTyped, HandlerInStep, NewestStep DEF IrIInv
<1>3. CASE SysTick \/ Main
  BY <1>3, MainStep
<1>4. CASE UNCHANGED irvars
  <2>1. UNCHANGED <<signal, decoder, rdy, pc, got>>
    BY <1>4 DEF irvars
  <2>2. IrTyped' /\ TakesNewest'
    BY <2>1 DEF IrIInv, IrTyped, IrTypeOK, TakesNewest, signal, decoder
  <2>3. NoneLeft' /\ InStep'
    BY <2>1 DEF IrIInv, NoneLeft, InStep, Reached, Served, HasBits, Pending, signal,
                decoder
  <2> QED BY <2>2, <2>3 DEF IrIInv
<1> QED BY <1>1, <1>2, <1>3, <1>4 DEF IrNext, SignalStep

-----------------------------------------------------------------------------
(* The theorems                                                            *)

\* The inductive invariant: while a frame comes undisturbed, the decoder is
\* where the last edge served puts it, with as many bits as have come; only
\* the latch of the edge that is pending is set.
THEOREM IrInvariance == IrSpec => []IrIInv
<1>1. IrInit => IrIInv
  BY IrInitIInv
<1>2. IrIInv /\ [IrNext]_irvars => IrIInv'
  BY IrNextIInv
<1> QED BY <1>1, <1>2, PTL DEF IrSpec

\* The counter of bits, and with it the shift, stays within the word.
THEOREM IrTypeCorrect == IrSpec => []IrTypeOK
<1>1. IrIInv => IrTypeOK
  BY DEF IrIInv, IrTyped
<1> QED BY <1>1, IrInvariance, PTL

\* A frame sent whole after a silence is the code received last, whatever
\* noise came before and however many bits a frame has.
THEOREM FramesDecoded == IrSpec => []DecodesFrames
<1>1. ASSUME IrIInv PROVE DecodesFrames
  <2> SUFFICES ASSUME code # NoFrame, Len(togo) <= 1, ~Pending
               PROVE  last = code
    BY DEF DecodesFrames
  <2>1. PICK n \in 0 .. Edges : Reached(n)
    BY <1>1 DEF IrIInv, InStep
  <2>2. code \in Code /\ Bits \in Nat /\ Edges = 2 * Bits + 3
    BY <1>1, BitsFacts DEF IrIInv, IrTyped, IrTypeOK, Edges
  <2>3. Len(togo) = Edges - n
    BY <2>1, <2>2, RestFacts DEF Reached
  <2>4. n >= 2 * Bits + 2
    BY <2>2, <2>3
  <2>5. Served(n)
    <3>1. (n % 2) = 0 \/ (n % 2) = 1
      BY <2>2
    <3> QED BY <2>1, <3>1 DEF Reached, Pending
  <2> QED BY <2>4, <2>5 DEF Served
<1> QED BY <1>1, IrInvariance, PTL

\* With no code ready, main has the one received last, wherever the interrupt
\* has come between its statements.
THEOREM NewestTaken == IrSpec => []TakesNewest
<1>1. IrIInv => TakesNewest
  BY DEF IrIInv
<1> QED BY <1>1, IrInvariance, PTL

=============================================================================
