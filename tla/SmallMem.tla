------------------------------- MODULE SmallMem -------------------------------
(***************************************************************************)
(* The small memory algorithm of mem.c, which serves rt_malloc. The heap   *)
(* is a chain of blocks, each behind a header; a block is named by the     *)
(* offset of its header. rt_malloc, rt_realloc and rt_free hold the heap   *)
(* lock (kservice.c), so each is one step. Offsets and sizes are in bytes. *)
(* A pointer the user holds is the offset of the header in front of it.    *)
(***************************************************************************)
EXTENDS Integers, FiniteSets, FiniteSetsExt

CONSTANTS
  AlignSize,    \* RT_ALIGN_SIZE
  HeaderSize,   \* SIZEOF_STRUCT_MEM
  MinSize,      \* MIN_SIZE
  HeapSize,     \* mem_size_aligned
  Sizes         \* the sizes users ask for

\* Sizes stay below the width of rt_size_t by more than the alignment:
\* RT_ALIGN of a larger one wraps around.
ASSUME HeapAssumption ==
  /\ AlignSize \in Nat \ {0} /\ HeaderSize \in Nat \ {0}
  /\ MinSize \in Nat \ {0} /\ HeapSize \in Nat \ {0}
  /\ Sizes \subseteq Nat \ {0}

VARIABLES
  h,       \* the heap: blk (next, prev, used), lfree, used (parent.used)
  held     \* the blocks users hold, and the size they asked for

memvars == <<h, held>>

End == HeapSize + HeaderSize                             \* heap_end

Align(n) == ((n + AlignSize - 1) \div AlignSize) * AlignSize

AtLeastMin(n) == IF n < Align(MinSize) THEN Align(MinSize) ELSE n

DataSize(s, b) == s.blk[b].next - (b + HeaderSize)

\* The heap with the header at b removed.
Without(blk, b) == [x \in DOMAIN blk \ {b} |-> blk[x]]

\* The header at b, in front of a free block, is created inside block a.
SplitAt(s, a, b) ==
  LET after == s.blk[a].next
      blk   == [x \in DOMAIN s.blk \cup {b} |->
                  IF x = b THEN [next |-> after, prev |-> a, used |-> FALSE]
                  ELSE IF x = a THEN [s.blk[a] EXCEPT !.next = b]
                  ELSE IF x = after /\ after # End THEN [s.blk[x] EXCEPT !.prev = b]
                  ELSE s.blk[x]]
  IN  [s EXCEPT !.blk = blk]

\* mutant: the header behind the merged block keeps its prev
JoinKeepsPrev(s, a, b) ==
  [s EXCEPT !.blk   = Without([s.blk EXCEPT ![a].next = s.blk[b].next], b),
            !.lfree = IF s.lfree = b THEN a ELSE s.lfree]

\* Block b is merged into the block a in front of it.
Join(s, a, b) ==
  LET after == s.blk[b].next
  IN  [s EXCEPT !.blk   = Without([s.blk EXCEPT ![a].next = after, ![after].prev = a], b),
                !.lfree = IF s.lfree = b THEN a ELSE s.lfree]

PlugForward(s, b) ==
  LET n == s.blk[b].next
  IN  IF b # n /\ ~s.blk[n].used /\ n # End THEN Join(s, b, n) ELSE s

PlugBackward(s, b) ==
  LET p == s.blk[b].prev
  IN  IF p # b /\ ~s.blk[p].used THEN Join(s, p, b) ELSE s

\* mutant: holes are plugged forward only
PlugHolesForward(s, b) == PlugForward(s, b)

PlugHoles(s, b) == PlugBackward(PlugForward(s, b), b)

-----------------------------------------------------------------------------
(* rt_smem_alloc. The chain is in the order of addresses, so the first     *)
(* block of the walk that fits is the lowest one from lfree on.            *)

\* mutant: the walk stops one block early
FitsEarly(s, n) ==
  {b \in DOMAIN s.blk : /\ s.lfree <= b /\ b < HeapSize - n
                        /\ ~s.blk[b].used /\ DataSize(s, b) >= n}

\* mutant: the header is counted as room
FitsWithHeader(s, n) ==
  {b \in DOMAIN s.blk : /\ s.lfree <= b /\ b <= HeapSize - n
                        /\ ~s.blk[b].used /\ DataSize(s, b) + HeaderSize >= n}

Fits(s, n) ==
  {b \in DOMAIN s.blk : /\ s.lfree <= b /\ b <= HeapSize - n
                        /\ ~s.blk[b].used /\ DataSize(s, b) >= n}

\* mutant: lfree stays on the block that was taken
AdvanceLfreeNot(s, b) == s

AdvanceLfree(s, b) ==
  IF b = s.lfree
  THEN [s EXCEPT !.lfree = Min({x \in DOMAIN s.blk : x >= b /\ (x = End \/ ~s.blk[x].used)})]
  ELSE s

\* n bytes of block b are taken; the rest becomes a block if it is worth it.
Take(s, b, n) ==
  LET splits == DataSize(s, b) >= n + HeaderSize + Align(MinSize)
      cut    == IF splits THEN SplitAt(s, b, b + HeaderSize + n) ELSE s
      more   == cut.blk[b].next - b
  IN  AdvanceLfree([cut EXCEPT !.used = @ + more, !.blk[b].used = TRUE], b)

Malloc(n) ==
  LET size == AtLeastMin(Align(n))
      fits == IF size > HeapSize THEN {} ELSE Fits(h, size)
  IN  IF fits = {} THEN UNCHANGED memvars
      ELSE /\ h' = Take(h, Min(fits), size)
           /\ held' = [b \in DOMAIN held \cup {Min(fits)} |->
                         IF b = Min(fits) THEN n ELSE held[b]]

-----------------------------------------------------------------------------
(* rt_smem_free, rt_smem_realloc *)

Release(s, b) ==
  PlugHoles([s EXCEPT !.blk[b].used = FALSE,
                      !.lfree = IF b < @ THEN b ELSE @,
                      !.used = @ - (s.blk[b].next - b)], b)

Free(b) ==
  /\ h' = Release(h, b)
  /\ held' = [x \in DOMAIN held \ {b} |-> held[x]]

\* mutant: the bytes given back are not subtracted
ShrinkUnaccounted(s, b, n) ==
  LET rest == b + HeaderSize + n
      cut  == SplitAt(s, b, rest)
  IN  PlugHoles([cut EXCEPT !.lfree = IF rest < @ THEN rest ELSE @], rest)

\* The end of block b is split off and merged with a hole behind it.
Shrink(s, b, n) ==
  LET rest == b + HeaderSize + n
      cut  == SplitAt(s, b, rest)
  IN  PlugHoles([cut EXCEPT !.used = @ - (DataSize(s, b) - n),
                            !.lfree = IF rest < @ THEN rest ELSE @], rest)

\* A block that is to grow, or to shrink by a little, moves: it stays where
\* it is, and the caller gets RT_NULL, when there is no room for another one.
Move(b, n) ==
  LET size == AtLeastMin(Align(n))
      fits == Fits(h, size)
      to   == Min(fits)
  IN  IF size > HeapSize \/ fits = {} THEN UNCHANGED memvars
      ELSE /\ h' = Release(Take(h, to, size), b)
           /\ held' = [x \in (DOMAIN held \ {b}) \cup {to} |->
                         IF x = to THEN n ELSE held[x]]

Realloc(b, n) ==
  LET size == Align(n)
      old  == DataSize(h, b)
  IN  \/ /\ size > HeapSize
         /\ UNCHANGED memvars
      \/ /\ size = old
         /\ held' = [held EXCEPT ![b] = n]
         /\ UNCHANGED h
      \/ /\ size + HeaderSize + MinSize < old
         /\ h' = Shrink(h, b, size)
         /\ held' = [held EXCEPT ![b] = n]
      \/ /\ size <= HeapSize /\ size # old
         /\ size + HeaderSize + MinSize >= old
         /\ Move(b, n)

-----------------------------------------------------------------------------
Init ==
  /\ h = [blk   |-> [b \in {0, End} |->
                       [next |-> End, prev |-> b, used |-> (b = End)]],
          lfree |-> 0, used |-> 0]
  /\ held = [b \in {} |-> 0]

Next ==
  \/ \E n \in Sizes : Malloc(n)
  \/ \E b \in DOMAIN held : Free(b) \/ \E n \in Sizes : Realloc(b, n)

Spec == Init /\ [][Next]_memvars
-----------------------------------------------------------------------------
(* Properties *)

Blocks == DOMAIN h.blk \ {End}

\* Offsets and sizes lie inside the heap.
TypeOK ==
  /\ {0, End} \subseteq DOMAIN h.blk /\ DOMAIN h.blk \subseteq 0 .. End
  /\ h \in [blk : [DOMAIN h.blk -> [next : 0 .. End, prev : 0 .. End, used : BOOLEAN]],
            lfree : DOMAIN h.blk, used : 0 .. End]
  /\ held \in [DOMAIN held -> Sizes]

\* The blocks tile the heap: each leads to the one behind it and back, with
\* room for a header and data in between and no other header.
ChainTiles ==
  \A b \in Blocks :
    LET n == h.blk[b].next IN
    /\ n \in DOMAIN h.blk /\ b + HeaderSize < n
    /\ \A x \in DOMAIN h.blk : x <= b \/ n <= x
    /\ n = End \/ h.blk[n].prev = b

\* "if not we have 2 unused structs in a row, plug_holes should have take care
\* of this": behind a free block there is a used one or the end.
NoTwoHoles ==
  \A b \in Blocks : ~h.blk[b].used => h.blk[h.blk[b].next].used

\* lfree, where every search starts, has no free block in front of it and is
\* a free block itself, or the end when there is none.
LfreeIsLowest ==
  /\ h.lfree = End \/ ~h.blk[h.lfree].used
  /\ \A b \in Blocks : ~h.blk[b].used => h.lfree <= b

\* What rt_memory_info reports as used is the number of the bytes that the
\* used blocks and their headers cover.
UsedIsAccounted ==
  h.used = Cardinality(UNION {b .. h.blk[b].next - 1 :
                                b \in {x \in Blocks : h.blk[x].used}})

\* The used blocks are the ones users hold, none lost and none given twice,
\* and each has the room its user asked for.
HeldHasRoom ==
  /\ DOMAIN held = {b \in Blocks : h.blk[b].used}
  /\ \A b \in DOMAIN held : DataSize(h, b) >= held[b]

\* The search sees every free block with enough room for any size, so
\* rt_malloc fails only when there is none, and takes the lowest one.
FindsEveryFit ==
  \A n \in Sizes :
    LET size == AtLeastMin(Align(n)) IN
    Fits(h, size) = {b \in Blocks : ~h.blk[b].used /\ DataSize(h, b) >= size}

=============================================================================
