------------------------------- MODULE RingBuffer -------------------------------
(***************************************************************************)
(* The ring buffer of drivers/ipc/ringbuffer.c. Each index has a mirror    *)
(* bit that flips when the index wraps: equal indices mean empty with      *)
(* equal bits and full with different ones. The functions are operators    *)
(* from a ring buffer to a ring buffer.                                    *)
(***************************************************************************)
EXTENDS Integers, Sequences

CONSTANT RbSize       \* buffer_size

ASSUME RingAssumption == RbSize \in Nat \ {0}

RingIndex == 0 .. RbSize - 1

Ring(Byte) ==
  [ buf : [RingIndex -> Byte],
    ri  : RingIndex, rm : BOOLEAN,        \* read_index, read_mirror
    wi  : RingIndex, wm : BOOLEAN ]       \* write_index, write_mirror

Empty(rb) == rb.ri = rb.wi /\ rb.rm = rb.wm
Full(rb) == rb.ri = rb.wi /\ rb.rm # rb.wm

DataLen(rb) ==
  IF Empty(rb) THEN 0
  ELSE IF Full(rb) THEN RbSize
  ELSE IF rb.wi > rb.ri THEN rb.wi - rb.ri ELSE RbSize - (rb.ri - rb.wi)

\* rt_ringbuffer_space_len is a macro: buffer_size - rt_ringbuffer_data_len.
SpaceLen(rb) == RbSize - DataLen(rb)

RingReset(rb) == [rb EXCEPT !.ri = 0, !.rm = FALSE, !.wi = 0, !.wm = FALSE]

-----------------------------------------------------------------------------
\* The two copies: from an index on, and on at the start of the buffer.
Stored(rb, data) ==
  [i \in RingIndex |->
     LET j == (i - rb.wi) % RbSize IN
     IF j < Len(data) THEN data[j + 1] ELSE rb.buf[i]]

\* The write index moves on; reaching the end flips its mirror bit.
Written(rb, data) ==
  LET n == Len(data) IN
  IF RbSize - rb.wi > n
  THEN [rb EXCEPT !.buf = Stored(rb, data), !.wi = rb.wi + n]
  ELSE [rb EXCEPT !.buf = Stored(rb, data), !.wi = n - (RbSize - rb.wi),
                  !.wm = ~rb.wm]

RingPut(rb, data) ==
  LET space == SpaceLen(rb) IN
  IF space = 0 THEN rb
  ELSE Written(rb, IF space < Len(data) THEN SubSeq(data, 1, space) ELSE data)

\* mutant: the read mirror does not follow
RingPutForceSameMirror(rb, data) ==
  LET n     == Len(data)
      kept  == IF n > RbSize THEN SubSeq(data, n - RbSize + 1, n) ELSE data
      w     == Written(rb, kept)
  IN  IF Len(kept) > SpaceLen(rb) THEN [w EXCEPT !.ri = w.wi] ELSE w

\* What does not fit pushes the oldest bytes out.
RingPutForce(rb, data) ==
  LET n     == Len(data)
      kept  == IF n > RbSize THEN SubSeq(data, n - RbSize + 1, n) ELSE data
      w     == Written(rb, kept)
      wraps == RbSize - rb.wi <= Len(kept)
  IN  IF Len(kept) > SpaceLen(rb)
      THEN [w EXCEPT !.ri = w.wi,
                     !.rm = IF wraps /\ w.wi <= rb.ri THEN ~rb.rm ELSE rb.rm]
      ELSE w

\* What a read of n bytes copies out.
RingCopy(rb, n) == [i \in 1 .. n |-> rb.buf[(rb.ri + i - 1) % RbSize]]

Skipped(rb, n) ==
  IF RbSize - rb.ri > n
  THEN [rb EXCEPT !.ri = rb.ri + n]
  ELSE [rb EXCEPT !.ri = n - (RbSize - rb.ri), !.rm = ~rb.rm]

\* What rt_ringbuffer_get reads of the n bytes asked for, and what it leaves.
RingGot(rb, n) == RingCopy(rb, IF DataLen(rb) < n THEN DataLen(rb) ELSE n)

RingGet(rb, n) ==
  IF DataLen(rb) = 0 THEN rb ELSE Skipped(rb, Len(RingGot(rb, n)))

\* rt_ringbuffer_peek consumes what it returns: the bytes up to the end.
PeekLen(rb) ==
  IF RbSize - rb.ri > DataLen(rb) THEN DataLen(rb) ELSE RbSize - rb.ri

RingPeek(rb) ==
  IF DataLen(rb) = 0 THEN rb
  ELSE IF RbSize - rb.ri > DataLen(rb) THEN [rb EXCEPT !.ri = rb.ri + PeekLen(rb)]
  ELSE [rb EXCEPT !.ri = 0, !.rm = ~rb.rm]

-----------------------------------------------------------------------------
\* One byte at a time.
ByteWritten(rb, ch) ==
  IF rb.wi = RbSize - 1
  THEN [rb EXCEPT !.buf[rb.wi] = ch, !.wi = 0, !.wm = ~rb.wm]
  ELSE [rb EXCEPT !.buf[rb.wi] = ch, !.wi = rb.wi + 1]

PutChar(rb, ch) == IF SpaceLen(rb) = 0 THEN rb ELSE ByteWritten(rb, ch)

PutCharForce(rb, ch) ==
  LET w == ByteWritten(rb, ch) IN
  IF ~Full(rb) THEN w
  ELSE [w EXCEPT !.ri = w.wi, !.rm = IF w.wi = 0 THEN ~rb.rm ELSE rb.rm]

GetChar(rb) ==
  IF DataLen(rb) = 0 THEN rb
  ELSE IF rb.ri = RbSize - 1 THEN [rb EXCEPT !.rm = ~rb.rm, !.ri = 0]
  ELSE [rb EXCEPT !.ri = rb.ri + 1]

-----------------------------------------------------------------------------
(* The reference: a queue of at most RbSize bytes, the oldest first.       *)

Contents(rb) == RingCopy(rb, DataLen(rb))

Oldest(s, n) == SubSeq(s, 1, IF Len(s) < n THEN Len(s) ELSE n)
Newest(s, n) == SubSeq(s, IF Len(s) < n THEN 1 ELSE Len(s) - n + 1, Len(s))
Rest(s, n) == SubSeq(s, Len(Oldest(s, n)) + 1, Len(s))

\* Every function does to the contents of rb what it does to a queue, for
\* rb with the given bytes in it and the given bytes to put.
ActsAsQueue(rb, data) ==
  LET c == Contents(rb)
      n == Len(data)
  IN  /\ Contents(RingPut(rb, data)) = c \o Oldest(data, RbSize - Len(c))
      /\ Contents(RingPutForce(rb, data)) = Newest(c \o data, RbSize)
      /\ RingGot(rb, n) = Oldest(c, n) /\ Contents(RingGet(rb, n)) = Rest(c, n)
      /\ RingCopy(rb, PeekLen(rb)) = Oldest(c, PeekLen(rb))
      /\ c # <<>> => PeekLen(rb) > 0
      /\ Contents(RingPeek(rb)) = Rest(c, PeekLen(rb))
      /\ Contents(RingReset(rb)) = <<>>
      /\ n = 1 =>
           /\ Contents(PutChar(rb, data[1])) = Oldest(c \o data, RbSize)
           /\ Contents(PutCharForce(rb, data[1])) = Newest(c \o data, RbSize)
           /\ Contents(GetChar(rb)) = Rest(c, 1)

=============================================================================
