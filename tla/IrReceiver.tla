------------------------------ MODULE IrReceiver ------------------------------
(***************************************************************************)
(* The bare-metal IR demo: the pin interrupt of ir_recv.c decodes NEC      *)
(* frames from the intervals between edges, the main loop sleeps, wakes on *)
(* any interrupt and prints what was received. The signal is an arbitrary  *)
(* sequence of edges in which a remote control sends whole frames.         *)
(***************************************************************************)
EXTENDS Integers, Sequences

CONSTANTS
  Bits,        \* the data bits of a frame (32 in the code)
  Intervals    \* the times between two edges of noise, in microseconds

ASSUME IrAssumption == Bits \in Nat \ {0} /\ Intervals \subseteq Nat

VARIABLES
  line,        \* level of the pin: TRUE is high
  rise, fall,  \* the latched edges, the interrupt is pending with either
  elapsed,     \* what mrt_elapsed_us will return
  state,       \* s_state
  raw, cnt,    \* s_raw_code, s_bit_cnt
  rdy, last,   \* s_code_rdy, s_last_code
  pc,          \* where main is
  got,         \* raw in main: the code that is or was printed last
  code,        \* the frame the remote sends or has sent last, or NoFrame
  togo         \* the intervals of it that are still to come

signal   == <<line, rise, fall, elapsed, code, togo>>
decoder  == <<state, raw, cnt, last>>
irvars   == <<signal, decoder, rdy, pc, got>>

\* A code is a word of bits, the first one received at 0.
BitNo == 0 .. Bits - 1
Code == [BitNo -> {0, 1}]
Zero == [i \in BitNo |-> 0]
NoFrame == <<>>

LeaderMark(us)  == us \in 8000 .. 10000
LeaderSpace(us) == us \in 4000 .. 5000
RepeatSpace(us) == us \in 1800 .. 2800
BitMark(us)     == us \in 350 .. 800
ZeroSpace(us)   == us \in 350 .. 800
OneSpace(us)    == us \in 1400 .. 1900
FrameTimeout    == 15000

-----------------------------------------------------------------------------
(* The signal *)

\* The space behind the mark of a bit.
Space(bit) == IF bit = 1 THEN 1690 ELSE 560

\* The intervals of a frame behind its first edge: the leader, a mark and a
\* space for each bit, least significant first, and the stop mark.
FrameOf(c) ==
  [i \in 1 .. 2 * Bits + 3 |->
     CASE i = 1 -> 9000
       [] i = 2 -> 4500
       [] i > 2 /\ i % 2 = 0 -> Space(c[i \div 2 - 2])
       [] OTHER -> 560]

Edge(us) ==
  /\ line' = ~line
  /\ rise' = (rise \/ ~line) /\ fall' = (fall \/ line)
  /\ elapsed' = us

Pending == rise \/ fall

\* Any edge at any time, also before the last one has been served, or while
\* the handler clears the latches and misses it.
Noise ==
  /\ togo = <<>>
  /\ \/ \E us \in Intervals : Edge(us)
     \/ line' = ~line /\ UNCHANGED <<rise, fall, elapsed>>
  /\ code' = NoFrame
  /\ UNCHANGED <<togo, decoder, rdy, pc, got>>

\* A frame begins with a falling edge after at least 40 ms of silence.
SendFrame(c) ==
  /\ togo = <<>> /\ line /\ ~Pending
  /\ Edge(40000)
  /\ code' = c
  /\ togo' = FrameOf(c)
  /\ UNCHANGED <<decoder, rdy, pc, got>>

\* An edge of a frame comes when the one before it has been served.
SendEdge ==
  /\ togo # <<>> /\ ~Pending
  /\ Edge(Head(togo))
  /\ togo' = Tail(togo)
  /\ UNCHANGED <<code, decoder, rdy, pc, got>>

\* The remote stops, or the beam is interrupted.
Interrupted ==
  /\ togo # <<>>
  /\ togo' = <<>> /\ code' = NoFrame
  /\ UNCHANGED <<line, rise, fall, elapsed, decoder, rdy, pc, got>>

-----------------------------------------------------------------------------
(* PININT0_IRQHandler. isFall and isRise may both hold. *)

\* mutant: the edge that ends a silence only resets the decoder
ResumedNever == IF elapsed > FrameTimeout /\ state # "IDLE" THEN "ABORT" ELSE state

\* The state after the guard against frames that broke off.
Resumed == IF elapsed > FrameTimeout THEN "IDLE" ELSE state

Keep == UNCHANGED <<raw, cnt, last, rdy>>

Become(s) == state' = s

WaitStart == Become(IF fall THEN "LEADER_LOW" ELSE "IDLE") /\ Keep

MeasureMark(good, s, from) ==
  /\ Become(IF ~rise THEN from ELSE IF good THEN s ELSE "IDLE")
  /\ Keep

LeaderHigh ==
  IF ~fall THEN Become("LEADER_HIGH") /\ Keep
  ELSE IF LeaderSpace(elapsed)
  THEN Become("DATA_LOW") /\ raw' = Zero /\ cnt' = 0 /\ UNCHANGED <<last, rdy>>
  ELSE /\ Become("IDLE")
       /\ rdy' = (rdy \/ RepeatSpace(elapsed))
       /\ UNCHANGED <<raw, cnt, last>>

\* s_raw_code | bit << s_bit_cnt
WithBit(bit) == [raw EXCEPT ![cnt] = IF bit = 1 THEN 1 ELSE @]

\* mutant: the number of bits is off by one
StoreBitLate(bit) ==
  LET value == WithBit(bit) IN
  /\ raw' = value
  /\ cnt' = cnt + 1
  /\ IF cnt = Bits
     THEN last' = value /\ rdy' = TRUE /\ Become("IDLE")
     ELSE Become("DATA_LOW") /\ UNCHANGED <<last, rdy>>

StoreBit(bit) ==
  LET value == WithBit(bit) IN
  /\ raw' = value
  /\ cnt' = cnt + 1
  /\ IF cnt + 1 = Bits
     THEN last' = value /\ rdy' = TRUE /\ Become("IDLE")
     ELSE Become("DATA_LOW") /\ UNCHANGED <<last, rdy>>

DataHigh ==
  IF ~fall THEN Become("DATA_HIGH") /\ Keep
  ELSE IF ZeroSpace(elapsed) THEN StoreBit(0)
  ELSE IF OneSpace(elapsed) THEN StoreBit(1)
  ELSE Become("IDLE") /\ Keep

\* An interrupt ends WFI.
Wake == pc' = IF pc = "wfi" THEN "check" ELSE pc

PinInterrupt ==
  /\ Pending
  /\ rise' = FALSE /\ fall' = FALSE /\ elapsed' = 0
  /\ Wake
  /\ CASE Resumed = "IDLE"        -> WaitStart
       [] Resumed = "LEADER_LOW"  -> MeasureMark(LeaderMark(elapsed), "LEADER_HIGH", Resumed)
       [] Resumed = "LEADER_HIGH" -> LeaderHigh
       [] Resumed = "DATA_LOW"    -> MeasureMark(BitMark(elapsed), "DATA_HIGH", Resumed)
       [] Resumed = "DATA_HIGH"   -> DataHigh
       [] OTHER                   -> Become("IDLE") /\ Keep
  /\ UNCHANGED <<line, code, togo, got>>

SysTick ==
  /\ pc = "wfi"
  /\ Wake
  /\ UNCHANGED <<signal, decoder, rdy, got>>

-----------------------------------------------------------------------------
(* main: __WFI, IR_CodeReady, IR_GetCode, printing. Interrupts may come    *)
(* between any two of its steps.                                           *)

Check ==
  /\ pc = "check"
  /\ pc' = IF rdy THEN "clear" ELSE "wfi"
  /\ UNCHANGED <<signal, decoder, rdy, got>>

\* mutant: the code is read before the flag is cleared
GetCodeReadFirst ==
  \/ /\ pc = "clear"
     /\ got' = last /\ pc' = "read" /\ UNCHANGED rdy
  \/ /\ pc = "read"
     /\ rdy' = FALSE /\ pc' = "print" /\ UNCHANGED got

\* IR_GetCode clears the flag, then reads the code.
GetCode ==
  \/ /\ pc = "clear"
     /\ rdy' = FALSE /\ pc' = "read" /\ UNCHANGED got
  \/ /\ pc = "read"
     /\ got' = last /\ pc' = "print" /\ UNCHANGED rdy

PrintCode ==
  /\ pc = "print"
  /\ pc' = "wfi"
  /\ UNCHANGED <<rdy, got>>

Main == Check \/ ((GetCode \/ PrintCode) /\ UNCHANGED <<signal, decoder>>)

-----------------------------------------------------------------------------
IrInit ==
  /\ line = TRUE /\ rise = FALSE /\ fall = FALSE /\ elapsed = 0
  /\ state = "IDLE" /\ raw = Zero /\ cnt = 0 /\ rdy = FALSE /\ last = Zero
  /\ pc = "wfi" /\ got = Zero
  /\ code = NoFrame /\ togo = <<>>

IrNext ==
  \/ Noise \/ SendEdge \/ Interrupted \/ (\E c \in Code : SendFrame(c))
  \/ PinInterrupt \/ SysTick \/ Main

IrSpec == IrInit /\ [][IrNext]_irvars

\* The tick comes 100 times a second, and interrupts leave main time to run.
IrFairSpec == IrSpec /\ WF_irvars(SysTick) /\ WF_irvars(Main)
-----------------------------------------------------------------------------
(* Properties *)

\* The decoder's counters stay in range: the shift stays below the width of the
\* word.
IrTypeOK ==
  /\ line \in BOOLEAN /\ rise \in BOOLEAN /\ fall \in BOOLEAN
  /\ state \in {"IDLE", "LEADER_LOW", "LEADER_HIGH", "DATA_LOW", "DATA_HIGH"}
  /\ raw \in Code /\ last \in Code /\ got \in Code /\ cnt \in 0 .. Bits
  /\ state \in {"DATA_LOW", "DATA_HIGH"} => cnt < Bits
  /\ rdy \in BOOLEAN
  /\ pc \in {"wfi", "check", "clear", "read", "print"}
  /\ code \in Code \cup {NoFrame}

\* Whatever noise came before it and wherever it left the decoder, a frame
\* that is sent whole after a silence is the code received last, from its
\* last data bit on.
DecodesFrames == code # NoFrame /\ Len(togo) <= 1 /\ ~Pending => last = code

\* A code that arrives while main handles the one before is not lost: with no
\* code ready, the one main took last is the one received last.
TakesNewest == ~rdy /\ pc # "read" => got = last

\* "sleep until any interrupt": a code that becomes ready behind main's back,
\* just before it sleeps, is still printed, or a newer one in its place.
PrintsCodes == rdy ~> (pc = "print" /\ got = last)

=============================================================================
