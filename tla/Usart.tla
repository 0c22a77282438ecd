--------------------------------- MODULE Usart ---------------------------------
(***************************************************************************)
(* The UART driver of the board (usart.c): the receive interrupt fills a   *)
(* ring buffer and a command line; a command that enters a power mode      *)
(* first sleeps, in the interrupt handler, as if it were a thread. SysTick *)
(* has a lower priority and does not interrupt the handler.                *)
(***************************************************************************)
EXTENDS Waiting, RingBuffer

CONSTANTS
  LineMax,      \* UART_CMD_BUFFER_SIZE - 1, 63 in the code
  UartDelay     \* the ticks of rt_thread_mdelay(100)

ASSUME UsartAssumption == LineMax \in Nat /\ UartDelay \in 1 .. TickHalf - 1

VARIABLES
  rx,       \* uart->rx_rb
  line      \* uart_cmd_buffer up to uart_cmd_pos

uvars == <<rx, line>>

\* What a byte is does not matter to the ring buffer: the model stores one
\* and the same, and property RingIsByteQueue puts others in.
ByteOf(ch) == 0

\* The character P stands for one of the four commands that enter a power
\* mode, X for any other; END is CR or LF, DEL a backspace.
Char == {"P", "X", "END", "DEL"}

\* The handler is in rt_thread_mdelay, about to enter the power mode, in it.
UartIsr == {"uart_delay", "uart_enter", "uart_asleep"}

-----------------------------------------------------------------------------
(* uart_irq_handler, uart_handle_char, uart_process_command *)

IsPowerCommand(cmd) == cmd # <<>> /\ Head(cmd) = "P"

\* mutant: a full command line goes on growing
LineUnbounded(ch) ==
  IF ch = "END" THEN <<>>
  ELSE IF ch # "DEL" THEN Append(line, ch)
  ELSE IF line = <<>> THEN line ELSE Front(line)

LineAfter(ch) ==
  IF ch = "END" THEN <<>>
  ELSE IF ch # "DEL" THEN IF Len(line) < LineMax THEN Append(line, ch) ELSE line
  ELSE IF line = <<>> THEN line ELSE Front(line)

UartReceive ==
  /\ IsrCalls("usart")
  /\ \E ch \in Char :
       /\ rx' = PutCharForce(rx, ByteOf(ch))
       /\ line' = LineAfter(ch)
       /\ isr' = IF ch = "END" /\ IsPowerCommand(line) THEN "uart_delay" ELSE isr
  /\ UNCHANGED <<k, pc, wvars>>

\* rt_thread_sleep in the handler: the thread it has interrupted is
\* suspended, unless it is suspended already, and the call returns at once.
UartMdelay ==
  /\ isr = "uart_delay"
  /\ LET t == k.cur
         suspended == Suspended(k, t)
         armed == [TimerStart(suspended, t, UartDelay) EXCEPT !.error[t] = "EINTR"]
     IN  k' = IF suspended.stat[t] # k.stat[t] THEN Schedule(armed) ELSE suspended
  /\ isr' = "uart_enter"
  /\ UNCHANGED <<pc, wvars, uvars>>

\* board_enter_sleep and its like: external, wait for an interrupt.
EnterPowerMode ==
  /\ isr = "uart_enter"
  /\ isr' = "uart_asleep"
  /\ UNCHANGED <<k, pc, wvars, uvars>>

LeavePowerMode ==
  /\ isr = "uart_asleep"
  /\ isr' = "none"
  /\ UNCHANGED <<k, pc, wvars, uvars>>

-----------------------------------------------------------------------------
(* rt_uart_read *)

UartRead(t) ==
  /\ Calls(t, "usart")
  /\ \E n \in 1 .. RbSize : rx' = RingGet(rx, n)
  /\ UNCHANGED <<k, isr, pc, wvars, line>>

-----------------------------------------------------------------------------
UsartNext ==
  \/ UartReceive \/ UartMdelay \/ EnterPowerMode \/ LeavePowerMode
  \/ \E t \in Thread : UartRead(t)

\* rt_ringbuffer_init
UsartInit ==
  /\ rx = [buf |-> [i \in RingIndex |-> ByteOf("X")],
           ri |-> 0, rm |-> FALSE, wi |-> 0, wm |-> FALSE]
  /\ line = <<>>

UsartTypeOK ==
  /\ rx \in Ring({ByteOf("X")})
  /\ line \in Seq({"P", "X"}) /\ Len(line) <= LineMax
-----------------------------------------------------------------------------
(* Properties *)

\* In every state the interrupt and the reader drive the indices to, the ring
\* buffer is a queue of bytes: in order, none lost before it is full, and the
\* oldest overwritten after. The bytes in it and put to it are all different.
RingIsByteQueue ==
  LET rb == [rx EXCEPT !.buf = [i \in RingIndex |-> i]] IN
  \A n \in 0 .. RbSize + 1 :
    ActsAsQueue(rb, [i \in 1 .. n |-> RbSize + i])

\* "Ensure message is sent before sleeping" (usart.c:37): the power mode is
\* entered when the delay is over. Here only the handler starts timers.
SleepsAfterDelay == isr = "uart_asleep" => k.timers = <<>>

=============================================================================
