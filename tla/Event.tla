--------------------------------- MODULE Event ---------------------------------
(***************************************************************************)
(* The events of ipc.c: a set of flags, and threads that wait for all or   *)
(* any of some flags and may clear what they receive.                      *)
(***************************************************************************)
EXTENDS Waiting

CONSTANTS
  EventFlag,    \* RT_IPC_FLAG_FIFO or RT_IPC_FLAG_PRIO
  Bit,          \* the flags of the instance, of 32 in the code
  Requests,     \* what rt_event_recv is asked for: set, and, clear
  Sends         \* the sets rt_event_send is given

ASSUME EventAssumption ==
  /\ EventFlag \in Flag
  /\ Requests \subseteq [set : (SUBSET Bit) \ {{}}, and : BOOLEAN, clear : BOOLEAN]
  /\ Sends \subseteq (SUBSET Bit) \ {{}}

VARIABLES
  set,        \* event->set
  info        \* thread->event_set and event_info, read while a thread waits

evars == <<set, info>>

EventPC == {"recv_sched", "recv_return", "event_test", "event_wake"}

Nothing == [set |-> {}, and |-> FALSE, clear |-> FALSE]

Satisfied(r, s) == IF r.and THEN r.set \subseteq s ELSE r.set \cap s # {}

Without(r, s) == IF r.clear THEN s \ r.set ELSE s

-----------------------------------------------------------------------------
(* rt_event_send. One waiter after the other is looked at, in the order of *)
(* the list; each may take away flags the next one waits for.              *)

\* mutant: what a receiver clears stays set for the next one
VisitKeeps(r, t) ==
  LET got == [r.info[t] EXCEPT !.set = @ \cap r.set] IN
  IF ~Satisfied(r.info[t], r.set) THEN r
  ELSE [k |-> [ResumeThread(r.k, t) EXCEPT !.error[t] = "EOK"],
        set |-> r.set, info |-> [r.info EXCEPT ![t] = got]]

Visit(r, t) ==
  LET got == [r.info[t] EXCEPT !.set = @ \cap r.set] IN
  IF ~Satisfied(r.info[t], r.set) THEN r
  ELSE [k |-> [ResumeThread(r.k, t) EXCEPT !.error[t] = "EOK"],
        set |-> Without(got, r.set), info |-> [r.info EXCEPT ![t] = got]]

Sent(flags) ==
  FoldLeft(Visit, [k |-> k, set |-> set \cup flags, info |-> info],
           k.wait["event"])

EventSend(t) ==
  /\ Calls(t, "event")
  /\ \E flags \in Sends :
       LET r == Sent(flags) IN
       /\ k' = r.k /\ set' = r.set /\ info' = r.info
       /\ Goto(t, IF r.k = k THEN "run" ELSE "sched")
  /\ UNCHANGED <<isr, wvars>>

IsrEventSend ==
  /\ IsrCalls("event")
  /\ \E flags \in Sends :
       LET r == Sent(flags) IN
       /\ k' = IF r.k = k THEN k ELSE Schedule(r.k)
       /\ set' = r.set /\ info' = r.info
  /\ UNCHANGED <<isr, pc, wvars>>

-----------------------------------------------------------------------------
(* rt_event_recv. event_set and event_info are dead once the call returns; *)
(* the model forgets them there.                                           *)

RecvNow(t) ==
  /\ Calls(t, "event")
  /\ \E r \in Requests :
       /\ Satisfied(r, set)
       /\ info' = [info EXCEPT ![t] = [r EXCEPT !.set = @ \cap set]]
       /\ set' = Without(r, set)
  /\ k' = [k EXCEPT !.error[t] = "EOK"]
  /\ Goto(t, "recv_return")
  /\ UNCHANGED <<isr, wvars>>

RecvRefused(t) ==
  /\ Calls(t, "event")
  /\ NoWait \in Timeouts /\ \E r \in Requests : ~Satisfied(r, set)
  /\ k' = [k EXCEPT !.error[t] = "ETIMEOUT"]
  /\ Goto(t, "recv_return")
  /\ UNCHANGED <<isr, wvars, evars>>

RecvWait(t) ==
  /\ Calls(t, "event")
  /\ \E r \in Requests : ~Satisfied(r, set) /\ info' = [info EXCEPT ![t] = r]
  /\ \E timeout \in Timeouts \ {NoWait} :
       k' = Block(k, "event", t, EventFlag, timeout)
  /\ Goto(t, "recv_sched")
  /\ UNCHANGED <<isr, set, wvars>>

RecvSchedule(t) ==
  ScheduleIn(t, "recv_sched", "recv_return") /\ UNCHANGED <<wvars, evars>>

\* thread->error, and thread->event_set as the flags received.
RecvReturn(t) ==
  /\ At(t, "recv_return")
  /\ info' = [info EXCEPT ![t] = Nothing]
  /\ Back(t)
  /\ UNCHANGED <<isr, set, wvars>>

-----------------------------------------------------------------------------
(* rt_event_control(RESET); rt_event_detach and rt_event_delete *)

EventReset(t) ==
  /\ Calls(t, "event")
  /\ k' = IpcListResumeAll(k, "event")
  /\ set' = {}
  /\ Goto(t, "sched")
  /\ UNCHANGED <<isr, info, wvars>>

EventDetach(t) ==
  /\ Calls(t, "event")
  /\ live' = live \ {"event"}
  /\ Goto(t, "event_test")
  /\ UNCHANGED <<k, isr, left, evars>>

EventDrain(t) ==
  /\ \/ DrainTest(t, "event", "event_test", "event_wake", "run")
     \/ DrainWake(t, "event", "event_test", "event_wake")
  /\ UNCHANGED <<wvars, evars>>

-----------------------------------------------------------------------------
EventStep(t) ==
  \/ EventSend(t) \/ RecvNow(t) \/ RecvRefused(t) \/ RecvWait(t)
  \/ RecvSchedule(t) \/ RecvReturn(t)
  \/ EventReset(t) \/ EventDetach(t) \/ EventDrain(t)

EventNext == IsrEventSend \/ \E t \in Thread : EventStep(t)

EventInit == set = {} /\ info = [t \in Thread |-> Nothing]

EventTypeOK ==
  /\ set \subseteq Bit
  /\ info \in [Thread -> [set : SUBSET Bit, and : BOOLEAN, clear : BOOLEAN]]
-----------------------------------------------------------------------------
(* Properties *)

\* Where a thread's rt_event_recv is.
RecvCall(t) ==
  IF Waits(t, "event") THEN [at |-> "waiting", request |-> info[t]]
  ELSE IF pc[t] \notin {"recv_sched", "recv_return"} THEN [at |-> "none"]
  ELSE IF k.error[t] = "EOK" THEN [at |-> "granted", got |-> info[t].set]
  ELSE IF Failed(t) THEN [at |-> "refused"]
  ELSE [at |-> "none"]

Group == INSTANCE EventGroup
         WITH flags <- set, call <- [t \in Thread |-> RecvCall(t)]

\* The event implements the abstract event group: however sends that wake
\* several threads, receivers that clear, timeouts, resets and a detach
\* interleave, no flag is lost or received by two that clear it, nobody waits
\* for flags that are there, and nobody returns without a cause.
IsEventGroup == Group!Spec

=============================================================================
