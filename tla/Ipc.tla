---------------------------------- MODULE Ipc ----------------------------------
(***************************************************************************)
(* The wait lists of the IPC objects (ipc.c): how a thread is put on the   *)
(* suspend list of an object and how it is taken off. Semaphores, mutexes  *)
(* and events are built from these and from the kernel core.               *)
(***************************************************************************)
EXTENDS Kernel

Flag == {"FIFO", "PRIO"}              \* RT_IPC_FLAG_FIFO, RT_IPC_FLAG_PRIO

Forever == -1                         \* RT_WAITING_FOREVER
NoWait == 0                           \* RT_WAITING_NO

\* mutant: the comparison is turned round
WaitPositionReversed(s, w, t) ==
  LET behind(x) == s.prio[x] < s.prio[t]
      found == SelectInSeq(s.wait[w], behind)
  IN  IF found = 0 THEN Len(s.wait[w]) + 1 ELSE found

\* In order of priority, behind the waiters of equal priority.
WaitPosition(s, w, t) ==
  LET behind(x) == s.prio[t] < s.prio[x]
      found == SelectInSeq(s.wait[w], behind)
  IN  IF found = 0 THEN Len(s.wait[w]) + 1 ELSE found

WaitInsert(s, w, t, flag) ==
  [s EXCEPT !.wait[w] = IF flag = "FIFO" THEN Append(s.wait[w], t)
                        ELSE InsertAt(s.wait[w], WaitPosition(s, w, t), t)]

IpcListSuspend(s, w, t, flag) == WaitInsert(SuspendThread(s, t), w, t, flag)

\* How every blocking call of ipc.c waits: the error says interrupted until
\* somebody wakes the thread, and a positive timeout arms the thread's timer.
Block(s, w, t, flag, timeout) ==
  LET suspended == IpcListSuspend([s EXCEPT !.error[t] = "EINTR"], w, t, flag)
  IN  IF timeout > 0 THEN TimerStart(suspended, t, timeout) ELSE suspended

\* mutant: the error is not reset
WakeSilent(s, w, error) == ResumeThread(s, Head(s.wait[w]))

\* Wake the first waiter with the given error.
Wake(s, w, error) ==
  LET t == Head(s.wait[w]) IN ResumeThread([s EXCEPT !.error[t] = error], t)

IpcListResume(s, w) == Wake(s, w, "EOK")

\* Wake them all, in the order of the list.
IpcListResumeAll(s, w) ==
  FoldLeft(LAMBDA r, t : ResumeThread([r EXCEPT !.error[t] = "ERROR"], t),
           s, s.wait[w])

=============================================================================
