CONSTANTS
  idle = idle
  a = a
  b = b
  c = c
  Thread <- Three
  Idle <- idle
  PrioMax = 3
  WaitList <- NoWaitList
  TickMod = 7
  InitTick <- Slices
  Delays = {1, 2}
  NewPrio = {0, 1}
  Mortal <- OneMortal
  MaxNest = 1
  Started <- Three
  InitPrio <- Prios
  Raced = {}
SPECIFICATION Spec
INVARIANTS
  TypeOK
  NoTimerOverdue
  NodeWhereStateSays
  BitmapMatchesQueues
  HighestPriorityRuns
