CONSTANTS
  idle = idle
  a = a
  b = b
  c = c
  Thread <- Three
  Idle <- idle
  PrioMax = 3
  WaitList <- NoWaitList
  TickMod = 5
  InitTick <- Slices
  Delays = {1}
  NewPrio = {}
  Mortal <- OneMortal
  MaxNest = 0
  Started <- Three
  InitPrio <- Prios
  Raced = {"delete"}
SPECIFICATION Spec
INVARIANTS
  ClosedThreadOffQueue
