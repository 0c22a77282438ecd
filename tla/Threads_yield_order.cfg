CONSTANTS
  idle = idle
  a = a
  b = b
  c = c
  Thread <- Four
  Idle <- idle
  PrioMax = 2
  WaitList <- NoWaitList
  TickMod = 3
  InitTick <- Slices
  Delays = {}
  NewPrio = {}
  Mortal <- NoThread
  MaxNest = 0
  Started <- Four
  InitPrio <- Peers
  Raced = {}
SPECIFICATION Spec
PROPERTIES
  SliceUsedGoesLast
