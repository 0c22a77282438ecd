CONSTANTS
  idle = idle
  a = a
  b = b
  m1 = m1
  m2 = m2
  m3 = m3
  Thread <- Three
  Idle <- idle
  PrioMax = 3
  WaitList <- Both
  TickMod = 5
  InitTick <- Slices
  None = None
  HoldMax = 1
  Depth = 4
  Timeouts <- OneOrForever
  Users <- JustBoth
  Ceilings = {}
  Full <- NoMutex
  Mortal <- NoThread
  Sleeper <- AandB
  Delays = {1}
  AnySleep = TRUE
  InitPrio <- Prios
SPECIFICATION Spec
INVARIANTS
  OnlyTakersWait
