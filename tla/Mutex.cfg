CONSTANTS
  idle = idle
  a = a
  b = b
  m1 = m1
  m2 = m2
  m3 = m3
  Thread <- Three
  Idle <- idle
  PrioMax = 3
  WaitList <- AllMutexes
  TickMod = 5
  InitTick <- Slices
  None = None
  HoldMax = 2
  Depth = 4
  Timeouts <- All
  Users <- OneOrBoth
  Ceilings = {0}
  Full <- One
  Mortal <- AandB
  Sleeper <- JustB
  Delays = {1}
  AnySleep = FALSE
  InitPrio <- Prios
SPECIFICATION Spec
INVARIANTS
  TypeOK
  QueuedByPriority
  NoInversion
  OnlyTakersWait
PROPERTIES
  IsLock
