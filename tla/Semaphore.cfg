CONSTANTS
  idle = idle
  a = a
  b = b
  Thread <- Three
  Idle <- idle
  PrioMax = 3
  WaitList <- OneList
  TickMod = 5
  InitTick <- Slices
  SemFlag = "PRIO"
  MaxValue = 1
  InitValues <- Values
  Timeouts <- NowOneOrForever
  Resets = {0}
  Detaches = TRUE
  NewPrio = {1}
  InitPrio <- Prios
SPECIFICATION FairSpec
INVARIANTS
  TypeOK
  NoWaitWhileFree
  TimersOnlyForWaiters
PROPERTIES
  IsCountingSemaphore
  TakeReturns
