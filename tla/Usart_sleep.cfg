CONSTANTS
  idle = idle
  a = a
  b = b
  Thread <- Three
  Idle <- idle
  PrioMax = 3
  WaitList <- Lists
  TickMod = 7
  InitTick <- Slices
  Delays = {2}
  NewPrio = {}
  Mortal <- NoThread
  MaxNest = 0
  Started <- Three
  InitPrio <- Prios
  Raced = {}
  Timeouts <- NowOneOrForever
  EventFlag = "PRIO"
  Bit <- TwoBits
  Requests <- AllAndAny
  Sends <- OneOrBoth
  PoolSize = 2
  ByThread = {"x"}
  ByIsr = {"y"}
  Retried <- LowerIsTimed
  Size = 2
  Lwm = 1
  Waiter = a
  Periodics <- OneThread
  RbSize = 4
  LineMax = 1
  UartDelay = 1
  Lives <- JustUsart
SPECIFICATION ServicesSpec
INVARIANTS
  SleepsAfterDelay
