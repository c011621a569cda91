\* Two threads of one priority, one above them, one between that does not use the bus.
CONSTANTS
  low1 = low1
  low2 = low2
  mid = mid
  high = high
  idle = idle
  Threads = {low1, low2, mid, high, idle}
  Users = {low1, low2, high}
  Sliced = {low1, low2}
  Sleepers = {high, mid, low1}
  Priorities = {0, 1, 2, 3}
  init_priority <- MCPriority
  started <- MCStarted
  NULL = NULL
SPECIFICATION FairSpec
INVARIANTS
  BusExclusive
  TableSound
  OnlyLent
  Lent
  HighestRuns
PROPERTIES
  IsFifoLock
  EveryoneServed
