\* Two threads of one priority, one above them, idle; one unlimited and one timed wait.
CONSTANTS
  a = a
  b = b
  c = c
  idle = idle
  Main = a
  Threads = {a, b, c, idle}
  Priorities = {0, 1, 2}
  init_priority <- MCPriority
  init_tick <- MCSlice
  Calls <- MCCalls
  RT_TICK_MAX = 7
  MaxUnits = 2
  MaxNest = 1
SPECIFICATION FairSpec
INVARIANTS
  TableSound
  HighestRuns
  NoStaleTimer
  OnTime
  UnitsConserved
PROPERTIES
  ReadyInOrder
  IsSemaphore
  WaitsEnd
  TimeSliced
