\* All threads may wait for ever on a full or an empty queue.
CHECK_DEADLOCK FALSE
SPECIFICATION FairSpec
CONSTANTS
  t1 = t1
  t2 = t2
  t3 = t3
  Threads = {t1, t2, t3}
  Calls <- MCCalls
  Cells = {c1, c2}
  Msgs = {a, b}
  NoMsg = NoMsg
  NULL = NULL
INVARIANTS
  ListsIntact
  CellsAccounted
  NoLostWakeup
PROPERTIES
  NoneOverslept
  IsBoundedQueue
