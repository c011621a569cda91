------------------------------- MODULE MCSched -------------------------------
(* The main thread a and the thread b share a priority, c has a higher     *)
(* one.  The clock wraps after eight ticks.                                *)
EXTENDS Sched

CONSTANTS a, b, c

MCPriority == [t \in Threads |-> IF t = c THEN 0 ELSE IF t = idle THEN 2 ELSE 1]
MCSlice == [t \in Threads |-> IF t = a THEN 2 ELSE 1]

MCCalls ==
  {<<a, "startup", b>>, <<a, "startup", c>>, <<a, "release", 0>>, <<a, "critical", 0>>,
   <<b, "yield", 0>>, <<b, "take", FOREVER>>, <<b, "sleep", 1>>, <<b, "exit", 0>>,
   <<c, "take", 2>>}
=============================================================================
