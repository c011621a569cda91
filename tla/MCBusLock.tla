------------------------------ MODULE MCBusLock ------------------------------
(* Two threads of one priority (STAT and LED) and one of a higher priority *)
(* (the shell) use the bus; a fourth, in between (RFID), does not.         *)
EXTENDS BusLock

CONSTANTS low1, low2, mid, high

MCPriority ==
  [t \in Threads |-> CASE t = high -> 0 [] t = mid -> 1 [] t = idle -> 3 [] OTHER -> 2]

MCStarted == [p \in Priorities |-> CASE p = 0 -> <<high>> [] p = 1 -> <<mid>>
                                     [] p = 2 -> <<low1, low2>> [] OTHER -> <<>>]
=============================================================================
