------------------------------ MODULE FifoLock ------------------------------
(***************************************************************************)
(* What the lock of the bus promises to the threads that use it: one uses  *)
(* the bus at a time, a thread that finds it taken stands in line, and     *)
(* whoever leaves passes the bus to the first in line, which enters when   *)
(* it gets to run.  Until then nobody else can enter.                      *)
(***************************************************************************)
EXTENDS Naturals, Sequences

CONSTANT Threads

VARIABLES using,    \* threads that use the bus
          granted,  \* threads that were passed the bus and have not entered
          line      \* the threads in line, in the order of arrival

Init == using = {} /\ granted = {} /\ line = <<>>

Free == using = {} /\ granted = {}

Standing(t) == \E i \in 1 .. Len(line) : line[i] = t

Acquire(t) ==
  /\ Free
  /\ using' = {t}
  /\ UNCHANGED <<granted, line>>

Join(t) ==
  /\ ~Free /\ t \notin using \cup granted /\ ~Standing(t)
  /\ line' = Append(line, t)
  /\ UNCHANGED <<using, granted>>

Enter(t) ==
  /\ t \in granted
  /\ granted' = granted \ {t}
  /\ using' = using \cup {t}
  /\ UNCHANGED line

Leave(t) ==
  /\ t \in using /\ line = <<>>
  /\ using' = using \ {t}
  /\ UNCHANGED <<granted, line>>

Pass(t) ==
  /\ t \in using /\ line # <<>>
  /\ using' = using \ {t}
  /\ granted' = granted \cup {Head(line)}
  /\ line' = Tail(line)

Next == \E t \in Threads : Acquire(t) \/ Join(t) \/ Enter(t) \/ Leave(t) \/ Pass(t)

Spec == Init /\ [][Next]_<<using, granted, line>>
=============================================================================
