------------------------------ MODULE Semaphore ------------------------------
(***************************************************************************)
(* What a semaphore promises to the threads that share it.  A unit that is *)
(* released goes to the thread that has waited longest, or is counted when *)
(* nobody waits; a thread waits only when there is no unit.  A wait ends   *)
(* with a unit or with a time-out, never with both, and whoever has been   *)
(* given a unit returns with it.  The count is an unsigned number that     *)
(* wraps at MOD.                                                           *)
(***************************************************************************)
EXTENDS Naturals, Sequences

CONSTANTS Threads, MOD

VARIABLES count,    \* units nobody has taken
          waiting,  \* the waiting threads, in the order of arrival
          granted,  \* threads that were given a unit while they waited
          expired   \* threads whose wait has timed out

Init == count = 0 /\ waiting = <<>> /\ granted = {} /\ expired = {}

(* Thread t has called rt_sem_take and not yet returned. *)
Pending(t) ==
  t \in granted \cup expired \/ \E i \in 1 .. Len(waiting) : waiting[i] = t

Take(t) ==
  /\ ~Pending(t) /\ count > 0
  /\ count' = count - 1
  /\ UNCHANGED <<waiting, granted, expired>>

Wait(t) ==
  /\ ~Pending(t) /\ count = 0
  /\ waiting' = Append(waiting, t)
  /\ UNCHANGED <<count, granted, expired>>

Release ==
  \/ /\ waiting = <<>>
     /\ count' = (count + 1) % MOD
     /\ UNCHANGED <<waiting, granted, expired>>
  \/ /\ waiting # <<>>
     /\ waiting' = Tail(waiting)
     /\ granted' = granted \cup {Head(waiting)}
     /\ UNCHANGED <<count, expired>>

(* The time limit of the thread at place i passes. *)
Expire(i) ==
  /\ waiting' = [j \in 1 .. Len(waiting) - 1 |-> waiting[IF j < i THEN j ELSE j + 1]]
  /\ expired' = expired \cup {waiting[i]}
  /\ UNCHANGED <<count, granted>>

Return(t) ==
  /\ t \in granted
  /\ granted' = granted \ {t}
  /\ UNCHANGED <<count, waiting, expired>>

GiveUp(t) ==
  /\ t \in expired
  /\ expired' = expired \ {t}
  /\ UNCHANGED <<count, waiting, granted>>

Next ==
  \/ \E t \in Threads : Take(t) \/ Wait(t) \/ Return(t) \/ GiveUp(t)
  \/ \E i \in 1 .. Len(waiting) : Expire(i)
  \/ Release

Spec == Init /\ [][Next]_<<count, waiting, granted, expired>>
=============================================================================
