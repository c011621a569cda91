------------------------------- MODULE BusLock -------------------------------
(***************************************************************************)
(* The lock of the I2C bus: rt_i2c_transfer takes a kernel mutex without a *)
(* time limit, drives the bus and releases the mutex.  The mutex lends its *)
(* owner the priority of a thread that comes to wait for it, and is handed *)
(* over in the order of arrival.                                           *)
(*                                                                         *)
(* The kernel is the one of Sched with its time abstracted: the time slice *)
(* of the current thread may be over and a sleep may end at any moment.    *)
(* Threads sleep between transfers, and SCL_H sleeps in the middle of one  *)
(* while a chip holds the clock line.  A transfer does not begin another,  *)
(* so the mutex is never taken twice by its owner.                         *)
(***************************************************************************)
EXTENDS ReadyTable

CONSTANTS
  Threads, idle,   \* all threads; the idle thread
  Users,           \* threads that use the bus
  Sleepers,        \* threads that sleep between transfers
  Sliced,          \* threads that may run to the end of their time slice
  Priorities,      \* 0 .. RT_THREAD_PRIORITY_MAX - 1
  init_priority,   \* of every thread
  started,         \* the ready threads when the main thread has started them and exits
  NULL             \* RT_NULL

ASSUME BusLockAssumption ==
  /\ Priorities \subseteq Nat
  /\ idle \in Threads /\ NULL \notin Threads
  /\ Users \subseteq Threads \ {idle} /\ Sleepers \subseteq Threads \ {idle}
  /\ init_priority \in [Threads -> Priorities]
  /\ \A t \in Threads \ {idle} : init_priority[t] < init_priority[idle]
  /\ started \in [Priorities -> Seq(Threads)]
  /\ \A p \in Priorities, t \in Threads :
       In(t, started[p]) <=> t # idle /\ p = init_priority[t]
  /\ \A p \in Priorities : \A i, j \in 1 .. Len(started[p]) :
       started[p][i] = started[p][j] => i = j

VARIABLES
  sched,             \* the scheduler's state (see ReadyTable)
  value, owner, hold, original_priority, \* fields of bus->lock
  suspend_thread,    \* the threads that wait for it, in the order of arrival
  pc,                \* where a thread is in rt_i2c_transfer, or asleep
  contenders         \* auxiliary: those that came after the owner got the lock

mutex == <<value, owner, hold, original_priority, suspend_thread, contenders>>
vars  == <<sched, mutex, pc>>

NO_PRIORITY == 255   \* 0xFF

(* The main thread has exited; rt_mutex_init has set up the lock. *)
Init ==
  /\ sched = Schedule([current   |-> idle,
                       stat      |-> [t \in Threads |-> IF t = idle THEN "RUNNING" ELSE "READY"],
                       yield     |-> {},
                       prio      |-> init_priority,
                       table     |-> started,
                       group     |-> {p \in Priorities : started[p] # <<>>},
                       lock_nest |-> 0])
  /\ value = 1 /\ owner = NULL /\ hold = 0 /\ original_priority = NO_PRIORITY
  /\ suspend_thread = <<>> /\ contenders = {}
  /\ pc = [t \in Threads |-> "run"]

-----------------------------------------------------------------------------
Runs(t, place) == sched.current = t /\ pc[t] = place

Goto(t, place) == pc' = [pc EXCEPT ![t] = place]

(* rt_schedule, by the current thread in the course of a call. *)
CallSchedule(t) ==
  /\ \/ Runs(t, "sched") /\ Goto(t, "run")
     \/ Runs(t, "take_sched") /\ Goto(t, "take_ret")
     \/ Runs(t, "sleep_sched") /\ Goto(t, "run")
     \/ Runs(t, "xfer_sched") /\ Goto(t, "xfer")
  /\ sched' = Schedule(sched)
  /\ UNCHANGED mutex

(* rt_mutex_take: the mutex is available. *)
Take(t) ==
  /\ Runs(t, "run") /\ t \in Users /\ value > 0
  /\ value' = value - 1
  /\ owner' = t /\ hold' = hold + 1 /\ original_priority' = sched.prio[t]
  /\ Goto(t, "xfer")
  /\ UNCHANGED <<sched, suspend_thread, contenders>>

(* Mutant: the owner is not lent a priority. *)
InheritNot(s, t) == s

(* The owner gets the priority of t if that is higher. *)
Inherit(s, t) ==
  IF s.prio[t] < s.prio[owner] THEN ChangePriority(s, owner, s.prio[t]) ELSE s

(* The mutex is not available: the thread is suspended, whatever time it   *)
(* takes; rt_schedule follows.                                             *)
TakeWait(t) ==
  /\ Runs(t, "run") /\ t \in Users /\ value = 0
  /\ sched' = LET s == Inherit(sched, t) IN SetStat(RemoveThread(s, t), t, "SUSPEND")
  /\ suspend_thread' = Append(suspend_thread, t)
  /\ contenders' = contenders \cup {t}
  /\ Goto(t, "take_sched")
  /\ UNCHANGED <<value, owner, hold, original_priority>>

(* rt_mutex_take returns: the mutex has been handed over. *)
TakeReturn(t) ==
  /\ Runs(t, "take_ret")
  /\ Goto(t, "xfer")
  /\ UNCHANGED <<sched, mutex>>

(* Mutant: the owner keeps the priority it was lent. *)
RestoreNot(s) == s

(* The owner gets its own priority back. *)
Restore(s) ==
  IF original_priority # s.prio[owner] THEN ChangePriority(s, owner, original_priority) ELSE s

(* Mutant: the mutex is only made available. *)
HandOverFree(next) ==
  /\ value' = value + 1 /\ owner' = NULL /\ hold' = 0 /\ original_priority' = NO_PRIORITY

(* The mutex goes to thread next. *)
HandOver(next) ==
  /\ owner' = next /\ original_priority' = sched.prio[next] /\ hold' = hold
  /\ UNCHANGED value

(* Mutant: the last one to arrive is served first. *)
FirstLast == suspend_thread[Len(suspend_thread)]

(* The thread that has waited longest. *)
First == Head(suspend_thread)

(* rt_mutex_release: the transfer is over.  hold goes down to 0; with      *)
(* waiting threads it goes up again for the new owner, which is resumed,   *)
(* and rt_schedule follows.                                                *)
Release(t) ==
  /\ Runs(t, "xfer") /\ owner = t /\ hold = 1
  /\ contenders' = {}
  /\ IF suspend_thread # <<>>
     THEN /\ HandOver(First)
          /\ suspend_thread' = Without(suspend_thread, First)
          /\ sched' = InsertThread(Restore(sched), First)
          /\ Goto(t, "sched")
     ELSE /\ value' = value + 1 /\ owner' = NULL /\ hold' = 0
          /\ original_priority' = NO_PRIORITY
          /\ sched' = Restore(sched)
          /\ Goto(t, "run")
          /\ UNCHANGED suspend_thread

(* A thread sleeps: between transfers, or in SCL_H. *)
Sleep(t) ==
  /\ \/ Runs(t, "run") /\ t \in Sleepers /\ Goto(t, "sleep_sched")
     \/ Runs(t, "xfer") /\ Goto(t, "xfer_sched")
  /\ sched' = SetStat(RemoveThread(sched, t), t, "SUSPEND")
  /\ UNCHANGED mutex

-----------------------------------------------------------------------------
(* The clock interrupt: the time slice of the current thread is over. *)
SliceEnd ==
  /\ sched.current \in Sliced
  /\ sched' = Schedule([sched EXCEPT !.yield = @ \cup {sched.current}])
  /\ UNCHANGED <<mutex, pc>>

(* Mutant: rt_schedule is not called. *)
WakeUpQuiet(t) ==
  /\ sched.stat[t] = "SUSPEND" /\ ~In(t, suspend_thread)
  /\ sched' = InsertThread(sched, t)
  /\ UNCHANGED <<mutex, pc>>

(* rt_thread_timeout: a thread has slept long enough. *)
WakeUp(t) ==
  /\ sched.stat[t] = "SUSPEND" /\ ~In(t, suspend_thread)
  /\ sched' = Schedule(InsertThread(sched, t))
  /\ UNCHANGED <<mutex, pc>>

Next ==
  \/ \E t \in Threads : \/ Take(t) \/ TakeWait(t) \/ TakeReturn(t) \/ Release(t)
                      \/ CallSchedule(t) \/ Sleep(t) \/ WakeUp(t)
  \/ SliceEnd

Spec == Init /\ [][Next]_vars

(* A thread that has the processor again and again gets on with its        *)
(* transfer (a chip holds the clock line for a limited time), and every    *)
(* sleep ends.                                                             *)
FairSpec ==
  /\ Spec
  /\ \A t \in Users : SF_vars(CallSchedule(t)) /\ WF_vars(WakeUp(t))
  /\ SF_vars(\E t \in Users : TakeReturn(t)) /\ SF_vars(\E t \in Users : Release(t))

-----------------------------------------------------------------------------
(* Type invariant. *)
TypeOK ==
  /\ sched.current \in Threads
  /\ sched.stat \in [Threads -> {"READY", "RUNNING", "SUSPEND"}]
  /\ sched.yield \subseteq Threads
  /\ sched.prio \in [Threads -> Priorities]
  /\ sched.table \in [Priorities -> Seq(Threads)]
  /\ sched.group \subseteq Priorities
  /\ value \in 0 .. 1 /\ hold \in 0 .. 1 /\ owner \in Threads \cup {NULL}
  /\ original_priority \in Priorities \cup {NO_PRIORITY}
  /\ suspend_thread \in Seq(Threads) /\ contenders \subseteq Threads
  /\ pc \in [Threads -> {"run", "sched", "take_sched", "take_ret", "sleep_sched",
                         "xfer", "xfer_sched"}]

(* One transfer at a time: a thread that drives the bus owns the lock and  *)
(* holds it once; the lock is free when it has no owner, and nobody waits  *)
(* for a free lock; the owner is not itself waiting.                       *)
BusExclusive ==
  /\ \A t \in Threads : pc[t] \in {"xfer", "xfer_sched"} => t = owner
  /\ owner = NULL <=> value = 1
  /\ hold = 1 - value
  /\ suspend_thread # <<>> => owner # NULL
  /\ ~In(owner, suspend_thread)
  /\ owner # NULL => pc[owner] \in {"xfer", "xfer_sched", "take_sched", "take_ret"}

(* The ready table stays sound although priorities change under threads    *)
(* that run, are ready, sleep or are about to call rt_schedule.            *)
TableSound == Sound(sched, Threads, Priorities)

(* No thread that waits for the processor is overtaken by another one of   *)
(* its priority, although priorities change while threads are ready.       *)
ReadyInOrder == [][InOrder(sched, sched', Priorities)]_vars

(* A thread has another priority than its own only while it owns the lock  *)
(* and a thread of that priority waits for it; the lock remembers the      *)
(* owner's own.                                                            *)
OnlyLent ==
  /\ \A t \in Threads :
       sched.prio[t] # init_priority[t] =>
         t = owner /\ \E i \in 1 .. Len(suspend_thread) :
                        sched.prio[suspend_thread[i]] = sched.prio[t]
  /\ owner # NULL => original_priority = init_priority[owner]

(* No thread that found the lock taken outranks the owner it found.        *)
Lent == \A t \in contenders : sched.prio[owner] <= sched.prio[t]

(* The thread that executes its own code is one of the highest priority    *)
(* among those that are ready, also right after a priority went down.      *)
HighestRuns ==
  \A t \in Threads :
    Runs(t, "run") \/ Runs(t, "xfer") =>
      /\ sched.stat[t] = "RUNNING"
      /\ \A u \in Threads : sched.stat[u] = "READY" => sched.prio[t] <= sched.prio[u]

(* Threads that drive the bus, and threads that rt_mutex_release has       *)
(* passed it to and that have not got on.                                  *)
Driving == {t \in Threads : pc[t] \in {"xfer", "xfer_sched"}}

Passed == {t \in Threads : /\ pc[t] \in {"take_sched", "take_ret"}
                           /\ ~In(t, suspend_thread)}

(* What the threads see of the mutex, wherever they are preempted, is a    *)
(* lock that serves them one at a time in the order of their arrival.      *)
Fifo == INSTANCE FifoLock WITH using <- Driving, granted <- Passed, line <- suspend_thread

IsFifoLock == Fifo!Spec

(* If no ready thread is kept from the processor for ever, every thread    *)
(* that waits for the bus gets it.                                         *)
EveryoneServed ==
  (\A t \in Users : []<>(sched.stat[t] # "READY")) =>
    \A t \in Users : In(t, suspend_thread) ~> pc[t] = "xfer"
=============================================================================
