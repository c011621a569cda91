-------------------------------- MODULE Sched --------------------------------
(***************************************************************************)
(* The scheduler, the thread timers, the clock and the semaphore of the    *)
(* kernel, on one processor.                                               *)
(*                                                                         *)
(* The current thread makes kernel calls.  A call that blocks suspends the *)
(* thread with interrupts disabled, enables them again and then calls      *)
(* rt_schedule: in between the clock and device interrupts find a          *)
(* suspended thread that is still the current one.  One action is one      *)
(* stretch of code that no interrupt can split.                            *)
(*                                                                         *)
(* The clock interrupt (SysTick, priority 0) may also fall between the two *)
(* stretches of the device interrupt (UART, priority 1) that releases the  *)
(* semaphore, never the other way round; no thread runs before both have   *)
(* returned.  While rt_timer_check goes through the timers nothing else    *)
(* happens.                                                                *)
(***************************************************************************)
EXTENDS ReadyTable, FiniteSets

CONSTANTS
  Threads,         \* all threads
  idle, Main,      \* the idle thread and the main thread
  Priorities,      \* 0 .. RT_THREAD_PRIORITY_MAX - 1
  init_priority,   \* of every thread
  init_tick,       \* time slice of every thread
  Calls,           \* calls a thread may make: <<thread, function, argument>>
  RT_TICK_MAX,     \* the largest value of rt_tick
  MaxUnits,        \* bound: units released and not yet taken
  MaxNest          \* bound: depth of rt_enter_critical

FOREVER == -1      \* RT_WAITING_FOREVER
Half == RT_TICK_MAX \div 2
Ticks == 0 .. RT_TICK_MAX

ASSUME SchedAssumption ==
  /\ RT_TICK_MAX \in Nat /\ RT_TICK_MAX >= 4 /\ MaxUnits \in Nat /\ MaxNest \in Nat
  /\ Priorities \subseteq Nat
  /\ IsFiniteSet(Threads) /\ idle \in Threads /\ Main \in Threads \ {idle}
  /\ init_priority \in [Threads -> Priorities]
  /\ \A t \in Threads \ {idle} : init_priority[t] < init_priority[idle]
  /\ init_tick \in [Threads -> Nat \ {0}]
  /\ \A c \in Calls : c[2] = "sleep" => c[3] \in 0 .. Half - 1
  /\ \A c \in Calls : c[1] # idle

VARIABLES
  sched,          \* the scheduler's state (see ReadyTable)
  rt_tick,        \* the clock
  remaining_tick, \* what is left of the time slice of every thread
  rt_timer_list,  \* the running thread timers, by their threads
  timeout_tick,   \* rt_timer.timeout_tick of the timer of every thread
  activated,      \* the threads whose timer has RT_TIMER_FLAG_ACTIVATED
  value,          \* of the semaphore
  suspend_thread, \* the threads that wait for it
  error,          \* rt_thread.error
  pc,             \* where a thread is in its kernel call
  checking,       \* rt_timer_check is running
  irq,            \* the device interrupt is about to call rt_schedule
  due,            \* auxiliary: ticks until the timer of a thread must end
  units           \* auxiliary: units released and not yet taken

timers == <<rt_timer_list, timeout_tick, activated, due>>
clock  == <<rt_tick, remaining_tick, checking>>
sem    == <<value, suspend_thread, units>>
vars   == <<sched, clock, timers, sem, error, pc, irq>>

RT_EOK      == "EOK"
RT_ETIMEOUT == "ETIMEOUT"

(* rtthread_startup: the main thread and the idle thread are started, then *)
(* the scheduler picks the main thread.                                    *)
Init ==
  /\ sched = [current   |-> Main,
              stat      |-> [t \in Threads |-> IF t = Main THEN "RUNNING"
                                               ELSE IF t = idle THEN "READY" ELSE "INIT"],
              yield     |-> {},
              prio      |-> init_priority,
              table     |-> [p \in Priorities |-> IF p = init_priority[idle] THEN <<idle>>
                                                  ELSE <<>>],
              group     |-> {init_priority[idle]},
              lock_nest |-> 0]
  /\ rt_tick = 0 /\ remaining_tick = init_tick /\ checking = FALSE
  /\ rt_timer_list = <<>> /\ timeout_tick = [t \in Threads |-> 0] /\ activated = {}
  /\ due = [t \in Threads |-> 0]
  /\ value = 0 /\ suspend_thread = <<>> /\ units = 0
  /\ error = [t \in Threads |-> RT_EOK]
  /\ pc = [t \in Threads |-> "run"]
  /\ irq = FALSE

-----------------------------------------------------------------------------
(* Thread timers                                                           *)

(* The difference of two ticks, an unsigned number. *)
Diff(x, y) == (x - y) % (RT_TICK_MAX + 1)

(* Mutant: the ticks are compared as numbers. *)
LaterNoWrap(x, y) == x > y

(* rt_timer_start: the timer at x ends after the new one, at y. *)
Later(x, y) == Diff(x, y) # 0 /\ Diff(x, y) < Half

(* The list q with the timer of t, which ends at x: before the first one   *)
(* that ends later, or last.  The skip list has one level                  *)
(* (RT_TIMER_SKIP_LIST_LEVEL).                                             *)
InsertTimer(q, t, x) ==
  LET after == {i \in 1 .. Len(q) : Later(timeout_tick[q[i]], x)}
      at    == IF after = {} THEN Len(q) + 1
               ELSE CHOOSE i \in after : \A j \in after : i <= j
  IN  SubSeq(q, 1, at - 1) \o <<t>> \o SubSeq(q, at, Len(q))

(* rt_timer_control(SET_TIME) and rt_timer_start for the timer of t. *)
TimerStart(t, n) ==
  LET x == (rt_tick + n) % (RT_TICK_MAX + 1)
  IN  /\ rt_timer_list' = InsertTimer(Without(rt_timer_list, t), t, x)
      /\ timeout_tick' = [timeout_tick EXCEPT ![t] = x]
      /\ activated' = activated \cup {t}
      /\ due' = [due EXCEPT ![t] = IF n = 0 THEN 1 ELSE n]

(* Mutant: rt_thread_resume leaves the timer running. *)
TimerKept(t) == UNCHANGED timers

(* The tick of a timer that does not run is not read by anyone; it is 0.   *)
Forget(t) ==
  /\ activated' = activated \ {t}
  /\ timeout_tick' = [timeout_tick EXCEPT ![t] = 0]
  /\ due' = [due EXCEPT ![t] = 0]

(* rt_timer_stop *)
TimerStop(t) ==
  /\ rt_timer_list' = IF t \in activated THEN Without(rt_timer_list, t) ELSE rt_timer_list
  /\ Forget(t)

-----------------------------------------------------------------------------
(* Calls of the current thread                                             *)

(* Thread t executes its own code: it is the current thread and no         *)
(* interrupt is being served.                                              *)
Runs(t, place) ==
  /\ sched.current = t /\ pc[t] = place
  /\ ~checking /\ ~irq

Calling(t, f, x) == Runs(t, "run") /\ <<t, f, x>> \in Calls

Goto(t, place) == pc' = [pc EXCEPT ![t] = place]

(* rt_schedule, by the current thread, in the course of a call. *)
CallSchedule(t) ==
  /\ \E from \in {"sched", "sleep_sched", "take_sched"} :
       /\ Runs(t, from)
       /\ Goto(t, CASE from = "sched" -> "run" [] from = "sleep_sched" -> "sleep_ret"
                    [] from = "take_sched" -> "take_ret")
  /\ sched' = Schedule(sched)
  /\ UNCHANGED <<clock, timers, sem, error, irq>>

(* rt_thread_startup for a thread u; rt_schedule follows. *)
Startup(t, u) ==
  /\ Calling(t, "startup", u) /\ sched.stat[u] = "INIT"
  /\ sched' = InsertThread(SetPriority(sched, u, init_priority[u]), u)
  /\ Goto(t, "sched")
  /\ UNCHANGED <<clock, timers, sem, error, irq>>

(* rt_thread_exit; no thread exits with the scheduler locked. *)
Exit(t) ==
  /\ Calling(t, "exit", 0) /\ sched.lock_nest = 0
  /\ sched' = LET gone == SetStat(RemoveThread(sched, t), t, "CLOSE")
              IN  Schedule([gone EXCEPT !.yield = @ \ {t}])
  /\ rt_timer_list' = Without(rt_timer_list, t) /\ Forget(t)
  /\ Goto(t, "gone")
  /\ UNCHANGED <<clock, sem, error, irq>>

(* rt_thread_yield *)
Yield(t) ==
  /\ Calling(t, "yield", 0)
  /\ Goto(t, "sched")
  /\ UNCHANGED <<sched, clock, timers, sem, error, irq>>

(* rt_thread_suspend, for the current thread. *)
Suspend(t) == sched' = SetStat(RemoveThread(sched, t), t, "SUSPEND")

(* rt_thread_sleep: suspend, start the timer; rt_schedule follows. *)
Sleep(t, n) ==
  /\ Calling(t, "sleep", n) /\ sched.lock_nest = 0
  /\ Suspend(t)
  /\ TimerStart(t, n)
  /\ Goto(t, "sleep_sched")
  /\ UNCHANGED <<clock, sem, error, irq>>

SleepReturn(t) ==
  /\ Runs(t, "sleep_ret")
  /\ error' = [error EXCEPT ![t] = RT_EOK]
  /\ Goto(t, "run")
  /\ UNCHANGED <<sched, clock, timers, sem, irq>>

(* rt_enter_critical and rt_exit_critical *)
EnterCritical(t) ==
  /\ Calling(t, "critical", 0) /\ sched.lock_nest < MaxNest
  /\ sched' = [sched EXCEPT !.lock_nest = @ + 1]
  /\ UNCHANGED <<clock, timers, sem, error, pc, irq>>

(* Mutant: the last one does not reschedule. *)
ExitCriticalQuiet(t) ==
  /\ Runs(t, "run") /\ sched.lock_nest > 0
  /\ sched' = [sched EXCEPT !.lock_nest = @ - 1]
  /\ UNCHANGED <<clock, timers, sem, error, pc, irq>>

ExitCritical(t) ==
  /\ Runs(t, "run") /\ sched.lock_nest > 0
  /\ sched' = [sched EXCEPT !.lock_nest = @ - 1]
  /\ Goto(t, IF sched.lock_nest = 1 THEN "sched" ELSE "run")
  /\ UNCHANGED <<clock, timers, sem, error, irq>>

(* rt_sem_take: a unit is there. *)
Take(t, n) ==
  /\ Calling(t, "take", n) /\ value > 0
  /\ value' = value - 1 /\ units' = units - 1
  /\ UNCHANGED <<sched, clock, timers, suspend_thread, error, pc, irq>>

(* Mutant: the last one to arrive is served first. *)
QueuedFirst(t) == <<t>> \o suspend_thread

(* rt_ipc_list_suspend: the wait list with t, in the order of arrival. *)
Queued(t) == Append(suspend_thread, t)

(* There is none and time is zero: -RT_ETIMEOUT, nothing changes.          *)
(* Otherwise the thread is suspended; rt_schedule follows.                 *)
TakeWait(t, n) ==
  /\ Calling(t, "take", n) /\ value = 0 /\ n # 0 /\ sched.lock_nest = 0
  /\ error' = [error EXCEPT ![t] = RT_EOK]
  /\ Suspend(t)
  /\ suspend_thread' = Queued(t)
  /\ IF n = FOREVER THEN TimerStop(t) ELSE TimerStart(t, n)
  /\ Goto(t, "take_sched")
  /\ UNCHANGED <<clock, value, units, irq>>

(* rt_sem_take returns, with a unit or with an error. *)
TakeReturn(t) ==
  /\ Runs(t, "take_ret")
  /\ units' = IF error[t] = RT_EOK THEN units - 1 ELSE units
  /\ Goto(t, "run")
  /\ UNCHANGED <<sched, clock, timers, value, suspend_thread, error, irq>>

(* rt_sem_release without its rt_schedule: the unit goes to the first      *)
(* waiting thread, which rt_thread_resume makes ready, or to the value.    *)
ReleaseUnit ==
  /\ units < MaxUnits
  /\ units' = units + 1
  /\ IF suspend_thread # <<>>
     THEN /\ sched' = InsertThread(sched, Head(suspend_thread))
          /\ suspend_thread' = Tail(suspend_thread)
          /\ TimerStop(Head(suspend_thread))
          /\ UNCHANGED value
     ELSE /\ value' = value + 1
          /\ UNCHANGED <<sched, suspend_thread, timers>>

Release(t) ==
  /\ Calling(t, "release", 0)
  /\ ReleaseUnit
  /\ Goto(t, IF suspend_thread # <<>> THEN "sched" ELSE "run")
  /\ UNCHANGED <<clock, error, irq>>

-----------------------------------------------------------------------------
(* Interrupts                                                              *)

(* A received byte: finsh_rx_ind releases the semaphore of the shell. *)
IsrRelease ==
  /\ ~checking /\ ~irq
  /\ ReleaseUnit
  /\ irq' = (suspend_thread # <<>>)
  /\ UNCHANGED <<clock, error, pc>>

IsrSchedule ==
  /\ irq /\ ~checking
  /\ sched' = Schedule(sched)
  /\ irq' = FALSE
  /\ UNCHANGED <<clock, timers, sem, error, pc>>

(* Mutant: the end of a time slice does not ask the thread to yield. *)
SliceEndQuiet(s, t) == Schedule(s)

(* The time slice of the current thread t is over. *)
SliceEnd(s, t) == Schedule([s EXCEPT !.yield = @ \cup {t}])

(* The time slice of t when n ticks were left of it. *)
Reload(t, n) == IF n = 1 THEN init_tick[t] ELSE n - 1

(* Mutant: the timers are not checked when a time slice ends. *)
TickElse ==
  LET t == sched.current
  IN  /\ ~checking
      /\ rt_tick' = (rt_tick + 1) % (RT_TICK_MAX + 1)
      /\ remaining_tick' = [remaining_tick EXCEPT ![t] = Reload(t, @)]
      /\ sched' = IF remaining_tick[t] = 1 THEN SliceEnd(sched, t) ELSE sched
      /\ checking' = (remaining_tick[t] # 1)
      /\ UNCHANGED <<timers, sem, error, pc, irq>>

(* rt_tick_increase up to rt_timer_check. *)
Tick ==
  LET t == sched.current
  IN  /\ ~checking
      /\ rt_tick' = (rt_tick + 1) % (RT_TICK_MAX + 1)
      /\ remaining_tick' = [remaining_tick EXCEPT ![t] = Reload(t, @)]
      /\ sched' = IF remaining_tick[t] = 1 THEN SliceEnd(sched, t) ELSE sched
      /\ checking' = TRUE
      /\ due' = [u \in Threads |-> IF In(u, rt_timer_list) /\ due[u] > 0 THEN due[u] - 1
                                   ELSE due[u]]
      /\ UNCHANGED <<rt_timer_list, timeout_tick, activated, sem, error, pc, irq>>

(* The first timer of the list has run out. *)
Expired == rt_timer_list # <<>> /\ Diff(rt_tick, timeout_tick[Head(rt_timer_list)]) < Half

(* Mutant: the thread stays in the list of the semaphore. *)
LeaveListNot(t) == suspend_thread

LeaveList(t) == Without(suspend_thread, t)

(* One turn of the loop of rt_timer_check: rt_thread_timeout.              *)
FireTimer ==
  /\ checking /\ Expired
  /\ LET t == Head(rt_timer_list)
     IN  /\ rt_timer_list' = Tail(rt_timer_list)
         /\ activated' = activated \ {t}
         /\ timeout_tick' = [timeout_tick EXCEPT ![t] = 0]
         /\ error' = [error EXCEPT ![t] = RT_ETIMEOUT]
         /\ suspend_thread' = LeaveList(t)
         /\ sched' = Schedule(InsertThread(sched, t))
  /\ UNCHANGED <<clock, due, value, units, pc, irq>>

CheckDone ==
  /\ checking /\ ~Expired
  /\ checking' = FALSE
  /\ UNCHANGED <<sched, rt_tick, remaining_tick, timers, sem, error, pc, irq>>

-----------------------------------------------------------------------------
(* What the kernel does once a call has been made. *)
Kernel(t) == CallSchedule(t) \/ SleepReturn(t) \/ TakeReturn(t)

Call(t) ==
  \/ \E u \in Threads : Startup(t, u)
  \/ Exit(t) \/ Yield(t) \/ EnterCritical(t) \/ Release(t)
  \/ \E n \in FOREVER .. Half - 1 : Sleep(t, n) \/ Take(t, n) \/ TakeWait(t, n)

Next ==
  \/ \E t \in Threads : Kernel(t) \/ Call(t) \/ ExitCritical(t)
  \/ IsrRelease \/ IsrSchedule \/ Tick \/ FireTimer \/ CheckDone

Spec == Init /\ [][Next]_vars

(* The clock ticks on, an interrupt ends, and between interrupts the       *)
(* current thread gets on with its kernel call and, if it has locked the   *)
(* scheduler, to unlocking it.  Nothing is assumed of threads otherwise.   *)
FairSpec ==
  /\ Spec
  /\ WF_vars(Tick) /\ WF_vars(FireTimer \/ CheckDone) /\ SF_vars(IsrSchedule)
  /\ SF_vars(\E t \in Threads : Kernel(t)) /\ SF_vars(\E t \in Threads : ExitCritical(t))

-----------------------------------------------------------------------------
Stages == {"run", "sched", "sleep_sched", "sleep_ret", "take_sched", "take_ret", "gone"}

(* Type invariant. *)
TypeOK ==
  /\ sched.current \in Threads
  /\ sched.stat \in [Threads -> {"INIT", "READY", "RUNNING", "SUSPEND", "CLOSE"}]
  /\ sched.yield \subseteq Threads
  /\ sched.prio = init_priority
  /\ sched.table \in [Priorities -> Seq(Threads)]
  /\ sched.group \subseteq Priorities
  /\ sched.lock_nest \in 0 .. MaxNest
  /\ rt_tick \in Ticks /\ timeout_tick \in [Threads -> Ticks]
  /\ remaining_tick \in [Threads -> Nat \ {0}]
  /\ rt_timer_list \in Seq(Threads) /\ activated \subseteq Threads
  /\ value \in 0 .. MaxUnits /\ units \in 0 .. MaxUnits
  /\ suspend_thread \in Seq(Threads)
  /\ error \in [Threads -> {RT_EOK, RT_ETIMEOUT}]
  /\ pc \in [Threads -> Stages]
  /\ checking \in BOOLEAN /\ irq \in BOOLEAN
  /\ due \in [Threads -> 0 .. Half]

(* The ready table, the states of the threads and the wait list agree,     *)
(* also while interrupts find the current thread suspended: a thread is in *)
(* one list at most, and one that waits for the semaphore is suspended.    *)
TableSound ==
  /\ Sound(sched, Threads, Priorities)
  /\ \A i, j \in 1 .. Len(suspend_thread) : suspend_thread[i] = suspend_thread[j] => i = j
  /\ \A t \in Threads : In(t, suspend_thread) =>
       sched.stat[t] = "SUSPEND" /\ pc[t] \in {"take_sched", "take_ret"}

(* A thread executes its own code only when no ready thread has a higher   *)
(* priority, unless it has locked the scheduler.                           *)
HighestRuns ==
  \A t \in Threads :
    Runs(t, "run") /\ sched.lock_nest = 0 =>
      /\ sched.stat[t] = "RUNNING"
      /\ \A u \in Threads : sched.stat[u] = "READY" => sched.prio[t] <= sched.prio[u]

(* Round robin is fair: whoever calls the scheduler, a thread or one of    *)
(* the interrupts, a thread that waits for the processor is not overtaken  *)
(* by another one of its priority.                                         *)
ReadyInOrder == [][InOrder(sched, sched', Priorities)]_vars

(* rt_thread_timeout asserts that its thread is suspended: no timer is     *)
(* left running when its thread is resumed by something else.              *)
NoStaleTimer ==
  /\ \A t \in Threads : In(t, rt_timer_list) <=> t \in activated
  /\ \A t \in activated : sched.stat[t] = "SUSPEND"

Runnable(t) == sched.stat[t] \in {"READY", "RUNNING"}

(* A wait ends at its tick, not before and not later, over the wrap of the *)
(* clock: what rt_timer_check sees as expired is what is due, no timer is  *)
(* overdue once it is done, and a thread that has timed out has waited its *)
(* time.                                                                   *)
OnTime ==
  /\ \A i, j \in 1 .. Len(rt_timer_list) : i < j => due[rt_timer_list[i]] <= due[rt_timer_list[j]]
  /\ checking /\ rt_timer_list # <<>> => (Expired <=> due[Head(rt_timer_list)] = 0)
  /\ ~checking => \A t \in activated : due[t] > 0
  /\ \A t \in Threads :
       \/ pc[t] \in {"take_sched", "take_ret"} /\ error[t] = RT_ETIMEOUT
       \/ pc[t] \in {"sleep_sched", "sleep_ret"} /\ Runnable(t)
       => due[t] = 0

(* Threads that rt_sem_release has handed a unit and that have not yet     *)
(* returned from rt_sem_take.                                              *)
Handed == {t \in Threads : /\ pc[t] \in {"take_sched", "take_ret"}
                           /\ sched.stat[t] # "SUSPEND" /\ error[t] = RT_EOK}

(* No unit is lost or doubled when a time limit, a release by a thread and *)
(* a release by an interrupt meet; nobody waits while there is a unit.     *)
UnitsConserved ==
  /\ units = value + Cardinality(Handed)
  /\ value > 0 => suspend_thread = <<>>

(* Threads whose wait for a unit has timed out, before they return.        *)
TimedOut == {t \in Threads : /\ pc[t] \in {"take_sched", "take_ret"}
                             /\ sched.stat[t] # "SUSPEND" /\ error[t] = RT_ETIMEOUT}

(* What the threads see is a semaphore, although a thread that was given a *)
(* unit or has timed out returns only when it gets the processor again.    *)
Sem == INSTANCE Semaphore WITH
  count <- value, waiting <- suspend_thread, granted <- Handed, expired <- TimedOut,
  MOD <- MaxUnits + 1

IsSemaphore == Sem!Spec

(* Every sleep and every wait with a time limit ends. *)
WaitsEnd ==
  \A t \in Threads : t \in activated ~> t \notin activated

(* Time slices: a ready thread does not wait for ever while no thread of   *)
(* higher priority can run.                                                *)
TimeSliced ==
  \A t \in Threads :
    ~<>[](/\ sched.stat[t] = "READY"
          /\ \A u \in Threads : sched.prio[u] < sched.prio[t] => ~Runnable(u))
=============================================================================
