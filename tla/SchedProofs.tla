----------------------------- MODULE SchedProofs -----------------------------
(***************************************************************************)
(* Proofs about the scheduler, the thread timers and the semaphore, for    *)
(* any threads, priorities, time slices and calls and any range of the     *)
(* clock.  Inv is inductive: Table is about the ready table, Flow about    *)
(* where threads are in their calls, Placed about the thread that has the  *)
(* processor, Waits about the semaphore and Timers about the timer list.   *)
(***************************************************************************)
EXTENDS Sched, ReadyTableProofs, FiniteSetTheorems

BeforeSchedule == {"sched", "sleep_sched", "take_sched"}
Taking   == {"take_sched", "take_ret"}
Sleeping == {"sleep_sched", "sleep_ret"}

TableOf(s) ==
  /\ s \in States(Threads, Priorities) /\ Sound(s, Threads, Priorities)
  /\ s.prio = init_priority /\ s.lock_nest <= MaxNest
  /\ s.stat[idle] \in {"READY", "RUNNING"}

Table == TableOf(sched)

Flow ==
  /\ pc \in [Threads -> Stages] /\ irq \in BOOLEAN
  /\ remaining_tick \in [Threads -> Nat \ {0}]
  /\ \A t \in Threads : sched.stat[t] = "SUSPEND" => pc[t] \in Taking \cup Sleeping
  /\ \/ sched.stat[sched.current] = "RUNNING"
     \/ /\ sched.stat[sched.current] = "SUSPEND" /\ sched.lock_nest = 0
        /\ pc[sched.current] \in {"sleep_sched", "take_sched"}
  /\ sched.lock_nest # 0 => pc[sched.current] \in {"run", "sched"}

Highest(s) ==
  \A u \in Threads : s.stat[u] = "READY" => s.prio[s.current] <= s.prio[u]

Placed ==
  pc[sched.current] \notin BeforeSchedule /\ ~irq /\ sched.lock_nest = 0 => Highest(sched)

Waits ==
  /\ suspend_thread \in Seq(Threads) /\ Distinct(suspend_thread)
  /\ error \in [Threads -> {RT_EOK, RT_ETIMEOUT}]
  /\ \A t \in Threads : In(t, suspend_thread) =>
       sched.stat[t] = "SUSPEND" /\ pc[t] \in Taking /\ error[t] = RT_EOK
  /\ \A t \in Threads : sched.stat[t] = "SUSPEND" /\ pc[t] \in Taking => In(t, suspend_thread)
  /\ value \in Nat /\ units \in 0 .. MaxUnits
  /\ UnitsConserved

(* x is the tick d ticks after tick n, once around the clock at most.      *)
Fwd(n, d) == IF n + d <= RT_TICK_MAX THEN n + d ELSE n + d - RT_TICK_MAX - 1

(* A timer that ends at x, d ticks after now; one started with no time at  *)
(* all ends at the next tick nevertheless.  chk: the clock has moved on    *)
(* and the timers are being checked.                                       *)
EndsAt(now, x, d, chk) ==
  \/ x = Fwd(now, d)
  \/ chk /\ d = 0 /\ now = Fwd(x, 1)
  \/ ~chk /\ d = 1 /\ x = now

Ordered(q, d) == \A i, j \in 1 .. Len(q) : i < j => d[q[i]] <= d[q[j]]

Timers ==
  /\ rt_timer_list \in Seq(Threads) /\ Distinct(rt_timer_list)
  /\ activated \in SUBSET Threads /\ checking \in BOOLEAN
  /\ \A t \in Threads : In(t, rt_timer_list) <=> t \in activated
  /\ \A t \in activated : sched.stat[t] = "SUSPEND"
  /\ rt_tick \in Ticks /\ timeout_tick \in [Threads -> Ticks]
  /\ due \in [Threads -> 0 .. Half - 1]
  /\ \A t \in Threads \ activated : due[t] = 0
  /\ \A t \in activated : EndsAt(rt_tick, timeout_tick[t], due[t], checking)
  /\ ~checking => \A t \in activated : due[t] > 0
  /\ Ordered(rt_timer_list, due)

Inv == Table /\ Flow /\ Placed /\ Waits /\ Timers

-----------------------------------------------------------------------------
(* The clock                                                               *)

(* Half of the clock's range, as rt_timer_check uses it.                   *)
LEMMA HalfOfRange ==
  /\ RT_TICK_MAX \in Nat /\ Half \in Nat /\ Half >= 2 /\ 2 * Half <= RT_TICK_MAX
  BY SchedAssumption DEF Half

(* Remainders of numbers at most one round away.                           *)
LEMMA Remainders ==
  ASSUME NEW N \in Nat \ {0}
  PROVE  /\ \A a \in 0 .. N - 1 : a % N = a
         /\ \A a \in N .. 2 * N - 1 : a % N = a - N
         /\ \A a \in -N .. -1 : a % N = a + N
  <1>1. ASSUME NEW a \in 0 .. N - 1 PROVE a % N = a
    OBVIOUS
  <1>2. ASSUME NEW a \in N .. 2 * N - 1 PROVE a % N = a - N
    OBVIOUS
  <1>3. ASSUME NEW a \in -N .. -1 PROVE a % N = a + N
    OBVIOUS
  <1> QED BY <1>1, <1>2, <1>3

(* The tick n ticks after x.                                               *)
LEMMA Ahead ==
  ASSUME NEW x \in Ticks, NEW n \in 0 .. RT_TICK_MAX
  PROVE  (x + n) % (RT_TICK_MAX + 1) = Fwd(x, n) /\ Fwd(x, n) \in Ticks
  <1>1. RT_TICK_MAX \in Nat
    BY HalfOfRange
  <1>2. CASE x + n <= RT_TICK_MAX
    <2>1. RT_TICK_MAX + 1 \in Nat \ {0} /\ x + n \in 0 .. (RT_TICK_MAX + 1) - 1
      BY <1>1, <1>2 DEF Ticks
    <2>2. (x + n) % (RT_TICK_MAX + 1) = x + n
      BY <2>1, Remainders
    <2> QED BY <1>1, <1>2, <2>2 DEF Ticks, Fwd
  <1>3. CASE ~(x + n <= RT_TICK_MAX)
    <2> DEFINE N == RT_TICK_MAX + 1
               a == x + n
    <2>1. N \in Nat \ {0} /\ a \in N .. 2 * N - 1
      BY <1>1, <1>3 DEF Ticks
    <2> HIDE DEF N, a
    <2>2. a % N = a - N
      BY <2>1, Remainders
    <2> QED BY <1>1, <1>3, <2>2 DEF Ticks, Fwd, N, a
  <1> QED BY <1>2, <1>3

(* The unsigned difference of two ticks.                                   *)
LEMMA Difference ==
  ASSUME NEW x \in Ticks, NEW y \in Ticks
  PROVE  Diff(x, y) = IF x >= y THEN x - y ELSE x - y + RT_TICK_MAX + 1
  <1>1. RT_TICK_MAX \in Nat /\ x \in Int /\ y \in Int
    BY HalfOfRange DEF Ticks
  <1>2. CASE x >= y
    <2>1. RT_TICK_MAX + 1 \in Nat \ {0} /\ x - y \in 0 .. (RT_TICK_MAX + 1) - 1
      BY <1>1, <1>2 DEF Ticks
    <2>2. (x - y) % (RT_TICK_MAX + 1) = x - y
      BY <2>1, Remainders
    <2> QED BY <1>2, <2>2 DEF Diff
  <1>3. CASE ~(x >= y)
    <2>1. RT_TICK_MAX + 1 \in Nat \ {0} /\ x - y \in -(RT_TICK_MAX + 1) .. -1
      BY <1>1, <1>3 DEF Ticks
    <2>2. (x - y) % (RT_TICK_MAX + 1) = x - y + (RT_TICK_MAX + 1)
      BY <2>1, Remainders
    <2> QED BY <1>1, <1>3, <2>2 DEF Diff
  <1> QED BY <1>2, <1>3

(* A tick passes: a timer that runs is one tick nearer to its end.         *)
LEMMA TickPasses ==
  ASSUME NEW now \in Ticks, NEW x \in Ticks, NEW d \in 1 .. Half - 1,
         EndsAt(now, x, d, FALSE)
  PROVE  EndsAt(Fwd(now, 1), x, d - 1, TRUE)
  BY HalfOfRange DEF EndsAt, Fwd, Ticks

(* rt_timer_check sees as expired the timers that are due.                 *)
LEMMA ExpiredIsDue ==
  ASSUME NEW now \in Ticks, NEW x \in Ticks, NEW d \in 0 .. Half - 1,
         EndsAt(now, x, d, TRUE)
  PROVE  Diff(now, x) < Half <=> d = 0
  <1>1. Diff(now, x) = IF now >= x THEN now - x ELSE now - x + RT_TICK_MAX + 1
    BY Difference
  <1>2. CASE x = Fwd(now, d)
    BY <1>1, <1>2, HalfOfRange DEF Fwd, Ticks
  <1>3. CASE d = 0 /\ now = Fwd(x, 1)
    BY <1>1, <1>3, HalfOfRange DEF Fwd, Ticks
  <1> QED BY <1>2, <1>3 DEF EndsAt

(* The check is over: the timers that are left run on.                     *)
LEMMA CheckPasses ==
  ASSUME NEW now \in Ticks, NEW x \in Ticks, NEW d \in 1 .. Half - 1,
         EndsAt(now, x, d, TRUE)
  PROVE  EndsAt(now, x, d, FALSE)
  BY HalfOfRange DEF EndsAt

(* rt_timer_start compares ticks the way the times left compare.           *)
LEMMA LaterIsLonger ==
  ASSUME NEW now \in Ticks, NEW x \in Ticks, NEW d \in 1 .. Half - 1,
         EndsAt(now, x, d, FALSE), NEW n \in 0 .. Half - 1
  PROVE  /\ Later(x, Fwd(now, n)) => d >= (IF n = 0 THEN 1 ELSE n)
         /\ ~Later(x, Fwd(now, n)) => d <= (IF n = 0 THEN 1 ELSE n)
  <1>1. Fwd(now, n) \in Ticks
    BY Ahead, HalfOfRange
  <1> DEFINE y == Fwd(now, n)
  <1>2. Diff(x, y) = IF x >= y THEN x - y ELSE x - y + RT_TICK_MAX + 1
    BY <1>1, Difference
  <1>3. CASE x = Fwd(now, d)
    BY <1>2, <1>3, HalfOfRange DEF Fwd, Ticks, Later
  <1>4. CASE d = 1 /\ x = now
    BY <1>2, <1>4, HalfOfRange DEF Fwd, Ticks, Later
  <1> QED BY <1>3, <1>4 DEF EndsAt

-----------------------------------------------------------------------------
(* Lists                                                                   *)

(* The first thread leaves a list.                                         *)
LEMMA FirstLeaves ==
  ASSUME NEW T, NEW q \in Seq(T), q # <<>>, Distinct(q)
  PROVE  /\ Head(q) \in T /\ In(Head(q), q)
         /\ Tail(q) \in Seq(T) /\ Distinct(Tail(q))
         /\ Len(q) \in Nat \ {0} /\ Head(q) = q[1] /\ Len(Tail(q)) = Len(q) - 1
         /\ \A i \in 1 .. Len(Tail(q)) : Tail(q)[i] = q[i + 1]
         /\ \A u : In(u, Tail(q)) <=> In(u, q) /\ u # Head(q)
  <1> DEFINE r == Tail(q)
  <1>1. /\ r \in Seq(T) /\ Len(r) = Len(q) - 1 /\ Len(q) \in Nat \ {0}
        /\ \A i \in 1 .. Len(r) : r[i] = q[i + 1]
        /\ Head(q) = q[1] /\ Head(q) \in T
    BY HeadTailProperties, EmptySeq, LenProperties
  <1> HIDE DEF r
  <1>2. Distinct(r)
    <2> SUFFICES ASSUME NEW i \in 1 .. Len(r), NEW j \in 1 .. Len(r), r[i] = r[j] PROVE i = j
      BY DEF Distinct
    <2>1. i + 1 \in 1 .. Len(q) /\ j + 1 \in 1 .. Len(q) /\ q[i + 1] = q[j + 1]
      BY <1>1
    <2> QED BY <2>1 DEF Distinct
  <1>3. ASSUME NEW u, In(u, r) PROVE In(u, q) /\ u # q[1]
    <2>1. PICK i \in 1 .. Len(r) : r[i] = u
      BY <1>3 DEF In
    <2>2. i + 1 \in 1 .. Len(q) /\ 1 \in 1 .. Len(q) /\ q[i + 1] = u /\ i + 1 # 1
      BY <1>1, <2>1
    <2> QED BY <2>2 DEF In, Distinct
  <1>4. ASSUME NEW u, In(u, q), u # q[1] PROVE In(u, r)
    <2>1. PICK i \in 1 .. Len(q) : q[i] = u
      BY <1>4 DEF In
    <2>2. i - 1 \in 1 .. Len(r) /\ r[i - 1] = q[(i - 1) + 1] /\ (i - 1) + 1 = i
      BY <1>1, <1>4, <2>1
    <2> QED BY <2>1, <2>2 DEF In
  <1>5. In(q[1], q)
    BY <1>1 DEF In
  <1> QED BY <1>1, <1>2, <1>3, <1>4, <1>5 DEF r

(* A thread is put at a place of a list.                                   *)
PutIn(q, t, at) == SubSeq(q, 1, at - 1) \o <<t>> \o SubSeq(q, at, Len(q))

(* The elements of the list with the thread in it.                         *)
LEMMA PutAt ==
  ASSUME NEW T, NEW q \in Seq(T), NEW t \in T, NEW at \in 1 .. Len(q) + 1
  PROVE  /\ PutIn(q, t, at) \in Seq(T) /\ Len(PutIn(q, t, at)) = Len(q) + 1
         /\ \A j \in 1 .. Len(q) + 1 :
              PutIn(q, t, at)[j] = IF j < at THEN q[j] ELSE IF j = at THEN t ELSE q[j - 1]
  <1> DEFINE n == Len(q)
             f == SubSeq(q, 1, at - 1)
             m == <<t>>
             g == f \o m
             b == SubSeq(q, at, n)
             r == PutIn(q, t, at)
  <1>1. n \in Nat /\ \A i \in 1 .. n : q[i] \in T
    BY LenProperties, ElementOfSeq
  <1>2. f \in Seq(T) /\ Len(f) = at - 1 /\ \A i \in 1 .. at - 1 : f[i] = q[i]
    <2>1. at - 1 \in Int /\ 1 \in Int /\ \A i \in 1 .. at - 1 : q[i] \in T
      BY <1>1
    <2>2. /\ f \in Seq(T) /\ Len(f) = (IF 1 <= at - 1 THEN (at - 1) - 1 + 1 ELSE 0)
          /\ \A i \in 1 .. (at - 1) - 1 + 1 : f[i] = q[1 + i - 1]
      BY <2>1, SubSeqProperties
    <2> HIDE DEF f
    <2> QED BY <1>1, <2>2
  <1>3. b \in Seq(T) /\ Len(b) = n - at + 1 /\ \A i \in 1 .. n - at + 1 : b[i] = q[at + i - 1]
    <2>1. at \in Int /\ n \in Int /\ \A i \in at .. n : q[i] \in T
      BY <1>1
    <2> HIDE DEF n
    <2>2. /\ b \in Seq(T) /\ Len(b) = (IF at <= n THEN n - at + 1 ELSE 0)
          /\ \A i \in 1 .. n - at + 1 : b[i] = q[at + i - 1]
      BY <2>1, SubSeqProperties
    <2>3. at \in 1 .. n + 1
      BY DEF n
    <2> HIDE DEF b
    <2> QED BY <1>1, <2>2, <2>3
  <1>4. m \in Seq(T) /\ Len(m) = 1 /\ m[1] = t
    OBVIOUS
  <1>5. at \in 1 .. n + 1 /\ r = g \o b
    BY DEF PutIn
  <1> HIDE DEF n, f, m, b, r
  <1>6. /\ g \in Seq(T) /\ Len(g) = at
        /\ \A i \in 1 .. at : g[i] = IF i <= at - 1 THEN q[i] ELSE t
    <2>1. /\ g \in Seq(T) /\ Len(g) = Len(f) + Len(m)
          /\ \A i \in 1 .. Len(f) + Len(m) : g[i] = IF i <= Len(f) THEN f[i] ELSE m[i - Len(f)]
      BY <1>2, <1>4, ConcatProperties
    <2> HIDE DEF g
    <2> QED BY <1>1, <1>2, <1>4, <1>5, <2>1
  <1> HIDE DEF g
  <1>7. /\ r \in Seq(T) /\ Len(r) = Len(g) + Len(b)
        /\ \A i \in 1 .. Len(g) + Len(b) : r[i] = IF i <= Len(g) THEN g[i] ELSE b[i - Len(g)]
    BY <1>3, <1>5, <1>6, ConcatProperties
  <1>8. Len(r) = n + 1
    BY <1>1, <1>3, <1>5, <1>6, <1>7
  <1>9. ASSUME NEW j \in 1 .. n + 1
        PROVE  r[j] = IF j < at THEN q[j] ELSE IF j = at THEN t ELSE q[j - 1]
    <2>1. CASE j <= at
      BY <1>1, <1>3, <1>5, <1>6, <1>7, <2>1, SMTT(30)
    <2>2. CASE j > at
      <3>1. j - at \in 1 .. n - at + 1 /\ at + (j - at) - 1 = j - 1
        BY <1>1, <1>5, <2>2
      <3>2. r[j] = b[j - at]
        BY <1>1, <1>3, <1>5, <1>6, <1>7, <2>2, SMTT(30)
      <3>3. b[j - at] = q[at + (j - at) - 1]
        BY <1>3, <3>1
      <3>4. r[j] = q[j - 1]
        BY <3>1, <3>2, <3>3
      <3>5. ~(j < at) /\ j # at
        BY <1>1, <1>5, <2>2
      <3> QED BY <3>4, <3>5
    <2>3. j <= at \/ j > at
      BY <1>1, <1>5
    <2> QED BY <2>1, <2>2, <2>3
  <1> QED BY <1>7, <1>8, <1>9 DEF n, r

(* A thread that is not in a list is put at a place of it.                 *)
LEMMA PutAtJoins ==
  ASSUME NEW T, NEW q \in Seq(T), NEW t \in T, NEW at \in 1 .. Len(q) + 1,
         Distinct(q), ~In(t, q), NEW r \in Seq(T), Len(r) = Len(q) + 1,
         \A j \in 1 .. Len(q) + 1 :
           r[j] = IF j < at THEN q[j] ELSE IF j = at THEN t ELSE q[j - 1]
  PROVE  Distinct(r) /\ \A u : In(u, r) <=> In(u, q) \/ u = t
  <1>1. Len(q) \in Nat
    BY LenProperties
  <1>2. \A i \in 1 .. Len(q) : q[i] # t
    BY DEF In
  <1>3. Distinct(r)
    <2> SUFFICES ASSUME NEW i \in 1 .. Len(r), NEW j \in 1 .. Len(r), r[i] = r[j], i < j
                 PROVE  FALSE
      BY <1>1 DEF Distinct
    <2>1. CASE j < at
      <3>1. i \in 1 .. Len(q) /\ j \in 1 .. Len(q) /\ r[i] = q[i] /\ r[j] = q[j] /\ i # j
        BY <1>1, <2>1
      <3> QED BY <3>1 DEF Distinct
    <2>2. CASE j = at
      BY <1>1, <1>2, <2>2
    <2>3. CASE j > at
      <3>1. j - 1 \in 1 .. Len(q) /\ r[j] = q[j - 1]
        BY <1>1, <2>3
      <3>2. CASE i < at
        <4>1. i \in 1 .. Len(q) /\ r[i] = q[i] /\ i # j - 1
          BY <1>1, <2>3, <3>2
        <4> QED BY <3>1, <4>1 DEF Distinct
      <3>3. CASE i = at
        BY <1>1, <1>2, <3>1, <3>3
      <3>4. CASE i > at
        <4>1. i - 1 \in 1 .. Len(q) /\ r[i] = q[i - 1] /\ i - 1 # j - 1
          BY <1>1, <3>4
        <4> QED BY <3>1, <4>1 DEF Distinct
      <3> QED BY <1>1, <3>2, <3>3, <3>4
    <2> QED BY <1>1, <2>1, <2>2, <2>3
  <1>4. ASSUME NEW u, In(u, r) PROVE In(u, q) \/ u = t
    <2>1. PICK j \in 1 .. Len(q) + 1 : r[j] = u
      BY <1>4 DEF In
    <2>2. CASE j < at
      BY <1>1, <2>1, <2>2 DEF In
    <2>3. CASE j = at
      BY <1>1, <2>1, <2>3
    <2>4. CASE j > at
      <3>1. j - 1 \in 1 .. Len(q) /\ q[j - 1] = u
        BY <1>1, <2>1, <2>4
      <3> QED BY <3>1 DEF In
    <2> QED BY <1>1, <2>2, <2>3, <2>4
  <1>5. ASSUME NEW u, In(u, q) PROVE In(u, r)
    <2>1. PICK i \in 1 .. Len(q) : q[i] = u
      BY <1>5 DEF In
    <2>2. CASE i < at
      BY <1>1, <2>1, <2>2 DEF In
    <2>3. CASE i >= at
      <3>1. i + 1 \in 1 .. Len(r) /\ r[i + 1] = q[(i + 1) - 1] /\ (i + 1) - 1 = i
        BY <1>1, <2>1, <2>3
      <3> QED BY <2>1, <3>1 DEF In
    <2> QED BY <1>1, <2>2, <2>3
  <1>6. In(t, r)
    BY <1>1 DEF In
  <1> QED BY <1>3, <1>4, <1>5, <1>6

-----------------------------------------------------------------------------
(* Parts of steps: the ready table and the flow of the calls               *)

(* rt_schedule, whoever calls it, on the state s it finds.                 *)
LEMMA Rescheduled ==
  ASSUME NEW s, TableOf(s), sched' = Schedule(s),
         pc' \in [Threads -> Stages], irq' \in BOOLEAN,
         remaining_tick' \in [Threads -> Nat \ {0}],
         \A t \in Threads : s.stat[t] = "SUSPEND" => pc'[t] \in Taking \cup Sleeping,
         s.lock_nest # 0 => s.stat[s.current] = "RUNNING" /\ pc'[s.current] \in {"run", "sched"}
  PROVE  /\ Table' /\ Flow' /\ Placed'
         /\ \A t \in Threads : sched'.stat[t] = "SUSPEND" <=> s.stat[t] = "SUSPEND"
  <1> DEFINE r == sched'
  <1>1. Priorities \in SUBSET Nat /\ idle \in Threads
    BY SchedAssumption
  <1>2. /\ s \in States(Threads, Priorities) /\ Sound(s, Threads, Priorities)
        /\ s.stat[idle] \in {"READY", "RUNNING"} /\ s.prio = init_priority
        /\ s.lock_nest <= MaxNest
    BY DEF TableOf
  <1>3. \E u \in Threads : s.stat[u] \in {"READY", "RUNNING"}
    BY <1>1, <1>2
  <1> HIDE DEF r
  <1>4. /\ r \in States(Threads, Priorities) /\ Sound(r, Threads, Priorities)
        /\ r.prio = s.prio /\ r.lock_nest = s.lock_nest
        /\ r.stat = [u \in Threads |->
              IF u = r.current /\ s.stat[u] = "READY" THEN "RUNNING"
              ELSE IF s.stat[u] = "RUNNING" /\ u # r.current THEN "READY"
              ELSE s.stat[u]]
        /\ s.lock_nest # 0 => r = s
        /\ s.lock_nest = 0 => /\ r.stat[r.current] = "RUNNING"
                              /\ \A u \in Threads : r.stat[u] = "READY" =>
                                   s.prio[r.current] <= s.prio[u]
    <2>1. r = Schedule(s)
      BY DEF r
    <2> QED BY <1>1, <1>2, <1>3, <2>1, ScheduleSound
  <1>5. \A t \in Threads : r.stat[t] = "SUSPEND" <=> s.stat[t] = "SUSPEND"
    BY <1>4
  <1>6. r.stat[idle] \in {"READY", "RUNNING"}
    BY <1>1, <1>2, <1>4
  <1>7. TableOf(r)
    BY <1>2, <1>4, <1>6 DEF TableOf
  <1>8. r.stat[r.current] = "RUNNING" /\ (r.lock_nest # 0 => pc'[r.current] \in {"run", "sched"})
    BY <1>4
  <1>9. r.lock_nest = 0 => Highest(r)
    BY <1>4 DEF Highest
  <1>10. Flow'
    BY <1>5, <1>8 DEF Flow, r
  <1> QED BY <1>5, <1>7, <1>9, <1>10 DEF Table, Placed, r

(* The current thread suspends itself.                                     *)
LEMMA Suspends ==
  ASSUME Table, NEW t \in Threads, sched.current = t, t # idle, sched.lock_nest = 0, Suspend(t)
  PROVE  /\ Table' /\ sched'.stat = [sched.stat EXCEPT ![t] = "SUSPEND"]
         /\ sched'.current = t /\ sched'.lock_nest = 0
  <1> DEFINE r == sched'
  <1>1. "SUSPEND" \in Stats \ {"READY"} /\ "SUSPEND" # "RUNNING"
    BY DEF Stats
  <1>2. r = SetStat(RemoveThread(sched, t), t, "SUSPEND")
    BY DEF Suspend
  <1>3. /\ sched \in States(Threads, Priorities) /\ Sound(sched, Threads, Priorities)
        /\ sched.prio = init_priority /\ sched.lock_nest <= MaxNest
        /\ sched.stat[idle] \in {"READY", "RUNNING"}
    BY DEF Table, TableOf
  <1> HIDE DEF r
  <1>4. /\ r \in States(Threads, Priorities) /\ Sound(r, Threads, Priorities)
        /\ r.stat = [sched.stat EXCEPT ![t] = "SUSPEND"]
        /\ r.prio = sched.prio /\ r.current = sched.current /\ r.lock_nest = sched.lock_nest
    BY <1>1, <1>2, <1>3, RemoveSound
  <1>5. sched.stat \in [Threads -> Stats] /\ idle \in Threads
    BY <1>3, SchedAssumption DEF States
  <1>6. TableOf(r)
    BY <1>3, <1>4, <1>5 DEF TableOf
  <1> QED BY <1>4, <1>6 DEF Table, r

(* A thread that is not ready becomes ready; the current one runs on.      *)
LEMMA Inserted ==
  ASSUME NEW s, TableOf(s), NEW t \in Threads, s.stat[t] # "READY"
  PROVE  /\ TableOf(InsertThread(s, t))
         /\ InsertThread(s, t).stat =
              [s.stat EXCEPT ![t] = IF t = s.current THEN "RUNNING" ELSE "READY"]
         /\ InsertThread(s, t).current = s.current
         /\ InsertThread(s, t).lock_nest = s.lock_nest
  <1> DEFINE r == InsertThread(s, t)
  <1>1. /\ s \in States(Threads, Priorities) /\ Sound(s, Threads, Priorities)
        /\ s.prio = init_priority /\ s.lock_nest <= MaxNest
        /\ s.stat[idle] \in {"READY", "RUNNING"}
    BY DEF TableOf
  <1>2. /\ r \in States(Threads, Priorities) /\ Sound(r, Threads, Priorities)
        /\ r.stat = [s.stat EXCEPT ![t] = IF t = s.current THEN "RUNNING" ELSE "READY"]
        /\ r.prio = s.prio /\ r.current = s.current /\ r.lock_nest = s.lock_nest
    BY <1>1, InsertSound
  <1>3. s.stat \in [Threads -> Stats] /\ idle \in Threads
    BY <1>1, SchedAssumption DEF States
  <1> HIDE DEF r
  <1>4. r.stat[idle] \in {"READY", "RUNNING"}
    BY <1>1, <1>2, <1>3
  <1>5. TableOf(r)
    BY <1>1, <1>2, <1>4 DEF TableOf
  <1> QED BY <1>2, <1>5 DEF r

-----------------------------------------------------------------------------
(* Parts of steps: the semaphore and the timers                            *)

(* Nothing happens to the semaphore.                                       *)
LEMMA WaitsKept ==
  ASSUME Waits, UNCHANGED <<value, suspend_thread, units, error>>,
         \A t \in Threads : /\ sched'.stat[t] = "SUSPEND" <=> sched.stat[t] = "SUSPEND"
                            /\ pc'[t] \in Taking <=> pc[t] \in Taking
  PROVE  Waits'
  <1>1. Handed' = Handed
    BY DEF Handed, Taking
  <1>2. UnitsConserved'
    BY <1>1 DEF Waits, UnitsConserved
  <1> QED BY <1>2 DEF Waits

(* Nothing happens to the timers.                                          *)
LEMMA TimersKept ==
  ASSUME Timers, UNCHANGED <<rt_tick, checking, timers>>,
         \A t \in Threads : sched.stat[t] = "SUSPEND" => sched'.stat[t] = "SUSPEND"
  PROVE  Timers'
  BY DEF Timers, timers

(* A list keeps its order when a thread leaves it.                         *)
LEMMA OrderKept ==
  ASSUME NEW q \in Seq(Threads), NEW d, NEW t, Ordered(q, d), Distinct(q)
  PROVE  Ordered(Without(q, t), d)
  <1>1. CASE ~In(t, q)
    BY <1>1 DEF In, Without
  <1>2. CASE In(t, q)
    <2> DEFINE i == CHOOSE j \in 1 .. Len(q) : q[j] = t
               r == Without(q, t)
    <2>1. i \in 1 .. Len(q) /\ Len(q) \in Nat
      BY <1>2, LenProperties DEF In
    <2>2. r = [j \in 1 .. Len(q) - 1 |-> IF j < i THEN q[j] ELSE q[j + 1]]
      BY <1>2 DEF In, Without
    <2> HIDE DEF i, r
    <2>3. Len(r) = Len(q) - 1
      BY <2>1, <2>2
    <2> SUFFICES ASSUME NEW a \in 1 .. Len(r), NEW b \in 1 .. Len(r), a < b
                 PROVE  d[r[a]] <= d[r[b]]
      BY DEF Ordered, r
    <2>4. CASE b < i
      <3>1. a \in 1 .. Len(q) /\ b \in 1 .. Len(q) /\ r[a] = q[a] /\ r[b] = q[b]
        BY <2>1, <2>2, <2>3, <2>4
      <3> QED BY <3>1 DEF Ordered
    <2>5. CASE a < i /\ b >= i
      BY <2>1, <2>2, <2>3, <2>5 DEF Ordered
    <2>6. CASE a >= i
      <3>1. a + 1 \in 1 .. Len(q) /\ b + 1 \in 1 .. Len(q) /\ a + 1 < b + 1
            /\ r[a] = q[a + 1] /\ r[b] = q[b + 1]
        BY <2>1, <2>2, <2>3, <2>6
      <3> QED BY <3>1 DEF Ordered
    <2> QED BY <2>1, <2>3, <2>4, <2>5, <2>6
  <1> QED BY <1>1, <1>2

(* rt_timer_stop, and what rt_thread_exit does with the timer.             *)
LEMMA TimerStops ==
  ASSUME Timers, NEW t \in Threads, Forget(t), UNCHANGED <<rt_tick, checking>>,
         \/ rt_timer_list' = Without(rt_timer_list, t)
         \/ t \notin activated /\ rt_timer_list' = rt_timer_list,
         \A u \in Threads : u # t /\ sched.stat[u] = "SUSPEND" => sched'.stat[u] = "SUSPEND"
  PROVE  Timers'
  <1>1. /\ activated' = activated \ {t} /\ timeout_tick' = [timeout_tick EXCEPT ![t] = 0]
        /\ due' = [due EXCEPT ![t] = 0]
    BY DEF Forget
  <1>2. /\ rt_timer_list' \in Seq(Threads) /\ Distinct(rt_timer_list')
        /\ \A u \in Threads : In(u, rt_timer_list') <=> In(u, rt_timer_list) /\ u # t
    <2>1. rt_timer_list \in Seq(Threads) /\ Distinct(rt_timer_list)
      BY DEF Timers
    <2>2. CASE rt_timer_list' = Without(rt_timer_list, t)
      BY <2>1, <2>2, LeavesList
    <2>3. CASE t \notin activated /\ rt_timer_list' = rt_timer_list
      BY <2>1, <2>3 DEF Timers
    <2> QED BY <2>2, <2>3
  <1>3. Ordered(rt_timer_list', due)
    BY OrderKept DEF Timers
  <1>4. /\ timeout_tick \in [Threads -> Ticks] /\ due \in [Threads -> 0 .. Half - 1]
        /\ 0 \in Ticks /\ 0 \in 0 .. Half - 1
    BY HalfOfRange DEF Timers, Ticks
  <1>5. /\ timeout_tick' \in [Threads -> Ticks] /\ due' \in [Threads -> 0 .. Half - 1]
        /\ \A u \in Threads : u # t => timeout_tick'[u] = timeout_tick[u] /\ due'[u] = due[u]
        /\ due'[t] = 0
    BY <1>1, <1>4
  <1>6. Ordered(rt_timer_list', due')
    <2>1. Len(rt_timer_list') \in Nat /\ \A i \in 1 .. Len(rt_timer_list') :
            rt_timer_list'[i] \in Threads /\ In(rt_timer_list'[i], rt_timer_list')
      BY <1>2, ElementOfSeq, LenProperties DEF In
    <2>2. \A i \in 1 .. Len(rt_timer_list') : rt_timer_list'[i] # t
      BY <1>2, <2>1
    <2> QED BY <1>3, <1>5, <2>1, <2>2 DEF Ordered
  <1>7. \A u \in Threads : In(u, rt_timer_list') <=> u \in activated'
    BY <1>1, <1>2 DEF Timers
  <1>8. \A u \in activated' : /\ u \in activated /\ u # t /\ u \in Threads
                              /\ sched'.stat[u] = "SUSPEND"
    BY <1>1 DEF Timers
  <1>9. \A u \in activated' : EndsAt(rt_tick', timeout_tick'[u], due'[u], checking')
    BY <1>5, <1>8 DEF Timers
  <1>10. ~checking' => \A u \in activated' : due'[u] > 0
    BY <1>5, <1>8 DEF Timers
  <1>11. \A u \in Threads \ activated' : due'[u] = 0
    BY <1>1, <1>5 DEF Timers
  <1> QED BY <1>1, <1>2, <1>5, <1>6, <1>7, <1>8, <1>9, <1>10, <1>11 DEF Timers

(* rt_timer_start finds the place where the list stays ordered by the      *)
(* times left.                                                             *)
LEMMA TimerStarts ==
  ASSUME Timers, ~checking, NEW t \in Threads \ activated, NEW n \in 0 .. Half - 1,
         TimerStart(t, n), UNCHANGED <<rt_tick, checking>>,
         sched'.stat[t] = "SUSPEND",
         \A u \in Threads : sched.stat[u] = "SUSPEND" => sched'.stat[u] = "SUSPEND"
  PROVE  Timers'
  <1> DEFINE q == rt_timer_list
             x == Fwd(rt_tick, n)
             d == IF n = 0 THEN 1 ELSE n
             after == {i \in 1 .. Len(q) : Later(timeout_tick[q[i]], x)}
             at == IF after = {} THEN Len(q) + 1 ELSE CHOOSE i \in after : \A j \in after : i <= j
  <1>1. /\ q \in Seq(Threads) /\ Distinct(q) /\ Len(q) \in Nat
        /\ activated \in SUBSET Threads /\ checking \in BOOLEAN
        /\ \A u \in Threads : In(u, q) <=> u \in activated
        /\ rt_tick \in Ticks /\ timeout_tick \in [Threads -> Ticks]
        /\ due \in [Threads -> 0 .. Half - 1] /\ Ordered(q, due)
    BY LenProperties DEF Timers
  <1>2. ~In(t, q)
    BY <1>1
  <1>3. x = (rt_tick + n) % (RT_TICK_MAX + 1) /\ x \in Ticks
    BY <1>1, Ahead, HalfOfRange
  <1>4. d \in 1 .. Half - 1
    <2>1. Half \in Nat /\ Half >= 2
      BY HalfOfRange
    <2>2. CASE n = 0
      BY <2>1, <2>2
    <2>3. CASE n # 0
      BY <2>1, <2>3
    <2> QED BY <2>2, <2>3
  <1>5. Without(q, t) = q
    BY <1>2 DEF Without, In
  <1>6. /\ rt_timer_list' = PutIn(q, t, at) /\ timeout_tick' = [timeout_tick EXCEPT ![t] = x]
        /\ activated' = activated \cup {t} /\ due' = [due EXCEPT ![t] = d]
    <2>1. /\ rt_timer_list' = InsertTimer(q, t, x) /\ due' = [due EXCEPT ![t] = d]
          /\ timeout_tick' = [timeout_tick EXCEPT ![t] = x] /\ activated' = activated \cup {t}
      <3> HIDE DEF x
      <3> QED BY <1>3, <1>5 DEF TimerStart
    <2>2. InsertTimer(q, t, x) = PutIn(q, t, at)
      BY DEF InsertTimer, PutIn
    <2> QED BY <2>1, <2>2
  <1>7. \A i \in 1 .. Len(q) : /\ q[i] \in Threads /\ In(q[i], q) /\ q[i] \in activated /\ q[i] # t
    BY <1>1, <1>2, ElementOfSeq DEF In
  <1>8. \A i \in 1 .. Len(q) : /\ i \in after => due[q[i]] >= d
                               /\ i \notin after => due[q[i]] <= d
    <2> SUFFICES ASSUME NEW i \in 1 .. Len(q)
                 PROVE  /\ Later(timeout_tick[q[i]], x) => due[q[i]] >= d
                        /\ ~Later(timeout_tick[q[i]], x) => due[q[i]] <= d
      OBVIOUS
    <2>1. /\ q[i] \in Threads /\ timeout_tick[q[i]] \in Ticks /\ due[q[i]] \in 1 .. Half - 1
          /\ EndsAt(rt_tick, timeout_tick[q[i]], due[q[i]], FALSE)
      <3>1. q[i] \in activated /\ q[i] \in Threads
        BY <1>7
      <3>2. due[q[i]] \in 0 .. Half - 1 /\ due[q[i]] > 0 /\ timeout_tick[q[i]] \in Ticks
        BY <1>1, <3>1 DEF Timers
      <3>3. EndsAt(rt_tick, timeout_tick[q[i]], due[q[i]], checking) /\ checking = FALSE
        BY <3>1 DEF Timers
      <3>4. Half \in Nat
        BY HalfOfRange
      <3>5. due[q[i]] \in 1 .. Half - 1
        BY <3>2, <3>4
      <3> QED BY <3>1, <3>2, <3>3, <3>5
    <2> QED BY <1>1, <2>1, LaterIsLonger
  <1>9. /\ at \in 1 .. Len(q) + 1
        /\ \A i \in 1 .. Len(q) : i < at => i \notin after
        /\ at \in 1 .. Len(q) => at \in after
    <2>1. CASE after = {}
      BY <1>1, <2>1
    <2>2. CASE after # {}
      <3> DEFINE S == after
      <3>1. S \in SUBSET Nat /\ S # {} /\ S \subseteq 1 .. Len(q)
        BY <1>1, <2>2
      <3> HIDE DEF S
      <3>2. \E i \in S : \A j \in S : i <= j
        BY <3>1, LeastExists
      <3>3. at = CHOOSE i \in S : \A j \in S : i <= j
        BY <2>2 DEF S
      <3> HIDE DEF at
      <3>4. at \in S /\ \A j \in S : at <= j
        BY <3>2, <3>3
      <3>5. at \in 1 .. Len(q) + 1
        BY <1>1, <3>1, <3>4
      <3>6. \A i \in 1 .. Len(q) : i < at => i \notin S
        BY <1>1, <3>4, <3>5
      <3> QED BY <3>4, <3>5, <3>6 DEF S
    <2> QED BY <2>1, <2>2
  <1> HIDE DEF at, q, x, d, after
  <1> DEFINE r == rt_timer_list'
  <1>10. /\ r \in Seq(Threads) /\ Len(r) = Len(q) + 1
         /\ \A j \in 1 .. Len(q) + 1 :
              r[j] = IF j < at THEN q[j] ELSE IF j = at THEN t ELSE q[j - 1]
    <2>1. r = PutIn(q, t, at) /\ t \in Threads /\ q \in Seq(Threads) /\ at \in 1 .. Len(q) + 1
      BY <1>1, <1>6, <1>9
    <2> HIDE DEF r
    <2>2. /\ PutIn(q, t, at) \in Seq(Threads) /\ Len(PutIn(q, t, at)) = Len(q) + 1
          /\ \A j \in 1 .. Len(q) + 1 : PutIn(q, t, at)[j] =
               IF j < at THEN q[j] ELSE IF j = at THEN t ELSE q[j - 1]
      BY <2>1, PutAt, SMTT(30)
    <2> QED BY <2>1, <2>2
  <1> HIDE DEF r
  <1>11. Distinct(r) /\ \A u : In(u, r) <=> In(u, q) \/ u = t
    <2>1. t \in Threads /\ q \in Seq(Threads) /\ Distinct(q) /\ at \in 1 .. Len(q) + 1
      BY <1>1, <1>9
    <2> QED BY <1>2, <1>10, <2>1, PutAtJoins
  <1>12. /\ timeout_tick' \in [Threads -> Ticks] /\ due' \in [Threads -> 0 .. Half - 1]
         /\ \A u \in Threads : u # t => timeout_tick'[u] = timeout_tick[u] /\ due'[u] = due[u]
         /\ timeout_tick'[t] = x /\ due'[t] = d
    BY <1>1, <1>3, <1>4, <1>6
  <1>13. ASSUME NEW i \in 1 .. Len(r), NEW j \in 1 .. Len(r), i < j
         PROVE  due'[r[i]] <= due'[r[j]]
    <2>1. \A k \in 1 .. Len(q) : due'[q[k]] = due[q[k]] /\ due[q[k]] \in 0 .. Half - 1
      BY <1>1, <1>7, <1>12 DEF q
    <2>2. Half \in Nat /\ d \in Nat
      BY <1>4, HalfOfRange
    <2>3. CASE j < at
      <3>1. i \in 1 .. Len(q) /\ j \in 1 .. Len(q) /\ r[i] = q[i] /\ r[j] = q[j]
        <4>1. Len(q) \in Nat /\ at \in 1 .. Len(q) + 1 /\ j < at /\ i < j
          BY <1>1, <1>9, <1>13, <2>3
        <4>2. i \in 1 .. Len(q) /\ j \in 1 .. Len(q) /\ i < at
          BY <1>10, <4>1
        <4> QED BY <1>10, <4>1, <4>2
      <3> QED BY <1>1, <1>13, <2>1, <3>1 DEF Ordered
    <2>4. CASE j = at
      <3>1. i \in 1 .. Len(q) /\ i \notin after /\ r[i] = q[i] /\ r[j] = t
        BY <1>1, <1>9, <1>10, <1>13, <2>4
      <3> QED BY <1>8, <1>12, <2>1, <3>1
    <2>5. CASE j > at
      <3>1. j - 1 \in 1 .. Len(q) /\ r[j] = q[j - 1] /\ at <= j - 1 /\ at \in 1 .. Len(q)
        BY <1>1, <1>9, <1>10, <1>13, <2>5, SMTT(30)
      <3>5. due'[q[j - 1]] = due[q[j - 1]]
        BY <2>1, <3>1
      <3>2. CASE i < at
        <4>1. i \in 1 .. Len(q) /\ r[i] = q[i] /\ i < j - 1
          BY <1>1, <1>9, <1>10, <1>13, <3>1, <3>2
        <4>2. due[q[i]] <= due[q[j - 1]]
          BY <1>1, <3>1, <4>1 DEF Ordered
        <4>3. due'[q[i]] = due[q[i]]
          BY <2>1, <4>1
        <4> QED BY <3>1, <3>5, <4>1, <4>2, <4>3
      <3>3. CASE i = at
        <4>1. r[i] = t /\ due'[r[i]] = d
          BY <1>9, <1>10, <1>12, <3>3
        <4>2. due[q[at]] >= d /\ due[q[at]] <= due[q[j - 1]]
          <5>1. due[q[at]] >= d
            BY <1>8, <1>9, <3>1
          <5>2. CASE at = j - 1
            BY <2>1, <3>1, <5>1, <5>2
          <5>3. CASE at < j - 1
            BY <1>1, <3>1, <5>1, <5>3 DEF Ordered
          <5> QED BY <1>1, <3>1, <5>2, <5>3
        <4>3. due[q[at]] \in Nat /\ due[q[j - 1]] \in Nat
          <5>1. due[q[at]] \in 0 .. Half - 1 /\ due[q[j - 1]] \in 0 .. Half - 1
            BY <2>1, <3>1
          <5> QED BY <2>2, <5>1
        <4>4. due'[r[j]] = due[q[j - 1]]
          BY <3>1, <3>5
        <4> QED BY <2>2, <4>1, <4>2, <4>3, <4>4
      <3>4. CASE i > at
        <4>1. i - 1 \in 1 .. Len(q) /\ r[i] = q[i - 1] /\ i - 1 < j - 1
          BY <1>1, <1>9, <1>10, <1>13, <3>4
        <4>2. due[q[i - 1]] <= due[q[j - 1]]
          BY <1>1, <3>1, <4>1 DEF Ordered
        <4>3. due'[q[i - 1]] = due[q[i - 1]]
          BY <2>1, <4>1
        <4> QED BY <3>1, <3>5, <4>1, <4>2, <4>3
      <3> QED BY <1>1, <1>9, <1>10, <1>13, <3>2, <3>3, <3>4
    <2>6. j < at \/ j = at \/ j > at
      BY <1>1, <1>9, <1>10
    <2> QED BY <2>3, <2>4, <2>5, <2>6
  <1>14. Ordered(r, due')
    BY <1>13 DEF Ordered
  <1>15. \A u \in Threads : In(u, r) <=> u \in activated'
    BY <1>1, <1>6, <1>11
  <1>16. \A u \in activated' : sched'.stat[u] = "SUSPEND"
    BY <1>6 DEF Timers
  <1>17. \A u \in activated' : EndsAt(rt_tick', timeout_tick'[u], due'[u], checking') /\ due'[u] > 0
    <2>1. \A u \in activated : u \in Threads /\ u # t
      BY <1>1
    <2>2. \A u \in activated : EndsAt(rt_tick, timeout_tick[u], due[u], checking) /\ due[u] > 0
      BY DEF Timers
    <2>3. EndsAt(rt_tick, x, d, FALSE) /\ d > 0
      <3>1. CASE n = 0
        <4>1. d = 1 /\ x = rt_tick
          BY <1>1, <3>1, HalfOfRange DEF d, x, Fwd, Ticks
        <4> QED BY <4>1 DEF EndsAt
      <3>2. CASE n # 0
        <4>1. d = n /\ x = Fwd(rt_tick, d)
          BY <3>2 DEF d, x
        <4> QED BY <1>4, <4>1, HalfOfRange DEF EndsAt
      <3> QED BY <3>1, <3>2
    <2>4. checking' = FALSE /\ rt_tick' = rt_tick /\ checking = FALSE
      BY <1>1
    <2> QED BY <1>6, <1>12, <2>1, <2>2, <2>3, <2>4
  <1>18. \A u \in Threads \ activated' : due'[u] = 0
    BY <1>6, <1>12 DEF Timers
  <1>19. activated' \in SUBSET Threads /\ checking' \in BOOLEAN /\ rt_tick' \in Ticks
    BY <1>1, <1>6
  <1>20. rt_timer_list' \in Seq(Threads) /\ Distinct(rt_timer_list') /\ Ordered(rt_timer_list', due')
         /\ \A u \in Threads : In(u, rt_timer_list') <=> u \in activated'
    BY <1>10, <1>11, <1>14, <1>15 DEF r
  <1> QED BY <1>12, <1>16, <1>17, <1>18, <1>19, <1>20 DEF Timers

(* The clock moves on.                                                     *)
LEMMA TimersTick ==
  ASSUME Timers, Tick,
         \A u \in Threads : sched.stat[u] = "SUSPEND" => sched'.stat[u] = "SUSPEND"
  PROVE  Timers'
  <1>1. /\ rt_tick' = (rt_tick + 1) % (RT_TICK_MAX + 1) /\ checking' = TRUE /\ ~checking
        /\ UNCHANGED <<rt_timer_list, timeout_tick, activated>>
        /\ due' = [u \in Threads |-> IF In(u, rt_timer_list) /\ due[u] > 0 THEN due[u] - 1
                                     ELSE due[u]]
    BY DEF Tick
  <1>2. /\ rt_tick \in Ticks /\ timeout_tick \in [Threads -> Ticks]
        /\ due \in [Threads -> 0 .. Half - 1] /\ activated \in SUBSET Threads
        /\ checking = FALSE /\ rt_timer_list \in Seq(Threads) /\ Len(rt_timer_list) \in Nat
        /\ Half \in Nat
    BY <1>1, HalfOfRange, LenProperties DEF Timers
  <1>3. rt_tick' = Fwd(rt_tick, 1) /\ rt_tick' \in Ticks
    BY <1>1, <1>2, Ahead, HalfOfRange
  <1>4. \A u \in activated : /\ u \in Threads /\ due[u] \in 1 .. Half - 1
                             /\ due'[u] = due[u] - 1
    <2> SUFFICES ASSUME NEW u \in activated
                 PROVE  u \in Threads /\ due[u] \in 1 .. Half - 1 /\ due'[u] = due[u] - 1
      OBVIOUS
    <2>1. u \in Threads /\ In(u, rt_timer_list) /\ due[u] > 0
      BY <1>1 DEF Timers
    <2> QED BY <1>1, <1>2, <2>1
  <1>5. \A u \in Threads \ activated : due'[u] = 0
    <2> SUFFICES ASSUME NEW u \in Threads \ activated PROVE due'[u] = 0
      OBVIOUS
    <2>1. due[u] = 0
      BY DEF Timers
    <2> QED BY <1>1, <2>1
  <1>6. due' \in [Threads -> 0 .. Half - 1]
    <2> SUFFICES ASSUME NEW u \in Threads
                 PROVE  (IF In(u, rt_timer_list) /\ due[u] > 0 THEN due[u] - 1 ELSE due[u])
                          \in 0 .. Half - 1
      BY <1>1
    <2>1. due[u] \in 0 .. Half - 1
      BY <1>2
    <2> QED BY <1>2, <2>1
  <1>7. \A u \in activated : EndsAt(rt_tick', timeout_tick[u], due'[u], TRUE)
    <2> SUFFICES ASSUME NEW u \in activated
                 PROVE  EndsAt(Fwd(rt_tick, 1), timeout_tick[u], due[u] - 1, TRUE)
      BY <1>3, <1>4
    <2>1. timeout_tick[u] \in Ticks /\ EndsAt(rt_tick, timeout_tick[u], due[u], FALSE)
      BY <1>2, <1>4 DEF Timers
    <2> QED BY <1>2, <1>4, <2>1, TickPasses
  <1>8. Ordered(rt_timer_list', due')
    <2> SUFFICES ASSUME NEW i \in 1 .. Len(rt_timer_list), NEW j \in 1 .. Len(rt_timer_list), i < j
                 PROVE  due'[rt_timer_list[i]] <= due'[rt_timer_list[j]]
      BY <1>1 DEF Ordered
    <2>1. /\ rt_timer_list[i] \in Threads /\ In(rt_timer_list[i], rt_timer_list)
          /\ rt_timer_list[j] \in Threads /\ In(rt_timer_list[j], rt_timer_list)
      BY <1>2, ElementOfSeq DEF In
    <2>2. rt_timer_list[i] \in activated /\ rt_timer_list[j] \in activated
      BY <2>1 DEF Timers
    <2>3. due[rt_timer_list[i]] <= due[rt_timer_list[j]]
      BY DEF Timers, Ordered
    <2>4. due[rt_timer_list[i]] \in Int /\ due[rt_timer_list[j]] \in Int
      BY <1>4, <2>2
    <2> QED BY <1>4, <2>2, <2>3, <2>4
  <1>9. rt_timer_list' = rt_timer_list /\ timeout_tick' = timeout_tick /\ activated' = activated
    BY <1>1
  <1>10. \A u \in activated : u \in Threads /\ sched'.stat[u] = "SUSPEND"
    BY DEF Timers
  <1>11. Distinct(rt_timer_list) /\ \A u \in Threads : In(u, rt_timer_list) <=> u \in activated
    BY DEF Timers
  <1> QED BY <1>1, <1>2, <1>3, <1>5, <1>6, <1>7, <1>8, <1>9, <1>10, <1>11 DEF Timers

(* rt_timer_check looks at the first timer.                                *)
LEMMA FirstDue ==
  ASSUME Timers, checking, rt_timer_list # <<>>
  PROVE  /\ Head(rt_timer_list) \in activated /\ Head(rt_timer_list) \in Threads
         /\ Expired <=> due[Head(rt_timer_list)] = 0
  <1> DEFINE t == Head(rt_timer_list)
  <1>1. rt_timer_list \in Seq(Threads) /\ Distinct(rt_timer_list)
    BY DEF Timers
  <1>2. t \in Threads /\ In(t, rt_timer_list)
    BY <1>1, FirstLeaves
  <1>3. t \in activated
    BY <1>2 DEF Timers
  <1> HIDE DEF t
  <1>4. /\ rt_tick \in Ticks /\ timeout_tick[t] \in Ticks /\ due[t] \in 0 .. Half - 1
        /\ EndsAt(rt_tick, timeout_tick[t], due[t], TRUE)
    BY <1>2, <1>3 DEF Timers
  <1>5. Diff(rt_tick, timeout_tick[t]) < Half <=> due[t] = 0
    BY <1>4, ExpiredIsDue
  <1>6. Expired <=> Diff(rt_tick, timeout_tick[t]) < Half
    BY DEF Expired, t
  <1> QED BY <1>2, <1>3, <1>5, <1>6 DEF t

(* The first timer has run out and leaves the list.                        *)
LEMMA TimersFire ==
  ASSUME Timers, FireTimer,
         \A u \in Threads : u # Head(rt_timer_list) /\ sched.stat[u] = "SUSPEND"
                              => sched'.stat[u] = "SUSPEND"
  PROVE  Timers'
  <1> DEFINE t == Head(rt_timer_list)
             q == rt_timer_list
             r == Tail(q)
  <1>1. /\ rt_timer_list' = r /\ activated' = activated \ {t} /\ due' = due
        /\ timeout_tick' = [timeout_tick EXCEPT ![t] = 0]
        /\ checking /\ Expired /\ UNCHANGED <<rt_tick, checking>>
    BY DEF FireTimer, clock
  <1>2. q # <<>> /\ q \in Seq(Threads) /\ Distinct(q)
    BY <1>1 DEF Expired, Timers
  <1>3. t \in activated /\ t \in Threads /\ due[t] = 0
    BY <1>1, <1>2, FirstDue
  <1>4. /\ r \in Seq(Threads) /\ Distinct(r) /\ Len(q) \in Nat \ {0} /\ Len(r) = Len(q) - 1
        /\ \A i \in 1 .. Len(r) : r[i] = q[i + 1]
        /\ \A u : In(u, r) <=> In(u, q) /\ u # t
    BY <1>2, FirstLeaves
  <1> HIDE DEF t, q, r
  <1>5. Ordered(r, due)
    <2> SUFFICES ASSUME NEW i \in 1 .. Len(r), NEW j \in 1 .. Len(r), i < j
                 PROVE  due[r[i]] <= due[r[j]]
      BY DEF Ordered
    <2>1. i + 1 \in 1 .. Len(q) /\ j + 1 \in 1 .. Len(q) /\ i + 1 < j + 1
          /\ r[i] = q[i + 1] /\ r[j] = q[j + 1]
      BY <1>4
    <2> QED BY <2>1 DEF Timers, Ordered, q
  <1>6. timeout_tick' \in [Threads -> Ticks] /\ \A u \in Threads : u # t => timeout_tick'[u] = timeout_tick[u]
    <2>1. timeout_tick \in [Threads -> Ticks] /\ 0 \in Ticks
      BY HalfOfRange DEF Timers, Ticks
    <2> QED BY <1>1, <2>1
  <1>7. \A u \in activated' : u \in activated /\ u \in Threads /\ u # t
    BY <1>1 DEF Timers
  <1>8. \A u \in Threads : In(u, r) <=> u \in activated'
    BY <1>1, <1>4 DEF Timers, q
  <1>9. \A u \in activated' : sched'.stat[u] = "SUSPEND"
    BY <1>7 DEF Timers, t
  <1>10. \A u \in activated' : EndsAt(rt_tick', timeout_tick'[u], due'[u], checking')
    BY <1>1, <1>6, <1>7 DEF Timers
  <1>11. \A u \in Threads \ activated' : due'[u] = 0
    BY <1>1, <1>3 DEF Timers
  <1> QED BY <1>1, <1>4, <1>5, <1>6, <1>7, <1>8, <1>9, <1>10, <1>11 DEF Timers

(* No timer that has run out is left.                                      *)
LEMMA TimersChecked ==
  ASSUME Timers, CheckDone
  PROVE  Timers'
  <1>1. checking /\ ~Expired /\ checking' = FALSE /\ UNCHANGED <<sched, rt_tick, timers>>
    BY DEF CheckDone
  <1>2. /\ rt_timer_list \in Seq(Threads) /\ Distinct(rt_timer_list) /\ Len(rt_timer_list) \in Nat
        /\ due \in [Threads -> 0 .. Half - 1] /\ Half \in Nat
    BY HalfOfRange, LenProperties DEF Timers
  <1>3. ASSUME NEW u \in activated PROVE u \in Threads /\ due[u] \in 1 .. Half - 1
    <2>1. u \in Threads /\ In(u, rt_timer_list)
      BY DEF Timers
    <2>2. PICK i \in 1 .. Len(rt_timer_list) : rt_timer_list[i] = u
      BY <2>1 DEF In
    <2>3. rt_timer_list # <<>>
      BY <1>2, <2>1, EmptyHasNone
    <2>4. /\ Head(rt_timer_list) \in Threads /\ due[Head(rt_timer_list)] # 0
          /\ Head(rt_timer_list) = rt_timer_list[1]
      BY <1>1, <1>2, <2>3, FirstDue, FirstLeaves
    <2>5. i = 1 \/ due[rt_timer_list[1]] <= due[rt_timer_list[i]]
      <3>1. 1 \in 1 .. Len(rt_timer_list) /\ (i = 1 \/ 1 < i)
        BY <1>2, <2>2
      <3> QED BY <2>2, <3>1 DEF Timers, Ordered
    <2>6. due[u] \in 0 .. Half - 1 /\ due[rt_timer_list[1]] \in 0 .. Half - 1
      BY <1>2, <2>1, <2>4
    <2> QED BY <1>2, <2>1, <2>2, <2>4, <2>5, <2>6
  <1>4. \A u \in activated : EndsAt(rt_tick, timeout_tick[u], due[u], FALSE)
    <2> SUFFICES ASSUME NEW u \in activated
                 PROVE  EndsAt(rt_tick, timeout_tick[u], due[u], FALSE)
      OBVIOUS
    <2>1. /\ rt_tick \in Ticks /\ timeout_tick[u] \in Ticks
          /\ EndsAt(rt_tick, timeout_tick[u], due[u], TRUE)
      BY <1>1, <1>3 DEF Timers
    <2> QED BY <1>3, <2>1, CheckPasses
  <1>5. \A u \in activated : due[u] > 0
    BY <1>3
  <1> QED BY <1>1, <1>4, <1>5 DEF Timers, timers

-----------------------------------------------------------------------------
(* The steps                                                               *)

(* rtthread_startup has set up the kernel.                                 *)
LEMMA InitHolds == Init => Inv
  <1> SUFFICES ASSUME Init PROVE Inv
    OBVIOUS
  <1>1. /\ Priorities \in SUBSET Nat /\ idle \in Threads /\ Main \in Threads /\ Main # idle
        /\ init_priority \in [Threads -> Priorities] /\ MaxNest \in Nat /\ MaxUnits \in Nat
    BY SchedAssumption
  <1> DEFINE p0 == init_priority[idle]
  <1>2. /\ sched.current = Main /\ sched.yield = {} /\ sched.prio = init_priority
        /\ sched.stat = [t \in Threads |-> IF t = Main THEN "RUNNING"
                                           ELSE IF t = idle THEN "READY" ELSE "INIT"]
        /\ sched.table = [p \in Priorities |-> IF p = p0 THEN <<idle>> ELSE <<>>]
        /\ sched.group = {p0} /\ sched.lock_nest = 0
        /\ sched \in States(Threads, Priorities)
    BY <1>1 DEF Init, States, Stats
  <1>3. \A t : In(t, <<idle>>) <=> t = idle
    BY DEF In
  <1>4. Distinct(<<idle>>) /\ Distinct(<<>>) /\ <<idle>> # <<>>
    BY DEF Distinct
  <1>5. Lists(sched, Threads, Priorities)
    <2>1. \A p \in Priorities : (p \in sched.group <=> sched.table[p] # <<>>) /\ Distinct(sched.table[p])
      BY <1>2, <1>4
    <2>2. \A u \in Threads : sched.stat[u] = "READY" => In(u, sched.table[sched.prio[u]])
      BY <1>1, <1>2, <1>3
    <2>3. \A u \in Threads, p \in Priorities :
            In(u, sched.table[p]) => sched.stat[u] = "READY" /\ sched.prio[u] = p
      BY <1>1, <1>2, <1>3, EmptyHasNone
    <2> QED BY <2>1, <2>2, <2>3 DEF Lists
  <1>6. \A u \in Threads : sched.stat[u] = "RUNNING" => u = Main
    BY <1>2
  <1>7. sched.stat[Main] = "RUNNING" /\ sched.stat[idle] = "READY"
    BY <1>1, <1>2
  <1>8. Sound(sched, Threads, Priorities)
    BY <1>2, <1>5, <1>6, <1>7, SoundLists
  <1>9. Table
    BY <1>1, <1>2, <1>7, <1>8 DEF Table, TableOf
  <1>10. /\ pc = [t \in Threads |-> "run"] /\ irq = FALSE /\ remaining_tick = init_tick
         /\ checking = FALSE /\ rt_tick = 0 /\ rt_timer_list = <<>> /\ activated = {}
         /\ timeout_tick = [t \in Threads |-> 0] /\ due = [t \in Threads |-> 0]
         /\ value = 0 /\ suspend_thread = <<>> /\ units = 0
         /\ error = [t \in Threads |-> RT_EOK]
    BY DEF Init
  <1>11. Flow
    BY <1>1, <1>2, <1>7, <1>10, SchedAssumption DEF Flow, Stages
  <1>12. Placed
    <2>1. \A u \in Threads : sched.stat[u] = "READY" => u = idle
      BY <1>2
    <2>2. init_priority[Main] <= init_priority[idle]
      <3>1. init_priority[Main] < init_priority[idle]
        BY <1>1, SchedAssumption
      <3>2. init_priority[Main] \in Nat /\ init_priority[idle] \in Nat
        BY <1>1
      <3> QED BY <3>1, <3>2
    <2> QED BY <1>2, <2>1, <2>2 DEF Placed, Highest
  <1>13. Handed = {}
    BY <1>10 DEF Handed
  <1>14. Waits
    BY <1>1, <1>2, <1>4, <1>10, <1>13, EmptyHasNone, EmptySeq, FS_EmptySet
       DEF Waits, UnitsConserved
  <1>15. 0 \in Ticks /\ 0 \in 0 .. Half - 1
    BY HalfOfRange DEF Ticks
  <1>16. Timers
    <2>1. rt_timer_list \in Seq(Threads) /\ Distinct(rt_timer_list) /\ Len(rt_timer_list) = 0
      BY <1>4, <1>10, EmptySeq
    <2>2. Ordered(rt_timer_list, due)
      BY <2>1 DEF Ordered
    <2>3. \A t : ~In(t, rt_timer_list)
      BY <1>10, EmptyHasNone
    <2>4. timeout_tick \in [Threads -> Ticks] /\ due \in [Threads -> 0 .. Half - 1]
          /\ \A t \in Threads : due[t] = 0
      BY <1>10, <1>15
    <2> QED BY <1>10, <1>15, <2>1, <2>2, <2>3, <2>4 DEF Timers
  <1> QED BY <1>9, <1>11, <1>12, <1>14, <1>16 DEF Inv

(* A thread that executes its own code, or returns from a call, runs.      *)
LEMMA CurrentRuns ==
  ASSUME Inv, NEW t \in Threads, sched.current = t, pc[t] \notin {"sleep_sched", "take_sched"}
  PROVE  sched.stat[t] = "RUNNING" /\ t \notin activated /\ ~In(t, suspend_thread)
  <1>1. sched.stat[t] = "RUNNING"
    BY DEF Inv, Flow
  <1> QED BY <1>1 DEF Inv, Timers, Waits

(* The current thread calls rt_schedule.                                   *)
LEMMA CallScheduleStep ==
  ASSUME Inv, NEW t \in Threads, CallSchedule(t)
  PROVE  Inv'
  <1>1. /\ sched.current = t /\ sched' = Schedule(sched)
        /\ UNCHANGED <<clock, timers, sem, error, irq>>
    BY DEF CallSchedule, Runs
  <1>2. \/ pc[t] = "sched" /\ pc' = [pc EXCEPT ![t] = "run"]
        \/ pc[t] = "sleep_sched" /\ pc' = [pc EXCEPT ![t] = "sleep_ret"]
        \/ pc[t] = "take_sched" /\ pc' = [pc EXCEPT ![t] = "take_ret"]
    BY DEF CallSchedule, Runs, Goto
  <1>3. pc \in [Threads -> Stages]
    BY DEF Inv, Flow
  <1>4. /\ pc' \in [Threads -> Stages]
        /\ \A u \in Threads : pc'[u] \in Taking <=> pc[u] \in Taking
        /\ \A u \in Threads : pc[u] \in Sleeping => pc'[u] \in Sleeping
        /\ pc[t] = "sched" => pc'[t] = "run"
    BY <1>2, <1>3 DEF Stages, Taking, Sleeping
  <1>5. sched.lock_nest # 0 => sched.stat[t] = "RUNNING" /\ pc[t] = "sched"
    BY <1>1, <1>2 DEF Inv, Flow
  <1>6. irq' \in BOOLEAN /\ remaining_tick' \in [Threads -> Nat \ {0}]
    BY <1>1 DEF Inv, Flow, clock
  <1>7. \A u \in Threads : sched.stat[u] = "SUSPEND" => pc'[u] \in Taking \cup Sleeping
    BY <1>4 DEF Inv, Flow
  <1>8. TableOf(sched)
    BY DEF Inv, Table
  <1>9. /\ Table' /\ Flow' /\ Placed'
        /\ \A u \in Threads : sched'.stat[u] = "SUSPEND" <=> sched.stat[u] = "SUSPEND"
    BY <1>1, <1>4, <1>5, <1>6, <1>7, <1>8, Rescheduled
  <1>10. Waits'
    BY <1>1, <1>4, <1>9, WaitsKept DEF Inv, sem
  <1>11. Timers'
    BY <1>1, <1>9, TimersKept DEF Inv, clock
  <1> QED BY <1>9, <1>10, <1>11 DEF Inv

(* rt_thread_startup.                                                      *)
LEMMA StartupStep ==
  ASSUME Inv, NEW t \in Threads, NEW u \in Threads, Startup(t, u)
  PROVE  Inv'
  <1> DEFINE p == init_priority[u]
             s == SetPriority(sched, u, p)
  <1>1. /\ sched.current = t /\ pc[t] = "run" /\ sched.stat[u] = "INIT"
        /\ sched' = InsertThread(s, u) /\ pc' = [pc EXCEPT ![t] = "sched"]
        /\ UNCHANGED <<clock, timers, sem, error, irq>>
    BY DEF Startup, Calling, Runs, Goto
  <1>2. /\ sched \in States(Threads, Priorities) /\ Sound(sched, Threads, Priorities)
        /\ sched.prio = init_priority /\ sched.lock_nest <= MaxNest
        /\ sched.stat[idle] \in {"READY", "RUNNING"}
    BY DEF Inv, Table, TableOf
  <1>3. init_priority \in [Threads -> Priorities] /\ p \in Priorities
    BY SchedAssumption
  <1> HIDE DEF p
  <1>4. /\ s \in States(Threads, Priorities) /\ s.stat = sched.stat
        /\ s.current = sched.current /\ s.table = sched.table
        /\ s.group = sched.group /\ s.lock_nest = sched.lock_nest /\ s.yield = sched.yield
        /\ s.prio = [sched.prio EXCEPT ![u] = p]
    <2>1. s = SetPriority(sched, u, p) /\ sched \in States(Threads, Priorities) /\ p \in Priorities
      BY <1>2, <1>3
    <2> HIDE DEF s
    <2> QED BY <2>1, SetPriorityFields
  <1> HIDE DEF s
  <1>5. s.prio = init_priority
    BY <1>2, <1>3, <1>4 DEF p
  <1>6. TableOf(s)
    BY <1>2, <1>4, <1>5 DEF TableOf, Sound
  <1>7. sched.stat[t] = "RUNNING" /\ u # t
    BY <1>1, CurrentRuns
  <1>8. /\ TableOf(sched') /\ sched'.stat = [sched.stat EXCEPT ![u] = "READY"]
        /\ sched'.current = t /\ sched'.lock_nest = sched.lock_nest
    <2> DEFINE r == sched'
    <2>1. r = InsertThread(s, u) /\ s.stat[u] # "READY" /\ u # s.current
      BY <1>1, <1>4, <1>7
    <2> HIDE DEF r
    <2>2. /\ TableOf(r) /\ r.stat = [s.stat EXCEPT ![u] = IF u = s.current THEN "RUNNING" ELSE "READY"]
          /\ r.current = s.current /\ r.lock_nest = s.lock_nest
      BY <1>6, <2>1, Inserted
    <2>3. r.stat = [s.stat EXCEPT ![u] = "READY"]
      BY <2>1, <2>2
    <2> QED BY <1>1, <1>4, <2>2, <2>3 DEF r
  <1>9. sched.stat \in [Threads -> Stats] /\ pc \in [Threads -> Stages]
    BY <1>2 DEF States, Inv, Flow
  <1>10. /\ \A w \in Threads : sched'.stat[w] = "SUSPEND" <=> sched.stat[w] = "SUSPEND"
         /\ sched'.stat[t] = "RUNNING"
         /\ pc' \in [Threads -> Stages]
         /\ \A w \in Threads : w # t => pc'[w] = pc[w]
         /\ pc'[t] = "sched"
    BY <1>1, <1>7, <1>8, <1>9 DEF Stages
  <1>11. Flow'
    BY <1>1, <1>7, <1>8, <1>10 DEF Inv, Flow, clock
  <1>12. Placed'
    BY <1>8, <1>10 DEF Placed, BeforeSchedule
  <1>13. Waits'
    BY <1>1, <1>10, WaitsKept DEF Inv, sem, Taking
  <1>14. Timers'
    BY <1>1, <1>10, TimersKept DEF Inv, clock
  <1> QED BY <1>8, <1>11, <1>12, <1>13, <1>14 DEF Inv, Table

(* rt_thread_exit.                                                         *)
LEMMA ExitStep ==
  ASSUME Inv, NEW t \in Threads, Exit(t)
  PROVE  Inv'
  <1> DEFINE g == SetStat(RemoveThread(sched, t), t, "CLOSE")
             s == [g EXCEPT !.yield = @ \ {t}]
  <1>1. /\ sched.current = t /\ pc[t] = "run" /\ sched.lock_nest = 0 /\ t # idle
        /\ sched' = Schedule(s) /\ pc' = [pc EXCEPT ![t] = "gone"]
        /\ rt_timer_list' = Without(rt_timer_list, t) /\ Forget(t)
        /\ UNCHANGED <<clock, sem, error, irq>>
    BY SchedAssumption DEF Exit, Calling, Runs, Goto
  <1>2. /\ sched \in States(Threads, Priorities) /\ Sound(sched, Threads, Priorities)
        /\ sched.prio = init_priority /\ sched.lock_nest <= MaxNest
        /\ sched.stat[idle] \in {"READY", "RUNNING"}
    BY DEF Inv, Table, TableOf
  <1>3. "CLOSE" \in Stats \ {"READY"} /\ "CLOSE" # "RUNNING"
    BY DEF Stats
  <1>4. /\ g \in States(Threads, Priorities) /\ Sound(g, Threads, Priorities)
        /\ g.stat = [sched.stat EXCEPT ![t] = "CLOSE"] /\ g.prio = sched.prio
        /\ g.current = sched.current /\ g.lock_nest = sched.lock_nest
    BY <1>2, <1>3, RemoveSound
  <1> HIDE DEF g
  <1>5. /\ s \in States(Threads, Priorities) /\ s.stat = g.stat /\ s.prio = g.prio
        /\ s.current = g.current /\ s.table = g.table /\ s.group = g.group
        /\ s.lock_nest = g.lock_nest
    BY <1>4 DEF States
  <1> HIDE DEF s
  <1>6. sched.stat \in [Threads -> Stats] /\ pc \in [Threads -> Stages] /\ idle \in Threads
    BY <1>2, SchedAssumption DEF States, Inv, Flow
  <1>7. sched.stat[t] = "RUNNING"
    BY <1>1, CurrentRuns
  <1>8. /\ s.stat = [sched.stat EXCEPT ![t] = "CLOSE"] /\ s.lock_nest = 0
        /\ s.stat[idle] \in {"READY", "RUNNING"}
        /\ \A u \in Threads : s.stat[u] = "SUSPEND" <=> sched.stat[u] = "SUSPEND"
    BY <1>1, <1>2, <1>4, <1>5, <1>6, <1>7
  <1>9. Sound(s, Threads, Priorities)
    BY <1>4, <1>5 DEF Sound
  <1>10. TableOf(s)
    BY <1>1, <1>2, <1>4, <1>5, <1>8, <1>9 DEF TableOf
  <1>11. /\ pc' \in [Threads -> Stages] /\ pc'[t] = "gone"
         /\ \A u \in Threads : u # t => pc'[u] = pc[u]
    BY <1>1, <1>6 DEF Stages
  <1>12. \A u \in Threads : s.stat[u] = "SUSPEND" => pc'[u] \in Taking \cup Sleeping
    BY <1>7, <1>8, <1>11 DEF Inv, Flow
  <1>13. irq' \in BOOLEAN /\ remaining_tick' \in [Threads -> Nat \ {0}]
    BY <1>1 DEF Inv, Flow, clock
  <1>14. /\ Table' /\ Flow' /\ Placed'
         /\ \A u \in Threads : sched'.stat[u] = "SUSPEND" <=> s.stat[u] = "SUSPEND"
    BY <1>1, <1>8, <1>10, <1>11, <1>12, <1>13, Rescheduled
  <1>15. Waits'
    BY <1>1, <1>8, <1>11, <1>14, WaitsKept DEF Inv, sem, Taking
  <1>16. Timers'
    BY <1>1, <1>8, <1>14, TimerStops DEF Inv, clock
  <1> QED BY <1>14, <1>15, <1>16 DEF Inv

(* rt_thread_yield: only rt_schedule, which follows.                       *)
LEMMA YieldStep ==
  ASSUME Inv, NEW t \in Threads, Yield(t)
  PROVE  Inv'
  <1>1. /\ sched.current = t /\ pc[t] = "run" /\ pc' = [pc EXCEPT ![t] = "sched"]
        /\ UNCHANGED <<sched, clock, timers, sem, error, irq>>
    BY DEF Yield, Calling, Runs, Goto
  <1>2. pc \in [Threads -> Stages]
    BY DEF Inv, Flow
  <1>3. /\ pc' \in [Threads -> Stages] /\ pc'[t] = "sched"
        /\ \A u \in Threads : u # t => pc'[u] = pc[u]
    BY <1>1, <1>2 DEF Stages
  <1>4. sched.stat[t] = "RUNNING"
    BY <1>1, CurrentRuns
  <1>5. Flow'
    BY <1>1, <1>3, <1>4 DEF Inv, Flow, clock
  <1>6. Placed'
    BY <1>1, <1>3 DEF Placed, BeforeSchedule
  <1>7. Waits'
    BY <1>1, <1>3, WaitsKept DEF Inv, sem, Taking
  <1>8. Timers'
    BY <1>1, TimersKept DEF Inv, clock
  <1> QED BY <1>1, <1>5, <1>6, <1>7, <1>8 DEF Inv, Table

(* rt_thread_sleep.                                                        *)
LEMMA SleepStep ==
  ASSUME Inv, NEW t \in Threads, NEW n \in FOREVER .. Half - 1, Sleep(t, n)
  PROVE  Inv'
  <1>1. /\ sched.current = t /\ pc[t] = "run" /\ ~checking /\ sched.lock_nest = 0
        /\ <<t, "sleep", n>> \in Calls /\ Suspend(t) /\ TimerStart(t, n)
        /\ pc' = [pc EXCEPT ![t] = "sleep_sched"]
        /\ UNCHANGED <<clock, sem, error, irq>>
    BY DEF Sleep, Calling, Runs, Goto
  <1>2. t # idle /\ n \in 0 .. Half - 1
    BY <1>1, SchedAssumption
  <1>3. Table
    BY DEF Inv
  <1>4. /\ Table' /\ sched'.stat = [sched.stat EXCEPT ![t] = "SUSPEND"]
        /\ sched'.current = t /\ sched'.lock_nest = 0
    BY <1>1, <1>2, <1>3, Suspends
  <1>5. sched.stat \in [Threads -> Stats] /\ pc \in [Threads -> Stages]
    BY <1>3 DEF Table, TableOf, States, Inv, Flow
  <1>6. sched.stat[t] = "RUNNING" /\ t \in Threads \ activated /\ ~In(t, suspend_thread)
    BY <1>1, CurrentRuns
  <1>7. /\ pc' \in [Threads -> Stages] /\ pc'[t] = "sleep_sched"
        /\ \A u \in Threads : u # t => pc'[u] = pc[u] /\ sched'.stat[u] = sched.stat[u]
        /\ sched'.stat[t] = "SUSPEND"
    BY <1>1, <1>4, <1>5 DEF Stages
  <1>8. Flow'
    BY <1>1, <1>4, <1>7 DEF Inv, Flow, clock, Sleeping
  <1>9. Placed'
    BY <1>4, <1>7 DEF Placed, BeforeSchedule
  <1>10. Waits'
    <2>1. Handed' = Handed
      BY <1>1, <1>7 DEF Handed
    <2>2. UnitsConserved'
      BY <1>1, <2>1 DEF Inv, Waits, UnitsConserved, sem
    <2>3. Waits /\ suspend_thread' = suspend_thread /\ error' = error
          /\ value' = value /\ units' = units
      BY <1>1 DEF Inv, sem
    <2>4. \A u \in Threads : In(u, suspend_thread) =>
            sched'.stat[u] = "SUSPEND" /\ pc'[u] \in Taking /\ error[u] = RT_EOK
      BY <1>6, <1>7, <2>3 DEF Waits
    <2>5. \A u \in Threads : sched'.stat[u] = "SUSPEND" /\ pc'[u] \in Taking =>
            In(u, suspend_thread)
      BY <1>7, <2>3 DEF Waits, Taking
    <2> QED BY <2>2, <2>3, <2>4, <2>5 DEF Waits
  <1>11. Timers'
    <2>1. UNCHANGED <<rt_tick, checking>> /\ Timers
      BY <1>1 DEF clock, Inv
    <2>2. \A u \in Threads : sched.stat[u] = "SUSPEND" => sched'.stat[u] = "SUSPEND"
      BY <1>7
    <2> QED BY <1>1, <1>2, <1>6, <1>7, <2>1, <2>2, TimerStarts
  <1> QED BY <1>4, <1>8, <1>9, <1>10, <1>11 DEF Inv

(* rt_thread_sleep returns.                                                *)
LEMMA SleepReturnStep ==
  ASSUME Inv, NEW t \in Threads, SleepReturn(t)
  PROVE  Inv'
  <1>1. /\ sched.current = t /\ pc[t] = "sleep_ret" /\ pc' = [pc EXCEPT ![t] = "run"]
        /\ error' = [error EXCEPT ![t] = RT_EOK]
        /\ UNCHANGED <<sched, clock, timers, sem, irq>>
    BY DEF SleepReturn, Runs, Goto
  <1>2. sched.stat[t] = "RUNNING" /\ ~In(t, suspend_thread)
    BY <1>1, CurrentRuns
  <1>3. pc \in [Threads -> Stages] /\ error \in [Threads -> {RT_EOK, RT_ETIMEOUT}]
    BY DEF Inv, Flow, Waits
  <1>4. /\ pc' \in [Threads -> Stages] /\ pc'[t] = "run"
        /\ error' \in [Threads -> {RT_EOK, RT_ETIMEOUT}]
        /\ \A u \in Threads : u # t => pc'[u] = pc[u] /\ error'[u] = error[u]
    BY <1>1, <1>3 DEF Stages
  <1>5. Flow'
    BY <1>1, <1>2, <1>4 DEF Inv, Flow, clock
  <1>6. Placed'
    BY <1>1, <1>4 DEF Inv, Placed, BeforeSchedule
  <1>7. Waits'
    <2>1. Handed' = Handed
      BY <1>1, <1>4 DEF Handed
    <2>2. UnitsConserved'
      BY <1>1, <2>1 DEF Inv, Waits, UnitsConserved, sem
    <2> QED BY <1>1, <1>2, <1>4, <2>2 DEF Inv, Waits, sem, Taking
  <1>8. Timers'
    BY <1>1, TimersKept DEF Inv, clock
  <1> QED BY <1>1, <1>5, <1>6, <1>7, <1>8 DEF Inv, Table

(* The depth of the scheduler lock is all that changes.                    *)
LEMMA NestTable ==
  ASSUME Table, NEW n \in 0 .. MaxNest, sched' = [sched EXCEPT !.lock_nest = n]
  PROVE  /\ Table' /\ sched'.stat = sched.stat /\ sched'.prio = sched.prio
         /\ sched'.current = sched.current /\ sched'.lock_nest = n
  <1>1. /\ sched \in States(Threads, Priorities) /\ Sound(sched, Threads, Priorities)
        /\ MaxNest \in Nat
    BY SchedAssumption DEF Table, TableOf
  <1> DEFINE r == sched'
  <1>2. /\ r \in States(Threads, Priorities) /\ r.stat = sched.stat /\ r.prio = sched.prio
        /\ r.current = sched.current /\ r.lock_nest = n /\ r.table = sched.table
        /\ r.group = sched.group
    <2>1. r = [sched EXCEPT !.lock_nest = n] /\ n \in Nat
      BY <1>1
    <2> HIDE DEF r
    <2> QED BY <1>1, <2>1 DEF States
  <1> HIDE DEF r
  <1>3. Sound(r, Threads, Priorities)
    BY <1>1, <1>2 DEF Sound
  <1>4. TableOf(r)
    BY <1>1, <1>2, <1>3 DEF TableOf, Table
  <1> QED BY <1>2, <1>4 DEF r, Table

(* rt_enter_critical.                                                      *)
LEMMA EnterCriticalStep ==
  ASSUME Inv, NEW t \in Threads, EnterCritical(t)
  PROVE  Inv'
  <1>1. /\ sched.current = t /\ pc[t] = "run" /\ sched.lock_nest < MaxNest
        /\ sched' = [sched EXCEPT !.lock_nest = sched.lock_nest + 1]
        /\ UNCHANGED <<clock, timers, sem, error, pc, irq>>
    BY DEF EnterCritical, Calling, Runs
  <1>2. Table /\ sched.lock_nest \in Nat /\ MaxNest \in Nat
    BY SchedAssumption DEF Inv, Table, TableOf, States
  <1>3. sched.lock_nest + 1 \in 0 .. MaxNest
    BY <1>1, <1>2
  <1>4. /\ Table' /\ sched'.stat = sched.stat /\ sched'.prio = sched.prio
        /\ sched'.current = sched.current /\ sched'.lock_nest = sched.lock_nest + 1
    BY <1>1, <1>2, <1>3, NestTable
  <1>5. sched'.lock_nest # 0
    BY <1>2, <1>4
  <1>6. sched.stat[t] = "RUNNING"
    BY <1>1, CurrentRuns
  <1>7. Flow'
    BY <1>1, <1>4, <1>6 DEF Inv, Flow, clock
  <1>8. Placed'
    BY <1>5 DEF Placed
  <1>9. Waits'
    BY <1>1, <1>4, WaitsKept DEF Inv, sem
  <1>10. Timers'
    BY <1>1, <1>4, TimersKept DEF Inv, clock
  <1> QED BY <1>4, <1>7, <1>8, <1>9, <1>10 DEF Inv

(* rt_exit_critical.                                                       *)
LEMMA ExitCriticalStep ==
  ASSUME Inv, NEW t \in Threads, ExitCritical(t)
  PROVE  Inv'
  <1>1. /\ sched.current = t /\ pc[t] = "run" /\ sched.lock_nest > 0
        /\ sched' = [sched EXCEPT !.lock_nest = sched.lock_nest - 1]
        /\ pc' = [pc EXCEPT ![t] = IF sched.lock_nest = 1 THEN "sched" ELSE "run"]
        /\ UNCHANGED <<clock, timers, sem, error, irq>>
    BY DEF ExitCritical, Runs, Goto
  <1>2. Table /\ sched.lock_nest \in Nat /\ sched.lock_nest <= MaxNest /\ MaxNest \in Nat
    BY SchedAssumption DEF Inv, Table, TableOf, States
  <1>3. sched.lock_nest - 1 \in 0 .. MaxNest
    BY <1>1, <1>2
  <1>4. /\ Table' /\ sched'.stat = sched.stat /\ sched'.prio = sched.prio
        /\ sched'.current = sched.current /\ sched'.lock_nest = sched.lock_nest - 1
    BY <1>1, <1>2, <1>3, NestTable
  <1>5. sched.stat[t] = "RUNNING"
    BY <1>1, CurrentRuns
  <1>6. pc \in [Threads -> Stages]
    BY DEF Inv, Flow
  <1>7. /\ pc' \in [Threads -> Stages] /\ pc'[t] \in {"run", "sched"}
        /\ sched'.lock_nest = 0 => pc'[t] = "sched"
        /\ \A u \in Threads : u # t => pc'[u] = pc[u]
    BY <1>1, <1>2, <1>4, <1>6 DEF Stages
  <1>8. Flow'
    BY <1>1, <1>4, <1>5, <1>7 DEF Inv, Flow, clock
  <1>9. Placed'
    BY <1>1, <1>4, <1>7 DEF Placed, BeforeSchedule
  <1>10. Waits'
    BY <1>1, <1>4, <1>7, WaitsKept DEF Inv, sem, Taking
  <1>11. Timers'
    BY <1>1, <1>4, TimersKept DEF Inv, clock
  <1> QED BY <1>4, <1>8, <1>9, <1>10, <1>11 DEF Inv

(* The threads that have been handed a unit.                               *)
LEMMA HandedFinite ==
  /\ Handed \in SUBSET Threads /\ IsFiniteSet(Handed)
  /\ Cardinality(Handed) \in Nat
  <1>1. Handed \in SUBSET Threads /\ IsFiniteSet(Threads)
    BY SchedAssumption DEF Handed
  <1>2. IsFiniteSet(Handed)
    BY <1>1, FS_Subset
  <1> QED BY <1>1, <1>2, FS_CardinalityType

(* rt_sem_take finds a unit.                                               *)
LEMMA TakeStep ==
  ASSUME Inv, NEW t \in Threads, NEW n, Take(t, n)
  PROVE  Inv'
  <1>1. /\ value > 0 /\ value' = value - 1 /\ units' = units - 1
        /\ UNCHANGED <<sched, clock, timers, suspend_thread, error, pc, irq>>
    BY DEF Take
  <1>2. Handed' = Handed
    BY <1>1 DEF Handed
  <1>3. /\ value \in Nat /\ units \in 0 .. MaxUnits /\ units = value + Cardinality(Handed)
        /\ Cardinality(Handed) \in Nat /\ MaxUnits \in Nat
    BY HandedFinite, SchedAssumption DEF Inv, Waits, UnitsConserved
  <1>4. /\ value' \in Nat /\ units' \in 0 .. MaxUnits
        /\ units' = value' + Cardinality(Handed)
    BY <1>1, <1>3
  <1>5. suspend_thread = <<>>
    BY <1>1 DEF Inv, Waits, UnitsConserved
  <1>6. UnitsConserved'
    BY <1>1, <1>2, <1>4, <1>5 DEF UnitsConserved
  <1>7. Waits'
    BY <1>1, <1>4, <1>6 DEF Inv, Waits
  <1>8. Flow' /\ Placed' /\ Table'
    BY <1>1 DEF Inv, Flow, Placed, Table, clock
  <1>9. Timers'
    BY <1>1, TimersKept DEF Inv, clock
  <1> QED BY <1>7, <1>8, <1>9 DEF Inv

(* rt_sem_take finds none and waits.                                       *)
LEMMA TakeWaitStep ==
  ASSUME Inv, NEW t \in Threads, NEW n \in FOREVER .. Half - 1, TakeWait(t, n)
  PROVE  Inv'
  <1>1. /\ sched.current = t /\ pc[t] = "run" /\ ~checking /\ sched.lock_nest = 0
        /\ <<t, "take", n>> \in Calls /\ Suspend(t) /\ n # 0 /\ value = 0
        /\ IF n = FOREVER THEN TimerStop(t) ELSE TimerStart(t, n)
        /\ error' = [error EXCEPT ![t] = RT_EOK]
        /\ suspend_thread' = Append(suspend_thread, t)
        /\ pc' = [pc EXCEPT ![t] = "take_sched"]
        /\ UNCHANGED <<clock, value, units, irq>>
    BY DEF TakeWait, Queued, Calling, Runs, Goto
  <1>2. t # idle
    BY <1>1, SchedAssumption
  <1>3. Table
    BY DEF Inv
  <1>4. /\ Table' /\ sched'.stat = [sched.stat EXCEPT ![t] = "SUSPEND"]
        /\ sched'.current = t /\ sched'.lock_nest = 0
    BY <1>1, <1>2, <1>3, Suspends
  <1>5. /\ sched.stat \in [Threads -> Stats] /\ pc \in [Threads -> Stages]
        /\ error \in [Threads -> {RT_EOK, RT_ETIMEOUT}]
    BY <1>3 DEF Table, TableOf, States, Inv, Flow, Waits
  <1>6. sched.stat[t] = "RUNNING" /\ t \in Threads \ activated /\ ~In(t, suspend_thread)
    BY <1>1, CurrentRuns
  <1>7. /\ pc' \in [Threads -> Stages] /\ pc'[t] = "take_sched"
        /\ error' \in [Threads -> {RT_EOK, RT_ETIMEOUT}] /\ error'[t] = RT_EOK
        /\ \A u \in Threads : u # t => /\ pc'[u] = pc[u] /\ sched'.stat[u] = sched.stat[u]
                                       /\ error'[u] = error[u]
        /\ sched'.stat[t] = "SUSPEND"
    BY <1>1, <1>4, <1>5 DEF Stages
  <1>8. Flow'
    BY <1>1, <1>4, <1>7 DEF Inv, Flow, clock, Taking
  <1>9. Placed'
    BY <1>4, <1>7 DEF Placed, BeforeSchedule
  <1>10. /\ suspend_thread' \in Seq(Threads) /\ Distinct(suspend_thread')
         /\ \A u \in Threads : In(u, suspend_thread') <=> In(u, suspend_thread) \/ u = t
    BY <1>1, <1>6, JoinList DEF Inv, Waits
  <1>11. Waits'
    <2>1. Handed' = Handed
      BY <1>1, <1>7 DEF Handed
    <2>2. UnitsConserved'
      BY <1>1, <2>1 DEF Inv, Waits, UnitsConserved
    <2>3. \A u \in Threads : In(u, suspend_thread') =>
            sched'.stat[u] = "SUSPEND" /\ pc'[u] \in Taking /\ error'[u] = RT_EOK
      BY <1>7, <1>10 DEF Inv, Waits, Taking
    <2>4. \A u \in Threads : sched'.stat[u] = "SUSPEND" /\ pc'[u] \in Taking => In(u, suspend_thread')
      BY <1>7, <1>10 DEF Inv, Waits
    <2>5. value' \in Nat /\ units' \in 0 .. MaxUnits
      BY <1>1 DEF Inv, Waits
    <2> QED BY <1>7, <1>10, <2>2, <2>3, <2>4, <2>5 DEF Waits
  <1>12. Timers'
    <2>1. UNCHANGED <<rt_tick, checking>> /\ Timers
      BY <1>1 DEF clock, Inv
    <2>2. \A u \in Threads : sched.stat[u] = "SUSPEND" => sched'.stat[u] = "SUSPEND"
      BY <1>7
    <2>3. CASE n = FOREVER
      <3>1. Forget(t) /\ rt_timer_list' = rt_timer_list
        BY <1>1, <1>6, <2>3 DEF TimerStop
      <3> QED BY <1>6, <2>1, <2>2, <3>1, TimerStops
    <2>4. CASE n # FOREVER
      <3>1. n \in 0 .. Half - 1 /\ TimerStart(t, n)
        BY <1>1, <2>4, HalfOfRange DEF FOREVER
      <3> QED BY <1>1, <1>6, <1>7, <2>1, <2>2, <3>1, TimerStarts
    <2> QED BY <2>3, <2>4
  <1> QED BY <1>4, <1>8, <1>9, <1>11, <1>12 DEF Inv

(* rt_sem_take returns.                                                    *)
LEMMA TakeReturnStep ==
  ASSUME Inv, NEW t \in Threads, TakeReturn(t)
  PROVE  Inv'
  <1>1. /\ sched.current = t /\ pc[t] = "take_ret" /\ pc' = [pc EXCEPT ![t] = "run"]
        /\ units' = IF error[t] = RT_EOK THEN units - 1 ELSE units
        /\ UNCHANGED <<sched, clock, timers, value, suspend_thread, error, irq>>
    BY DEF TakeReturn, Runs, Goto
  <1>2. sched.stat[t] = "RUNNING" /\ ~In(t, suspend_thread)
    BY <1>1, CurrentRuns
  <1>3. pc \in [Threads -> Stages]
    BY DEF Inv, Flow
  <1>4. /\ pc' \in [Threads -> Stages] /\ pc'[t] = "run"
        /\ \A u \in Threads : u # t => pc'[u] = pc[u]
    BY <1>1, <1>3 DEF Stages
  <1>5. Flow'
    BY <1>1, <1>2, <1>4 DEF Inv, Flow, clock
  <1>6. Placed'
    BY <1>1, <1>4 DEF Inv, Placed, BeforeSchedule
  <1>7. /\ value \in Nat /\ units \in 0 .. MaxUnits /\ units = value + Cardinality(Handed)
        /\ IsFiniteSet(Handed) /\ Cardinality(Handed) \in Nat /\ MaxUnits \in Nat
    BY HandedFinite, SchedAssumption DEF Inv, Waits, UnitsConserved
  <1>8. Handed' = Handed \ {t}
    BY <1>1, <1>4 DEF Handed
  <1>9. t \in Handed <=> error[t] = RT_EOK
    BY <1>1, <1>2 DEF Handed
  <1>10. Cardinality(Handed \ {t}) = IF t \in Handed THEN Cardinality(Handed) - 1 ELSE Cardinality(Handed)
    BY <1>7, FS_RemoveElement
  <1>11. IsFiniteSet(Handed \ {t}) /\ Cardinality(Handed \ {t}) \in Nat
    BY <1>7, FS_RemoveElement, FS_CardinalityType
  <1>12. units' = value + Cardinality(Handed \ {t}) /\ units' \in 0 .. MaxUnits
    BY <1>1, <1>7, <1>9, <1>10, <1>11
  <1>13. UnitsConserved'
    BY <1>1, <1>8, <1>12 DEF Inv, Waits, UnitsConserved
  <1>14. Waits'
    BY <1>1, <1>2, <1>4, <1>12, <1>13 DEF Inv, Waits, Taking
  <1>15. Timers'
    BY <1>1, TimersKept DEF Inv, clock
  <1> QED BY <1>1, <1>5, <1>6, <1>14, <1>15 DEF Inv, Table

(* rt_sem_release up to its rt_schedule, by a thread that executes its own *)
(* code or by an interrupt.                                                *)
LEMMA UnitReleased ==
  ASSUME Inv, ReleaseUnit, UNCHANGED <<clock, error>>,
         \A u \in Threads : pc'[u] \in Taking <=> pc[u] \in Taking
  PROVE  /\ Table' /\ Waits' /\ Timers'
         /\ sched'.current = sched.current /\ sched'.lock_nest = sched.lock_nest
         /\ suspend_thread = <<>> => sched' = sched
         /\ \A u \in Threads : sched'.stat[u] = "SUSPEND" => sched.stat[u] = "SUSPEND"
         /\ sched.stat[sched.current] = "RUNNING" => sched'.stat[sched.current] = "RUNNING"
         /\ \/ sched'.stat[sched.current] = "RUNNING"
            \/ sched'.stat[sched.current] = sched.stat[sched.current]
  <1>1. /\ value \in Nat /\ units \in 0 .. MaxUnits /\ units = value + Cardinality(Handed)
        /\ IsFiniteSet(Handed) /\ Cardinality(Handed) \in Nat /\ MaxUnits \in Nat
    BY HandedFinite, SchedAssumption DEF Inv, Waits, UnitsConserved
  <1>2. units < MaxUnits /\ units' = units + 1 /\ units' \in 0 .. MaxUnits
    <2>1. units < MaxUnits /\ units' = units + 1
      BY DEF ReleaseUnit
    <2> QED BY <1>1, <2>1
  <1>3. CASE suspend_thread = <<>>
    <2>1. value' = value + 1 /\ UNCHANGED <<sched, suspend_thread, timers>>
      BY <1>3 DEF ReleaseUnit
    <2>2. Handed' = Handed
      BY <2>1 DEF Handed, Taking
    <2>3. value' \in Nat /\ units' = value' + Cardinality(Handed)
      BY <1>1, <1>2, <2>1
    <2>4. UnitsConserved'
      BY <1>3, <2>1, <2>2, <2>3 DEF UnitsConserved
    <2>5. Waits'
      BY <1>2, <2>1, <2>3, <2>4 DEF Inv, Waits
    <2>6. Timers'
      BY <2>1, TimersKept DEF Inv, clock
    <2> QED BY <1>3, <2>1, <2>5, <2>6 DEF Inv, Table
  <1>4. CASE suspend_thread # <<>>
    <2> DEFINE f == Head(suspend_thread)
               r == sched'
    <2>1. /\ r = InsertThread(sched, f) /\ suspend_thread' = Tail(suspend_thread)
          /\ TimerStop(f) /\ value' = value
      BY <1>4 DEF ReleaseUnit
    <2>2. /\ f \in Threads /\ In(f, suspend_thread)
          /\ suspend_thread' \in Seq(Threads) /\ Distinct(suspend_thread')
          /\ \A u : In(u, suspend_thread') <=> In(u, suspend_thread) /\ u # f
      <3>1. suspend_thread \in Seq(Threads) /\ Distinct(suspend_thread)
        BY DEF Inv, Waits
      <3> QED BY <1>4, <2>1, <3>1, FirstLeaves
    <2> HIDE DEF f, r
    <2>3. sched.stat[f] = "SUSPEND" /\ pc[f] \in Taking /\ error[f] = RT_EOK
      BY <2>2 DEF Inv, Waits
    <2>4. /\ TableOf(r) /\ r.current = sched.current /\ r.lock_nest = sched.lock_nest
          /\ r.stat = [sched.stat EXCEPT ![f] = IF f = sched.current THEN "RUNNING" ELSE "READY"]
      BY <2>1, <2>2, <2>3, Inserted DEF Inv, Table
    <2>5. sched.stat \in [Threads -> Stats] /\ sched.current \in Threads
      BY DEF Inv, Table, TableOf, States
    <2>6. /\ r.stat[f] \in {"READY", "RUNNING"}
          /\ \A u \in Threads : u # f => r.stat[u] = sched.stat[u]
          /\ f = sched.current => r.stat[f] = "RUNNING"
      BY <2>2, <2>4, <2>5
    <2>7. Handed' = Handed \cup {f} /\ f \notin Handed
      <3>1. f \notin Handed
        BY <2>3 DEF Handed
      <3>2. ASSUME NEW u \in Threads PROVE u \in Handed' <=> u \in Handed \/ u = f
        <4>1. CASE u = f
          BY <2>2, <2>3, <2>6, <4>1 DEF Handed, Taking, r
        <4>2. CASE u # f
          BY <2>6, <4>2 DEF Handed, Taking, r
        <4> QED BY <4>1, <4>2
      <3>3. Handed' \subseteq Threads /\ Handed \subseteq Threads
        BY DEF Handed
      <3> QED BY <2>2, <3>1, <3>2, <3>3
    <2>8. Cardinality(Handed \cup {f}) = Cardinality(Handed) + 1
      BY <1>1, <2>7, FS_AddElement
    <2>9. units' = value' + Cardinality(Handed')
      BY <1>1, <1>2, <2>1, <2>7, <2>8
    <2>10. value' = 0
      BY <1>1, <1>4, <2>1 DEF Inv, Waits, UnitsConserved
    <2>11. UnitsConserved'
      BY <2>9, <2>10 DEF UnitsConserved
    <2>12. \A u \in Threads : In(u, suspend_thread') =>
             r.stat[u] = "SUSPEND" /\ pc'[u] \in Taking /\ error'[u] = RT_EOK
      BY <2>2, <2>6 DEF Inv, Waits
    <2>13. \A u \in Threads : r.stat[u] = "SUSPEND" /\ pc'[u] \in Taking => In(u, suspend_thread')
      BY <2>2, <2>6 DEF Inv, Waits
    <2>14. Waits'
      <3>1. error' \in [Threads -> {RT_EOK, RT_ETIMEOUT}] /\ value' \in Nat
        BY <2>10 DEF Inv, Waits
      <3> QED BY <1>2, <2>2, <2>11, <2>12, <2>13, <3>1 DEF Waits, r
    <2>15. Timers'
      <3>1. Timers /\ UNCHANGED <<rt_tick, checking>>
        BY DEF Inv, clock
      <3>2. /\ Forget(f)
            /\ \/ rt_timer_list' = Without(rt_timer_list, f)
               \/ f \notin activated /\ rt_timer_list' = rt_timer_list
        BY <2>1 DEF TimerStop
      <3>3. \A u \in Threads : u # f /\ sched.stat[u] = "SUSPEND" => sched'.stat[u] = "SUSPEND"
        BY <2>6 DEF r
      <3> QED BY <2>2, <3>1, <3>2, <3>3, TimerStops
    <2>16. /\ \A u \in Threads : r.stat[u] = "SUSPEND" => sched.stat[u] = "SUSPEND"
           /\ sched.stat[sched.current] = "RUNNING" => r.stat[sched.current] = "RUNNING"
           /\ \/ r.stat[sched.current] = "RUNNING"
              \/ r.stat[sched.current] = sched.stat[sched.current]
      BY <2>3, <2>5, <2>6
    <2> QED BY <1>4, <2>4, <2>14, <2>15, <2>16 DEF Table, r
  <1> QED BY <1>3, <1>4

(* rt_sem_release by a thread.                                             *)
LEMMA ReleaseStep ==
  ASSUME Inv, NEW t \in Threads, Release(t)
  PROVE  Inv'
  <1>1. /\ sched.current = t /\ pc[t] = "run" /\ ReleaseUnit
        /\ pc' = [pc EXCEPT ![t] = IF suspend_thread # <<>> THEN "sched" ELSE "run"]
        /\ UNCHANGED <<clock, error, irq>>
    BY DEF Release, Calling, Runs, Goto
  <1>2. pc \in [Threads -> Stages]
    BY DEF Inv, Flow
  <1>3. /\ pc' \in [Threads -> Stages] /\ pc'[t] \in {"run", "sched"}
        /\ suspend_thread # <<>> => pc'[t] = "sched"
        /\ \A u \in Threads : u # t => pc'[u] = pc[u]
    BY <1>1, <1>2 DEF Stages
  <1>4. sched.stat[t] = "RUNNING"
    BY <1>1, CurrentRuns
  <1>5. \A u \in Threads : pc'[u] \in Taking <=> pc[u] \in Taking
    BY <1>1, <1>3 DEF Taking
  <1>6. /\ Table' /\ Waits' /\ Timers'
        /\ sched'.current = sched.current /\ sched'.lock_nest = sched.lock_nest
        /\ suspend_thread = <<>> => sched' = sched
        /\ \A u \in Threads : sched'.stat[u] = "SUSPEND" => sched.stat[u] = "SUSPEND"
        /\ sched'.stat[sched.current] = "RUNNING"
    BY <1>1, <1>4, <1>5, UnitReleased
  <1>7. Flow'
    BY <1>1, <1>3, <1>4, <1>6 DEF Inv, Flow, clock
  <1>8. Placed'
    BY <1>1, <1>3, <1>6 DEF Inv, Placed, BeforeSchedule
  <1> QED BY <1>6, <1>7, <1>8 DEF Inv

(* rt_sem_release by the receive interrupt.                                *)
LEMMA IsrReleaseStep ==
  ASSUME Inv, IsrRelease
  PROVE  Inv'
  <1>1. /\ ReleaseUnit /\ irq' = (suspend_thread # <<>>) /\ ~irq
        /\ UNCHANGED <<clock, error, pc>>
    BY DEF IsrRelease
  <1>2. /\ Table' /\ Waits' /\ Timers'
        /\ sched'.current = sched.current /\ sched'.lock_nest = sched.lock_nest
        /\ suspend_thread = <<>> => sched' = sched
        /\ \A u \in Threads : sched'.stat[u] = "SUSPEND" => sched.stat[u] = "SUSPEND"
        /\ \/ sched'.stat[sched.current] = "RUNNING"
           \/ sched'.stat[sched.current] = sched.stat[sched.current]
    BY <1>1, UnitReleased
  <1>3. Flow'
    BY <1>1, <1>2 DEF Inv, Flow, clock
  <1>4. Placed'
    BY <1>1, <1>2 DEF Inv, Placed
  <1> QED BY <1>2, <1>3, <1>4 DEF Inv

(* The receive interrupt calls rt_schedule.                                *)
LEMMA IsrScheduleStep ==
  ASSUME Inv, IsrSchedule
  PROVE  Inv'
  <1>1. /\ sched' = Schedule(sched) /\ irq' = FALSE
        /\ UNCHANGED <<clock, timers, sem, error, pc>>
    BY DEF IsrSchedule
  <1>2. /\ TableOf(sched) /\ pc' \in [Threads -> Stages]
        /\ remaining_tick' \in [Threads -> Nat \ {0}]
        /\ \A t \in Threads : sched.stat[t] = "SUSPEND" => pc'[t] \in Taking \cup Sleeping
        /\ sched.lock_nest # 0 => /\ sched.stat[sched.current] = "RUNNING"
                                  /\ pc'[sched.current] \in {"run", "sched"}
    BY <1>1 DEF Inv, Table, Flow, clock
  <1>3. /\ Table' /\ Flow' /\ Placed'
        /\ \A u \in Threads : sched'.stat[u] = "SUSPEND" <=> sched.stat[u] = "SUSPEND"
    BY <1>1, <1>2, Rescheduled
  <1>4. Waits'
    BY <1>1, <1>3, WaitsKept DEF Inv, sem
  <1>5. Timers'
    BY <1>1, <1>3, TimersKept DEF Inv, clock
  <1> QED BY <1>3, <1>4, <1>5 DEF Inv

(* rt_tick_increase.                                                       *)
LEMMA TickStep ==
  ASSUME Inv, Tick
  PROVE  Inv'
  <1> DEFINE t == sched.current
             s == [sched EXCEPT !.yield = @ \cup {t}]
  <1>1. /\ remaining_tick' = [remaining_tick EXCEPT ![t] = Reload(t, remaining_tick[t])]
        /\ sched' = IF remaining_tick[t] = 1 THEN Schedule(s) ELSE sched
        /\ UNCHANGED <<sem, error, pc, irq>>
    BY DEF Tick, SliceEnd
  <1>2. /\ sched \in States(Threads, Priorities) /\ Sound(sched, Threads, Priorities)
        /\ sched.prio = init_priority /\ sched.lock_nest <= MaxNest
        /\ sched.stat[idle] \in {"READY", "RUNNING"} /\ t \in Threads
    BY DEF Inv, Table, TableOf, States
  <1>3. remaining_tick' \in [Threads -> Nat \ {0}]
    <2>1. remaining_tick \in [Threads -> Nat \ {0}] /\ init_tick[t] \in Nat \ {0}
      BY <1>2, SchedAssumption DEF Inv, Flow
    <2>2. Reload(t, remaining_tick[t]) \in Nat \ {0}
      BY <1>2, <2>1 DEF Reload
    <2> QED BY <1>1, <1>2, <2>1, <2>2
  <1>4. /\ Table' /\ Flow' /\ Placed'
        /\ \A u \in Threads : sched'.stat[u] = "SUSPEND" <=> sched.stat[u] = "SUSPEND"
    <2>1. CASE remaining_tick[t] # 1
      <3>1. sched' = sched
        BY <1>1, <2>1
      <3> QED BY <1>1, <1>3, <3>1 DEF Inv, Table, Flow, Placed
    <2>2. CASE remaining_tick[t] = 1
      <3>1. /\ s \in States(Threads, Priorities) /\ s.stat = sched.stat /\ s.prio = sched.prio
            /\ s.current = sched.current /\ s.table = sched.table /\ s.group = sched.group
            /\ s.lock_nest = sched.lock_nest
        BY <1>2 DEF States
      <3>2. sched' = Schedule(s)
        BY <1>1, <2>2
      <3> HIDE DEF s
      <3>3. TableOf(s)
        BY <1>2, <3>1 DEF TableOf, Sound
      <3>4. /\ pc' \in [Threads -> Stages] /\ irq' \in BOOLEAN
            /\ \A u \in Threads : s.stat[u] = "SUSPEND" => pc'[u] \in Taking \cup Sleeping
            /\ s.lock_nest # 0 => /\ s.stat[s.current] = "RUNNING"
                                  /\ pc'[s.current] \in {"run", "sched"}
        BY <1>1, <3>1 DEF Inv, Flow
      <3> QED BY <1>3, <3>1, <3>2, <3>3, <3>4, Rescheduled
    <2> QED BY <2>1, <2>2
  <1>5. Waits'
    BY <1>1, <1>4, WaitsKept DEF Inv, sem
  <1>6. Timers'
    BY <1>4, TimersTick DEF Inv
  <1> QED BY <1>4, <1>5, <1>6 DEF Inv

(* rt_thread_timeout.                                                      *)
LEMMA FireTimerStep ==
  ASSUME Inv, FireTimer
  PROVE  Inv'
  <1> DEFINE t == Head(rt_timer_list)
             s == InsertThread(sched, t)
  <1>1. /\ checking /\ Expired /\ error' = [error EXCEPT ![t] = RT_ETIMEOUT]
        /\ suspend_thread' = Without(suspend_thread, t) /\ sched' = Schedule(s)
        /\ UNCHANGED <<clock, value, units, pc, irq>>
    BY DEF FireTimer, LeaveList
  <1>2. t \in activated /\ t \in Threads /\ sched.stat[t] = "SUSPEND"
    <2>1. rt_timer_list # <<>> /\ Timers
      BY <1>1 DEF Expired, Inv
    <2>2. t \in activated /\ t \in Threads
      BY <1>1, <2>1, FirstDue
    <2> QED BY <2>1, <2>2 DEF Timers
  <1>3. TableOf(sched) /\ sched.stat \in [Threads -> Stats] /\ sched.current \in Threads
    BY DEF Inv, Table, TableOf, States
  <1>4. /\ TableOf(s) /\ s.current = sched.current /\ s.lock_nest = sched.lock_nest
        /\ s.stat = [sched.stat EXCEPT ![t] = IF t = sched.current THEN "RUNNING" ELSE "READY"]
    BY <1>2, <1>3, Inserted
  <1> HIDE DEF s
  <1>5. /\ \A u \in Threads : u # t => s.stat[u] = sched.stat[u]
        /\ s.stat[t] \in {"READY", "RUNNING"}
        /\ sched.stat[sched.current] = "RUNNING" => s.stat[sched.current] = "RUNNING"
    BY <1>2, <1>3, <1>4
  <1>6. /\ pc' \in [Threads -> Stages] /\ irq' \in BOOLEAN
        /\ remaining_tick' \in [Threads -> Nat \ {0}]
        /\ \A u \in Threads : s.stat[u] = "SUSPEND" => pc'[u] \in Taking \cup Sleeping
        /\ s.lock_nest # 0 => /\ s.stat[s.current] = "RUNNING"
                              /\ pc'[s.current] \in {"run", "sched"}
    BY <1>1, <1>2, <1>4, <1>5 DEF Inv, Flow, clock
  <1>7. /\ Table' /\ Flow' /\ Placed'
        /\ \A u \in Threads : sched'.stat[u] = "SUSPEND" <=> s.stat[u] = "SUSPEND"
    BY <1>1, <1>4, <1>6, Rescheduled
  <1>8. /\ suspend_thread' \in Seq(Threads) /\ Distinct(suspend_thread')
        /\ \A u \in Threads : In(u, suspend_thread') <=> In(u, suspend_thread) /\ u # t
    BY <1>1, <1>2, LeavesList DEF Inv, Waits
  <1>9. error \in [Threads -> {RT_EOK, RT_ETIMEOUT}]
    BY DEF Inv, Waits
  <1>10. /\ error' \in [Threads -> {RT_EOK, RT_ETIMEOUT}] /\ error'[t] = RT_ETIMEOUT
         /\ \A u \in Threads : u # t => error'[u] = error[u]
    BY <1>1, <1>2, <1>9
  <1>11. \A u \in Threads : u # t => (sched'.stat[u] = "SUSPEND" <=> sched.stat[u] = "SUSPEND")
    BY <1>5, <1>7
  <1>12. sched'.stat[t] # "SUSPEND"
    BY <1>2, <1>5, <1>7
  <1>13. Handed' = Handed
    <2>1. t \notin Handed
      BY <1>2 DEF Handed
    <2>2. t \notin Handed'
      BY <1>10 DEF Handed, RT_EOK, RT_ETIMEOUT
    <2>3. ASSUME NEW u \in Threads, u # t PROVE u \in Handed' <=> u \in Handed
      BY <1>1, <1>10, <1>11, <2>3 DEF Handed
    <2>4. Handed \subseteq Threads /\ Handed' \subseteq Threads
      BY DEF Handed
    <2> QED BY <2>1, <2>2, <2>3, <2>4
  <1>14. value > 0 => suspend_thread' = <<>>
    <2> SUFFICES ASSUME value > 0 PROVE suspend_thread' = <<>>
      OBVIOUS
    <2>1. suspend_thread = <<>>
      BY DEF Inv, Waits, UnitsConserved
    <2>2. ~\E j \in 1 .. Len(suspend_thread) : suspend_thread[j] = t
      BY <2>1
    <2> QED BY <1>1, <2>1, <2>2 DEF Without
  <1>15. UnitsConserved'
    BY <1>1, <1>13, <1>14 DEF Inv, Waits, UnitsConserved
  <1>16. \A u \in Threads : In(u, suspend_thread') =>
           sched'.stat[u] = "SUSPEND" /\ pc'[u] \in Taking /\ error'[u] = RT_EOK
    BY <1>1, <1>8, <1>10, <1>11 DEF Inv, Waits
  <1>17. \A u \in Threads : sched'.stat[u] = "SUSPEND" /\ pc'[u] \in Taking => In(u, suspend_thread')
    BY <1>1, <1>8, <1>11, <1>12 DEF Inv, Waits
  <1>18. value' \in Nat /\ units' \in 0 .. MaxUnits
    BY <1>1 DEF Inv, Waits
  <1>19. Waits'
    BY <1>8, <1>10, <1>15, <1>16, <1>17, <1>18 DEF Waits
  <1>20. Timers'
    BY <1>11, TimersFire DEF Inv
  <1> QED BY <1>7, <1>19, <1>20 DEF Inv

(* rt_timer_check is done.                                                 *)
LEMMA CheckDoneStep ==
  ASSUME Inv, CheckDone
  PROVE  Inv'
  <1>1. UNCHANGED <<sched, remaining_tick, sem, error, pc, irq>>
    BY DEF CheckDone
  <1>2. Table' /\ Flow' /\ Placed'
    BY <1>1 DEF Inv, Table, Flow, Placed
  <1>3. Waits'
    BY <1>1, WaitsKept DEF Inv, sem
  <1> QED BY <1>2, <1>3, TimersChecked DEF Inv

-----------------------------------------------------------------------------
(* The inductive invariant.                                                *)
LEMMA Invariant == Spec => []Inv
  <1>1. Inv /\ [Next]_vars => Inv'
    <2> SUFFICES ASSUME Inv, [Next]_vars PROVE Inv'
      OBVIOUS
    <2>1. CASE UNCHANGED vars
      <3>1. UNCHANGED <<sched, clock, timers, sem, error, pc, irq>>
        BY <2>1 DEF vars
      <3>2. Table' /\ Flow' /\ Placed'
        BY <3>1 DEF Inv, Table, Flow, Placed, clock
      <3>3. Waits'
        BY <3>1, WaitsKept DEF Inv, sem
      <3>4. Timers'
        BY <3>1, TimersKept DEF Inv, clock
      <3> QED BY <3>2, <3>3, <3>4 DEF Inv
    <2>2. ASSUME NEW t \in Threads, Kernel(t) PROVE Inv'
      BY <2>2, CallScheduleStep, SleepReturnStep, TakeReturnStep DEF Kernel
    <2>3. ASSUME NEW t \in Threads, Call(t) PROVE Inv'
      <3>1. CASE \E u \in Threads : Startup(t, u)
        BY <3>1, StartupStep
      <3>2. CASE Exit(t) \/ Yield(t) \/ EnterCritical(t) \/ Release(t)
        BY <3>2, ExitStep, YieldStep, EnterCriticalStep, ReleaseStep
      <3>3. CASE \E n \in FOREVER .. Half - 1 : Sleep(t, n) \/ Take(t, n) \/ TakeWait(t, n)
        BY <3>3, SleepStep, TakeStep, TakeWaitStep
      <3> QED BY <2>3, <3>1, <3>2, <3>3 DEF Call
    <2>4. ASSUME NEW t \in Threads, ExitCritical(t) PROVE Inv'
      BY <2>4, ExitCriticalStep
    <2>5. CASE IsrRelease \/ IsrSchedule \/ Tick \/ FireTimer \/ CheckDone
      BY <2>5, IsrReleaseStep, IsrScheduleStep, TickStep, FireTimerStep, CheckDoneStep
    <2> QED BY <2>1, <2>2, <2>3, <2>4, <2>5 DEF Next
  <1> QED BY <1>1, InitHolds, PTL DEF Spec

(* Every variable of the kernel keeps its type: no counter leaves its      *)
(* range, no time slice reaches zero.                                      *)
THEOREM TypeCorrect == Spec => []TypeOK
  <1>1. Inv => TypeOK
    <2> SUFFICES ASSUME Inv PROVE TypeOK
      OBVIOUS
    <2>1. /\ sched.current \in Threads /\ sched.yield \subseteq Threads
          /\ sched.stat \in [Threads -> {"INIT", "READY", "RUNNING", "SUSPEND", "CLOSE"}]
          /\ sched.prio = init_priority /\ sched.table \in [Priorities -> Seq(Threads)]
          /\ sched.group \subseteq Priorities
      BY DEF Inv, Table, TableOf, States, Stats
    <2>2. sched.lock_nest \in 0 .. MaxNest
      <3>1. sched.lock_nest \in Nat /\ sched.lock_nest <= MaxNest /\ MaxNest \in Nat
        BY SchedAssumption DEF Inv, Table, TableOf, States
      <3> QED BY <3>1
    <2>3. due \in [Threads -> 0 .. Half]
      <3>1. \A t \in Threads : due[t] \in 0 .. Half
        BY HalfOfRange DEF Inv, Timers
      <3> QED BY <3>1 DEF Inv, Timers
    <2>4. value \in 0 .. MaxUnits
      <3>1. value \in Nat /\ units \in 0 .. MaxUnits /\ units = value + Cardinality(Handed)
            /\ Cardinality(Handed) \in Nat /\ MaxUnits \in Nat
        BY HandedFinite, SchedAssumption DEF Inv, Waits, UnitsConserved
      <3> QED BY <3>1
    <2>5. /\ rt_tick \in Ticks /\ timeout_tick \in [Threads -> Ticks]
          /\ rt_timer_list \in Seq(Threads) /\ activated \subseteq Threads /\ checking \in BOOLEAN
      BY DEF Inv, Timers
    <2>6. /\ remaining_tick \in [Threads -> Nat \ {0}] /\ pc \in [Threads -> Stages]
          /\ irq \in BOOLEAN
      BY DEF Inv, Flow
    <2>7. /\ units \in 0 .. MaxUnits /\ suspend_thread \in Seq(Threads)
          /\ error \in [Threads -> {RT_EOK, RT_ETIMEOUT}]
      BY DEF Inv, Waits
    <2> QED BY <2>1, <2>2, <2>3, <2>4, <2>5, <2>6, <2>7 DEF TypeOK
  <1> QED BY <1>1, Invariant, PTL

(* The ready table, the states of the threads and the wait list agree,     *)
(* whichever interrupts fall between suspending a thread and rt_schedule.  *)
THEOREM TableStaysSound == Spec => []TableSound
  <1>1. Inv => TableSound
    <2> SUFFICES ASSUME Inv PROVE TableSound
      OBVIOUS
    <2>1. Sound(sched, Threads, Priorities)
      BY DEF Inv, Table, TableOf
    <2> QED BY <2>1 DEF Inv, Waits, Distinct, Taking, TableSound
  <1> QED BY <1>1, Invariant, PTL

(* rt_schedule is called wherever it is needed: a thread executes its own  *)
(* code only when no ready thread has a higher priority.                   *)
THEOREM HighestAlwaysRuns == Spec => []HighestRuns
  <1>1. Inv => HighestRuns
    <2> SUFFICES ASSUME Inv, NEW t \in Threads, Runs(t, "run"), sched.lock_nest = 0
                 PROVE  /\ sched.stat[t] = "RUNNING"
                        /\ \A u \in Threads : sched.stat[u] = "READY" => sched.prio[t] <= sched.prio[u]
      BY DEF HighestRuns
    <2>1. sched.current = t /\ pc[t] = "run" /\ ~irq
      BY DEF Runs
    <2>2. sched.stat[t] = "RUNNING"
      BY <2>1, CurrentRuns
    <2> QED BY <2>1, <2>2 DEF Inv, Placed, Highest, BeforeSchedule
  <1> QED BY <1>1, Invariant, PTL

(* The assertion of rt_thread_timeout holds: a running timer belongs to a  *)
(* suspended thread.                                                       *)
THEOREM TimersNeverStale == Spec => []NoStaleTimer
  <1>1. Inv => NoStaleTimer
    BY DEF Inv, Timers, NoStaleTimer
  <1> QED BY <1>1, Invariant, PTL

(* Waits end at their tick over every wrap of the clock, for any range of  *)
(* it: the comparisons of rt_timer_start and rt_timer_check by differences *)
(* order the list and find exactly the timers that are due.                *)
THEOREM WaitsEndOnTime == Spec => []OnTime
  <1>1. Inv => OnTime
    <2> SUFFICES ASSUME Inv PROVE OnTime
      OBVIOUS
    <2>1. \A i, j \in 1 .. Len(rt_timer_list) : i < j => due[rt_timer_list[i]] <= due[rt_timer_list[j]]
      BY DEF Inv, Timers, Ordered
    <2>2. checking /\ rt_timer_list # <<>> => (Expired <=> due[Head(rt_timer_list)] = 0)
      BY FirstDue DEF Inv
    <2>3. ~checking => \A t \in activated : due[t] > 0
      BY DEF Inv, Timers
    <2>4. ASSUME NEW t \in Threads, pc[t] \in {"take_sched", "take_ret"}, error[t] = RT_ETIMEOUT
          PROVE  due[t] = 0
      <3>1. ~In(t, suspend_thread)
        BY <2>4 DEF Inv, Waits, RT_EOK, RT_ETIMEOUT
      <3>2. sched.stat[t] # "SUSPEND"
        BY <2>4, <3>1 DEF Inv, Waits, Taking
      <3> QED BY <3>2 DEF Inv, Timers
    <2>5. ASSUME NEW t \in Threads, Runnable(t) PROVE due[t] = 0
      BY <2>5 DEF Inv, Timers, Runnable
    <2> QED BY <2>1, <2>2, <2>3, <2>4, <2>5 DEF OnTime
  <1> QED BY <1>1, Invariant, PTL

(* No unit of a semaphore is lost or doubled when releases by threads and  *)
(* by interrupts meet time limits, and nobody waits while there is a unit. *)
THEOREM UnitsStayConserved == Spec => []UnitsConserved
  <1>1. Inv => UnitsConserved
    BY DEF Inv, Waits
  <1> QED BY <1>1, Invariant, PTL

-----------------------------------------------------------------------------
(* The kernel's semaphore implements the abstract one                      *)

(* Which threads have been given a unit and which have timed out can be    *)
(* read off the wait list: a thread in rt_sem_take is suspended exactly    *)
(* while it is in the list.                                                *)
LEMMA WhoHasLeft ==
  ASSUME Inv, NEW t \in Threads
  PROVE  /\ t \in Handed <=>
              pc[t] \in Taking /\ ~In(t, suspend_thread) /\ error[t] = RT_EOK
         /\ t \in TimedOut <=>
              pc[t] \in Taking /\ ~In(t, suspend_thread) /\ error[t] = RT_ETIMEOUT
  BY DEF Inv, Waits, Handed, TimedOut, Taking

(* The same in the next state.                                             *)
LEMMA WhoHasLeftNext ==
  ASSUME Inv', NEW t \in Threads
  PROVE  /\ t \in Handed' <=>
              pc'[t] \in Taking /\ ~In(t, suspend_thread') /\ error'[t] = RT_EOK
         /\ t \in TimedOut' <=>
              pc'[t] \in Taking /\ ~In(t, suspend_thread') /\ error'[t] = RT_ETIMEOUT
  BY DEF Inv, Waits, Handed, TimedOut, Taking

(* Both are sets of threads.                                               *)
LEMMA WhoAreThreads ==
  /\ Handed \subseteq Threads /\ TimedOut \subseteq Threads
  /\ Handed' \subseteq Threads /\ TimedOut' \subseteq Threads
  BY DEF Handed, TimedOut

(* A step that leaves the semaphore and the threads in rt_sem_take alone.  *)
LEMMA SemKept ==
  ASSUME Inv, Inv', UNCHANGED <<value, suspend_thread>>,
         \A t \in Threads : /\ pc'[t] \in Taking <=> pc[t] \in Taking
                            /\ pc[t] \in Taking => error'[t] = error[t]
  PROVE  UNCHANGED <<value, suspend_thread, Handed, TimedOut>>
  <1>1. ASSUME NEW t \in Threads
        PROVE  (t \in Handed' <=> t \in Handed) /\ (t \in TimedOut' <=> t \in TimedOut)
    BY WhoHasLeft, WhoHasLeftNext
  <1> QED BY <1>1, WhoAreThreads

(* rt_sem_take finds a unit.                                               *)
LEMMA TakeIsTake ==
  ASSUME Inv, Inv', NEW t \in Threads, NEW n, Take(t, n)
  PROVE  Sem!Take(t)
  <1>1. /\ sched.current = t /\ pc[t] = "run" /\ value > 0 /\ value' = value - 1
        /\ UNCHANGED <<suspend_thread, error, pc>> /\ UNCHANGED sched
    BY DEF Take, Calling, Runs
  <1>2. ~In(t, suspend_thread)
    BY <1>1, CurrentRuns
  <1>3. t \notin Handed /\ t \notin TimedOut
    BY <1>1, WhoHasLeft DEF Taking
  <1>4. UNCHANGED <<Handed, TimedOut>>
    BY <1>1 DEF Handed, TimedOut
  <1> QED BY <1>1, <1>2, <1>3, <1>4 DEF Sem!Take, Sem!Pending, In

(* It finds none and waits.                                                *)
LEMMA TakeWaitIsWait ==
  ASSUME Inv, Inv', NEW t \in Threads, NEW n, TakeWait(t, n)
  PROVE  Sem!Wait(t)
  <1>1. /\ sched.current = t /\ pc[t] = "run" /\ value = 0 /\ value' = value
        /\ suspend_thread' = Append(suspend_thread, t)
        /\ pc' = [pc EXCEPT ![t] = "take_sched"] /\ error' = [error EXCEPT ![t] = RT_EOK]
    BY DEF TakeWait, Queued, Calling, Runs, Goto
  <1>2. /\ ~In(t, suspend_thread) /\ suspend_thread \in Seq(Threads)
        /\ Distinct(suspend_thread) /\ pc \in [Threads -> Stages]
        /\ error \in [Threads -> {RT_EOK, RT_ETIMEOUT}]
    BY <1>1, CurrentRuns DEF Inv, Waits, Flow
  <1>3. t \notin Handed /\ t \notin TimedOut
    BY <1>1, WhoHasLeft DEF Taking
  <1>4. \A u \in Threads : In(u, suspend_thread') <=> In(u, suspend_thread) \/ u = t
    BY <1>1, <1>2, JoinList
  <1>5. \A u \in Threads : u # t => pc'[u] = pc[u] /\ error'[u] = error[u]
    BY <1>1, <1>2
  <1>6. ASSUME NEW u \in Threads
        PROVE  (u \in Handed' <=> u \in Handed) /\ (u \in TimedOut' <=> u \in TimedOut)
    <2>1. CASE u = t
      BY <1>3, <1>4, <2>1, WhoHasLeftNext
    <2>2. CASE u # t
      BY <1>4, <1>5, <2>2, WhoHasLeft, WhoHasLeftNext
    <2> QED BY <2>1, <2>2
  <1>7. UNCHANGED <<Handed, TimedOut>>
    BY <1>6, WhoAreThreads
  <1> QED BY <1>1, <1>2, <1>3, <1>7 DEF Sem!Wait, Sem!Pending, In

(* It returns, with the unit or with the error.                            *)
LEMMA TakeReturnIsReturn ==
  ASSUME Inv, Inv', NEW t \in Threads, TakeReturn(t)
  PROVE  Sem!Return(t) \/ Sem!GiveUp(t)
  <1>1. /\ sched.current = t /\ pc[t] = "take_ret" /\ pc' = [pc EXCEPT ![t] = "run"]
        /\ UNCHANGED <<value, suspend_thread, error>>
    BY DEF TakeReturn, Runs, Goto
  <1>2. /\ ~In(t, suspend_thread) /\ pc \in [Threads -> Stages]
        /\ error \in [Threads -> {RT_EOK, RT_ETIMEOUT}]
    BY <1>1, CurrentRuns DEF Inv, Waits, Flow
  <1>3. /\ t \in Handed <=> error[t] = RT_EOK
        /\ t \in TimedOut <=> error[t] = RT_ETIMEOUT
        /\ t \notin Handed' /\ t \notin TimedOut'
    <2>1. pc[t] \in Taking /\ pc'[t] \notin Taking
      BY <1>1, <1>2 DEF Taking
    <2> QED BY <1>2, <2>1, WhoHasLeft, WhoHasLeftNext
  <1>4. ASSUME NEW u \in Threads, u # t
        PROVE  (u \in Handed' <=> u \in Handed) /\ (u \in TimedOut' <=> u \in TimedOut)
    <2>1. pc'[u] = pc[u]
      BY <1>1, <1>2, <1>4
    <2> QED BY <1>1, <2>1, WhoHasLeft, WhoHasLeftNext
  <1>5. Handed' = Handed \ {t} /\ TimedOut' = TimedOut \ {t}
    BY <1>3, <1>4, WhoAreThreads
  <1>6. RT_EOK # RT_ETIMEOUT /\ error[t] \in {RT_EOK, RT_ETIMEOUT}
    BY <1>2 DEF RT_EOK, RT_ETIMEOUT
  <1>7. CASE error[t] = RT_EOK
    <2>1. t \in Handed /\ t \notin TimedOut
      BY <1>3, <1>6, <1>7
    <2>2. TimedOut' = TimedOut
      BY <1>5, <2>1
    <2> QED BY <1>1, <1>5, <2>1, <2>2 DEF Sem!Return
  <1>8. CASE error[t] = RT_ETIMEOUT
    <2>1. t \notin Handed /\ t \in TimedOut
      BY <1>3, <1>6, <1>8
    <2>2. Handed' = Handed
      BY <1>5, <2>1
    <2> QED BY <1>1, <1>5, <2>1, <2>2 DEF Sem!GiveUp
  <1> QED BY <1>6, <1>7, <1>8

(* rt_sem_release, by a thread or by the interrupt: the unit goes to the   *)
(* thread that has waited longest, or is counted.                          *)
LEMMA ReleaseIsRelease ==
  ASSUME Inv, Inv', ReleaseUnit, UNCHANGED error,
         \A u \in Threads : pc'[u] \in Taking <=> pc[u] \in Taking
  PROVE  Sem!Release
  <1>1. /\ suspend_thread \in Seq(Threads) /\ Distinct(suspend_thread)
        /\ value \in Nat /\ units \in 0 .. MaxUnits /\ MaxUnits \in Nat
        /\ units = value + Cardinality(Handed) /\ Cardinality(Handed) \in Nat
    BY HandedFinite, SchedAssumption DEF Inv, Waits, UnitsConserved
  <1>2. CASE suspend_thread = <<>>
    <2>1. units < MaxUnits /\ value' = value + 1 /\ UNCHANGED suspend_thread
      BY <1>2 DEF ReleaseUnit
    <2>2. MaxUnits + 1 \in Nat \ {0} /\ value + 1 \in 0 .. (MaxUnits + 1) - 1
      BY <1>1, <2>1
    <2>3. (value + 1) % (MaxUnits + 1) = value + 1
      BY <2>2, Remainders
    <2>4. ASSUME NEW u \in Threads
          PROVE  (u \in Handed' <=> u \in Handed) /\ (u \in TimedOut' <=> u \in TimedOut)
      BY <2>1, WhoHasLeft, WhoHasLeftNext
    <2>5. UNCHANGED <<Handed, TimedOut>>
      BY <2>4, WhoAreThreads
    <2> QED BY <1>2, <2>1, <2>3, <2>5 DEF Sem!Release
  <1>3. CASE suspend_thread # <<>>
    <2> DEFINE f == Head(suspend_thread)
    <2>1. suspend_thread' = Tail(suspend_thread) /\ value' = value
      BY <1>3 DEF ReleaseUnit
    <2>2. /\ f \in Threads /\ In(f, suspend_thread)
          /\ \A u : In(u, suspend_thread') <=> In(u, suspend_thread) /\ u # f
      BY <1>1, <1>3, <2>1, FirstLeaves
    <2> HIDE DEF f
    <2>3. pc[f] \in Taking /\ error[f] = RT_EOK
      BY <2>2 DEF Inv, Waits
    <2>4. f \in Handed' /\ f \notin TimedOut' /\ f \notin TimedOut
      <3>1. pc'[f] \in Taking /\ ~In(f, suspend_thread') /\ error'[f] = RT_EOK
        BY <2>2, <2>3
      <3>2. error'[f] # RT_ETIMEOUT /\ error[f] # RT_ETIMEOUT
        BY <2>3, <3>1 DEF RT_EOK, RT_ETIMEOUT
      <3> QED BY <2>2, <3>1, <3>2, WhoHasLeft, WhoHasLeftNext
    <2>5. ASSUME NEW u \in Threads, u # f
          PROVE  (u \in Handed' <=> u \in Handed) /\ (u \in TimedOut' <=> u \in TimedOut)
      BY <2>2, <2>5, WhoHasLeft, WhoHasLeftNext
    <2>6. Handed' = Handed \cup {f} /\ TimedOut' = TimedOut
      BY <2>2, <2>4, <2>5, WhoAreThreads
    <2> QED BY <1>3, <2>1, <2>6 DEF Sem!Release, f
  <1> QED BY <1>2, <1>3

(* A timer fires: the wait of its thread times out, if it waits for a      *)
(* unit; otherwise the thread has slept and nothing happens to the         *)
(* semaphore.                                                              *)
LEMMA FireTimerIsExpire ==
  ASSUME Inv, Inv', FireTimer
  PROVE  \/ \E i \in 1 .. Len(suspend_thread) : Sem!Expire(i)
         \/ UNCHANGED <<value, suspend_thread, Handed, TimedOut>>
  <1> DEFINE t == Head(rt_timer_list)
             q == suspend_thread
  <1>1. /\ checking /\ Expired /\ error' = [error EXCEPT ![t] = RT_ETIMEOUT]
        /\ suspend_thread' = Without(q, t) /\ UNCHANGED <<value, pc>>
    BY DEF FireTimer, LeaveList
  <1>2. t \in Threads /\ sched.stat[t] = "SUSPEND"
    <2>1. rt_timer_list # <<>> /\ Timers
      BY <1>1 DEF Expired, Inv
    <2>2. t \in activated /\ t \in Threads
      BY <1>1, <2>1, FirstDue
    <2> QED BY <2>1, <2>2 DEF Timers
  <1>3. /\ q \in Seq(Threads) /\ Distinct(q) /\ Len(q) \in Nat
        /\ error \in [Threads -> {RT_EOK, RT_ETIMEOUT}]
    BY LenProperties DEF Inv, Waits
  <1> HIDE DEF t
  <1>4. /\ error'[t] = RT_ETIMEOUT /\ error'[t] # RT_EOK
        /\ \A u \in Threads : u # t => error'[u] = error[u]
    BY <1>1, <1>2, <1>3 DEF RT_EOK, RT_ETIMEOUT
  <1>5. CASE In(t, q)
    <2> DEFINE i == CHOOSE j \in 1 .. Len(q) : q[j] = t
    <2>1. i \in 1 .. Len(q) /\ q[i] = t
      BY <1>5 DEF In
    <2>2. Without(q, t) = [j \in 1 .. Len(q) - 1 |-> IF j < i THEN q[j] ELSE q[j + 1]]
      BY <1>5 DEF In, Without
    <2> HIDE DEF i
    <2>3. Without(q, t) = [j \in 1 .. Len(q) - 1 |-> q[IF j < i THEN j ELSE j + 1]]
      BY <2>2
    <2>4. \A u \in Threads : In(u, suspend_thread') <=> In(u, q) /\ u # t
      BY <1>1, <1>2, <1>3, LeavesList
    <2>5. pc[t] \in Taking
      BY <1>2, <1>5 DEF Inv, Waits
    <2>6. t \notin Handed /\ t \notin Handed' /\ t \in TimedOut'
      BY <1>1, <1>2, <1>4, <1>5, <2>4, <2>5, WhoHasLeft, WhoHasLeftNext
    <2>7. ASSUME NEW u \in Threads, u # t
          PROVE  (u \in Handed' <=> u \in Handed) /\ (u \in TimedOut' <=> u \in TimedOut)
      BY <1>1, <1>4, <2>4, <2>7, WhoHasLeft, WhoHasLeftNext
    <2>8. Handed' = Handed /\ TimedOut' = TimedOut \cup {t}
      BY <1>2, <2>6, <2>7, WhoAreThreads
    <2>9. Sem!Expire(i)
      BY <1>1, <2>1, <2>3, <2>8 DEF Sem!Expire
    <2> QED BY <2>1, <2>9
  <1>6. CASE ~In(t, q)
    <2>1. suspend_thread' = q
      BY <1>1, <1>6 DEF Without, In
    <2>2. pc[t] \notin Taking
      BY <1>2, <1>6 DEF Inv, Waits
    <2>3. \A u \in Threads : /\ pc'[u] \in Taking <=> pc[u] \in Taking
                             /\ pc[u] \in Taking => error'[u] = error[u]
      BY <1>1, <1>4, <2>2
    <2> QED BY <1>1, <2>1, <2>3, SemKept
  <1> QED BY <1>5, <1>6

(* The other kernel calls and interrupts do not touch the semaphore.       *)
LEMMA OthersKeepSem ==
  ASSUME Inv, Inv', NEW t \in Threads,
         \/ CallSchedule(t) \/ SleepReturn(t) \/ Exit(t) \/ Yield(t)
         \/ EnterCritical(t) \/ ExitCritical(t)
         \/ \E u \in Threads : Startup(t, u)
         \/ \E n \in FOREVER .. Half - 1 : Sleep(t, n)
         \/ IsrSchedule \/ Tick \/ CheckDone
  PROVE  UNCHANGED <<value, suspend_thread, Handed, TimedOut>>
  <1>1. pc \in [Threads -> Stages] /\ error \in [Threads -> {RT_EOK, RT_ETIMEOUT}]
    BY DEF Inv, Flow, Waits
  <1> DEFINE Kept == /\ UNCHANGED <<value, suspend_thread>>
                     /\ \A u \in Threads : /\ pc'[u] \in Taking <=> pc[u] \in Taking
                                           /\ pc[u] \in Taking => error'[u] = error[u]
  <1>2. ASSUME CallSchedule(t) PROVE Kept
    <2>1. /\ UNCHANGED <<sem, error>>
          /\ \/ pc[t] = "sched" /\ pc' = [pc EXCEPT ![t] = "run"]
             \/ pc[t] = "sleep_sched" /\ pc' = [pc EXCEPT ![t] = "sleep_ret"]
             \/ pc[t] = "take_sched" /\ pc' = [pc EXCEPT ![t] = "take_ret"]
      BY <1>2 DEF CallSchedule, Runs, Goto
    <2> QED BY <1>1, <2>1 DEF sem, Taking
  <1>3. ASSUME SleepReturn(t) PROVE Kept
    <2>1. /\ pc[t] = "sleep_ret" /\ pc' = [pc EXCEPT ![t] = "run"]
          /\ error' = [error EXCEPT ![t] = RT_EOK] /\ UNCHANGED sem
      BY <1>3 DEF SleepReturn, Runs, Goto
    <2>2. /\ pc[t] \notin Taking /\ pc'[t] \notin Taking
          /\ \A u \in Threads : u # t => pc'[u] = pc[u] /\ error'[u] = error[u]
      BY <1>1, <2>1 DEF Taking
    <2> QED BY <2>1, <2>2 DEF sem
  <1>4. ASSUME Exit(t) PROVE Kept
    <2>1. pc[t] = "run" /\ pc' = [pc EXCEPT ![t] = "gone"] /\ UNCHANGED <<sem, error>>
      BY <1>4 DEF Exit, Calling, Runs, Goto
    <2> QED BY <1>1, <2>1 DEF sem, Taking
  <1>5. ASSUME Yield(t) \/ \E u \in Threads : Startup(t, u) PROVE Kept
    <2>1. pc[t] = "run" /\ pc' = [pc EXCEPT ![t] = "sched"] /\ UNCHANGED <<sem, error>>
      BY <1>5 DEF Yield, Startup, Calling, Runs, Goto
    <2> QED BY <1>1, <2>1 DEF sem, Taking
  <1>6. ASSUME EnterCritical(t) \/ ExitCritical(t) PROVE Kept
    <2>1. CASE EnterCritical(t)
      BY <2>1 DEF EnterCritical, sem
    <2>2. CASE ExitCritical(t)
      <3>1. /\ pc[t] = "run" /\ UNCHANGED <<sem, error>>
            /\ pc' = [pc EXCEPT ![t] = IF sched.lock_nest = 1 THEN "sched" ELSE "run"]
        BY <2>2 DEF ExitCritical, Runs, Goto
      <3> QED BY <1>1, <3>1 DEF sem, Taking
    <2> QED BY <1>6, <2>1, <2>2
  <1>7. ASSUME \E n \in FOREVER .. Half - 1 : Sleep(t, n) PROVE Kept
    <2>1. pc[t] = "run" /\ pc' = [pc EXCEPT ![t] = "sleep_sched"] /\ UNCHANGED <<sem, error>>
      BY <1>7 DEF Sleep, Calling, Runs, Goto
    <2> QED BY <1>1, <2>1 DEF sem, Taking
  <1>8. ASSUME IsrSchedule \/ Tick \/ CheckDone PROVE Kept
    BY <1>8 DEF IsrSchedule, Tick, CheckDone, sem
  <1>9. Kept
    BY <1>2, <1>3, <1>4, <1>5, <1>6, <1>7, <1>8
  <1> QED BY <1>9, SemKept

(* To the threads that call it the semaphore of the kernel is the abstract *)
(* one: although rt_sem_take, rt_sem_release and rt_thread_timeout are cut *)
(* into pieces by interrupts and by the scheduler, units go to the threads *)
(* in the order of arrival and a wait ends with a unit or a time-out, not  *)
(* with both.                                                              *)
THEOREM ImplementsSemaphore == Spec => IsSemaphore
  <1> DEFINE mapped == <<value, suspend_thread, Handed, TimedOut>>
  <1>1. Init => Sem!Init
    <2> SUFFICES ASSUME Init PROVE Sem!Init
      OBVIOUS
    <2>1. value = 0 /\ suspend_thread = <<>> /\ pc = [t \in Threads |-> "run"]
      BY DEF Init
    <2>2. Handed = {} /\ TimedOut = {}
      BY <2>1 DEF Handed, TimedOut
    <2> QED BY <2>1, <2>2 DEF Sem!Init
  <1>2. Inv /\ Inv' /\ [Next]_vars => [Sem!Next]_mapped
    <2> SUFFICES ASSUME Inv, Inv', [Next]_vars PROVE Sem!Next \/ UNCHANGED mapped
      OBVIOUS
    <2> HIDE DEF mapped
    <2>1. CASE UNCHANGED vars
      <3>1. UNCHANGED <<sched, sem, error, pc>>
        BY <2>1 DEF vars
      <3> QED BY <3>1 DEF mapped, sem, Handed, TimedOut
    <2>2. ASSUME NEW t \in Threads, TakeReturn(t) PROVE Sem!Next
      BY <2>2, TakeReturnIsReturn DEF Sem!Next
    <2>3. ASSUME NEW t \in Threads, NEW n \in FOREVER .. Half - 1, Take(t, n) \/ TakeWait(t, n)
          PROVE  Sem!Next
      BY <2>3, TakeIsTake, TakeWaitIsWait DEF Sem!Next
    <2>4. ASSUME NEW t \in Threads, Release(t) PROVE Sem!Next
      <3>1. /\ pc[t] = "run" /\ ReleaseUnit /\ UNCHANGED error
            /\ pc' = [pc EXCEPT ![t] = IF suspend_thread # <<>> THEN "sched" ELSE "run"]
        BY <2>4 DEF Release, Calling, Runs, Goto
      <3>2. pc \in [Threads -> Stages]
        BY DEF Inv, Flow
      <3>3. \A u \in Threads : pc'[u] \in Taking <=> pc[u] \in Taking
        BY <3>1, <3>2 DEF Taking
      <3> QED BY <3>1, <3>3, ReleaseIsRelease DEF Sem!Next
    <2>5. CASE IsrRelease
      <3>1. ReleaseUnit /\ UNCHANGED <<error, pc>>
        BY <2>5 DEF IsrRelease
      <3> QED BY <3>1, ReleaseIsRelease DEF Sem!Next
    <2>6. CASE FireTimer
      BY <2>6, FireTimerIsExpire DEF Sem!Next, mapped
    <2>7. ASSUME NEW t \in Threads,
                 \/ CallSchedule(t) \/ SleepReturn(t) \/ Exit(t) \/ Yield(t)
                 \/ EnterCritical(t) \/ ExitCritical(t)
                 \/ \E u \in Threads : Startup(t, u)
                 \/ \E n \in FOREVER .. Half - 1 : Sleep(t, n)
          PROVE  UNCHANGED mapped
      BY <2>7, OthersKeepSem DEF mapped
    <2>8. CASE IsrSchedule \/ Tick \/ CheckDone
      <3>1. idle \in Threads
        BY SchedAssumption
      <3> QED BY <2>8, <3>1, OthersKeepSem DEF mapped
    <2> QED BY <2>1, <2>2, <2>3, <2>4, <2>5, <2>6, <2>7, <2>8 DEF Next, Kernel, Call
  <1> QED BY <1>1, <1>2, Invariant, PTL DEF Spec, IsSemaphore, Sem!Spec

-----------------------------------------------------------------------------
(* The order of the ready threads                                          *)

(* A step that leaves the lists and the current thread alone.              *)
LEMMA OrderStays ==
  ASSUME sched'.table = sched.table, sched'.current = sched.current
  PROVE  InOrder(sched, sched', Priorities)
  <1> DEFINE r == sched'
  <1>1. r.table = sched.table /\ r.current = sched.current
    OBVIOUS
  <1> HIDE DEF r
  <1>2. InOrder(sched, r, Priorities)
    BY <1>1, SameTable, GrownInOrder
  <1> QED BY <1>2 DEF r

(* rt_schedule, after something that changed no list.                      *)
LEMMA ScheduledInOrder ==
  ASSUME NEW s, TableOf(s), Grown(sched, s, Priorities), sched' = Schedule(s)
  PROVE  InOrder(sched, sched', Priorities)
  <1>1. /\ Priorities \in SUBSET Nat /\ s \in States(Threads, Priorities)
        /\ Sound(s, Threads, Priorities)
    BY SchedAssumption DEF TableOf
  <1>2. InOrder(sched, Schedule(s), Priorities)
    BY <1>1, ScheduleInOrder
  <1> QED BY <1>2

(* rt_thread_resume, for a thread that is not ready.                       *)
LEMMA ResumedLast ==
  ASSUME NEW s, TableOf(s), NEW u \in Threads, s.stat[u] # "READY"
  PROVE  Grown(s, InsertThread(s, u), Priorities)
  <1>1. s \in States(Threads, Priorities) /\ Sound(s, Threads, Priorities)
    BY DEF TableOf
  <1>2. \A p \in Priorities : ~In(u, s.table[p])
    BY <1>1 DEF Sound
  <1> QED BY <1>1, <1>2, InsertGrows

(* rt_sem_release makes the first waiting thread ready.                    *)
LEMMA ReleaseInOrder ==
  ASSUME Inv, ReleaseUnit
  PROVE  InOrder(sched, sched', Priorities)
  <1>1. CASE suspend_thread = <<>>
    BY <1>1, OrderStays DEF ReleaseUnit
  <1>2. CASE suspend_thread # <<>>
    <2> DEFINE f == Head(suspend_thread)
               r == sched'
    <2>1. r = InsertThread(sched, f)
      BY <1>2 DEF ReleaseUnit
    <2>2. f \in Threads /\ In(f, suspend_thread)
      BY <1>2, HeadOfList DEF Inv, Waits
    <2> HIDE DEF f, r
    <2>3. sched.stat[f] = "SUSPEND"
      BY <2>2 DEF Inv, Waits
    <2>4. Grown(sched, r, Priorities)
      BY <2>1, <2>2, <2>3, ResumedLast DEF Inv, Table
    <2>5. InOrder(sched, r, Priorities)
      BY <2>4, GrownInOrder
    <2> QED BY <2>5 DEF r
  <1> QED BY <1>1, <1>2

(* The current thread suspends itself: no list changes.                    *)
LEMMA SuspendInOrder ==
  ASSUME Inv, Suspend(sched.current)
  PROVE  InOrder(sched, sched', Priorities)
  <1> DEFINE r == sched'
  <1>1. sched \in States(Threads, Priorities) /\ Sound(sched, Threads, Priorities)
    BY DEF Inv, Table, TableOf
  <1>2. r = SetStat(RemoveThread(sched, sched.current), sched.current, "SUSPEND")
        /\ "SUSPEND" \in Stats
    BY DEF Suspend, Stats
  <1> HIDE DEF r
  <1>3. r.table = sched.table /\ r.current = sched.current
    BY <1>1, <1>2, CurrentLeaves
  <1> QED BY <1>3, OrderStays DEF r

(* rt_thread_startup puts the new thread at the end of its list.           *)
LEMMA StartupInOrder ==
  ASSUME Inv, NEW t \in Threads, NEW u \in Threads, Startup(t, u)
  PROVE  InOrder(sched, sched', Priorities)
  <1> DEFINE p == init_priority[u]
             s == SetPriority(sched, u, p)
             r == sched'
  <1>1. sched.stat[u] = "INIT" /\ r = InsertThread(s, u)
    BY DEF Startup
  <1>2. sched \in States(Threads, Priorities) /\ Sound(sched, Threads, Priorities)
    BY DEF Inv, Table, TableOf
  <1>3. p \in Priorities
    BY SchedAssumption
  <1> HIDE DEF p, r
  <1>4. /\ s \in States(Threads, Priorities) /\ s.current = sched.current
        /\ s.table = sched.table /\ s.prio = [sched.prio EXCEPT ![u] = p]
    <2>1. s = SetPriority(sched, u, p)
      OBVIOUS
    <2> HIDE DEF s
    <2> QED BY <1>2, <1>3, <2>1, SetPriorityFields
  <1> HIDE DEF s
  <1>5. \A k \in Priorities : ~In(u, s.table[k])
    BY <1>1, <1>2, <1>4 DEF Sound
  <1>6. Grown(s, r, Priorities)
    BY <1>1, <1>4, <1>5, InsertGrows
  <1>7. Grown(sched, r, Priorities)
    BY <1>4, <1>6 DEF Grown
  <1> QED BY <1>7, GrownInOrder DEF r

(* rt_thread_exit passes the processor on.                                 *)
LEMMA ExitInOrder ==
  ASSUME Inv, NEW t \in Threads, Exit(t)
  PROVE  InOrder(sched, sched', Priorities)
  <1> DEFINE g == SetStat(RemoveThread(sched, t), t, "CLOSE")
             s == [g EXCEPT !.yield = @ \ {t}]
             r == sched'
  <1>1. sched.current = t /\ r = Schedule(s)
    BY DEF Exit, Calling, Runs
  <1>2. sched \in States(Threads, Priorities) /\ Sound(sched, Threads, Priorities)
    BY DEF Inv, Table, TableOf
  <1>3. "CLOSE" \in Stats \ {"READY"} /\ "CLOSE" # "RUNNING" /\ "CLOSE" \in Stats
    BY DEF Stats
  <1>4. /\ g \in States(Threads, Priorities) /\ Sound(g, Threads, Priorities)
        /\ g.stat = [sched.stat EXCEPT ![t] = "CLOSE"] /\ g.prio = sched.prio
        /\ g.current = sched.current /\ g.lock_nest = sched.lock_nest
    BY <1>2, <1>3, RemoveSound
  <1>5. g.table = sched.table
    BY <1>1, <1>2, <1>3, CurrentLeaves
  <1> HIDE DEF g, r
  <1>6. /\ s \in States(Threads, Priorities) /\ s.stat = g.stat /\ s.prio = g.prio
        /\ s.current = g.current /\ s.table = g.table /\ s.group = g.group
    BY <1>4 DEF States
  <1> HIDE DEF s
  <1>7. Sound(s, Threads, Priorities)
    BY <1>4, <1>6 DEF Sound
  <1>8. Grown(sched, s, Priorities)
    BY <1>4, <1>5, <1>6, SameTable
  <1>9. Priorities \in SUBSET Nat
    BY SchedAssumption
  <1>10. InOrder(sched, Schedule(s), Priorities)
    BY <1>6, <1>7, <1>8, <1>9, ScheduleInOrder
  <1> QED BY <1>1, <1>10 DEF r

(* The clock interrupt: at the end of a time slice the current thread goes *)
(* to the end of its list.                                                 *)
LEMMA TickInOrder ==
  ASSUME Inv, Tick
  PROVE  InOrder(sched, sched', Priorities)
  <1> DEFINE t == sched.current
             s == [sched EXCEPT !.yield = @ \cup {t}]
  <1>1. sched' = IF remaining_tick[t] = 1 THEN Schedule(s) ELSE sched
    BY DEF Tick, SliceEnd
  <1>2. TableOf(sched) /\ sched \in States(Threads, Priorities) /\ t \in Threads
    BY DEF Inv, Table, TableOf, States
  <1>3. /\ s \in States(Threads, Priorities) /\ s.stat = sched.stat /\ s.prio = sched.prio
        /\ s.current = sched.current /\ s.table = sched.table /\ s.group = sched.group
        /\ s.lock_nest = sched.lock_nest
    BY <1>2 DEF States
  <1>4. CASE remaining_tick[t] = 1
    <2>1. sched' = Schedule(s)
      BY <1>1, <1>4
    <2> HIDE DEF s
    <2>2. TableOf(s)
      BY <1>2, <1>3 DEF TableOf, Sound
    <2>3. Grown(sched, s, Priorities)
      BY <1>3, SameTable
    <2> QED BY <2>1, <2>2, <2>3, ScheduledInOrder
  <1>5. CASE remaining_tick[t] # 1
    <2>1. sched' = sched
      BY <1>1, <1>5
    <2> QED BY <2>1, OrderStays
  <1> QED BY <1>4, <1>5

(* rt_thread_timeout: the thread becomes ready and rt_schedule follows.    *)
LEMMA FireTimerInOrder ==
  ASSUME Inv, FireTimer
  PROVE  InOrder(sched, sched', Priorities)
  <1> DEFINE t == Head(rt_timer_list)
             s == InsertThread(sched, t)
  <1>1. sched' = Schedule(s) /\ rt_timer_list # <<>> /\ Expired /\ checking
    BY DEF FireTimer, Expired
  <1>2. t \in Threads /\ sched.stat[t] # "READY"
    <2>1. t \in activated /\ t \in Threads
      BY <1>1, FirstDue DEF Inv
    <2> QED BY <2>1 DEF Inv, Timers
  <1>3. TableOf(sched)
    BY DEF Inv, Table
  <1>4. TableOf(s)
    BY <1>2, <1>3, Inserted
  <1>5. Grown(sched, s, Priorities)
    BY <1>2, <1>3, ResumedLast
  <1> HIDE DEF s
  <1> QED BY <1>1, <1>4, <1>5, ScheduledInOrder

(* Round robin: no step of a thread or an interrupt lets a thread get in   *)
(* front of one of its priority that waits for the processor, and the      *)
(* processor passes to the first of a list.                                *)
THEOREM NobodyOvertaken == Spec => ReadyInOrder
  <1>1. Inv /\ [Next]_vars => [InOrder(sched, sched', Priorities)]_vars
    <2> SUFFICES ASSUME Inv, Next PROVE InOrder(sched, sched', Priorities)
      OBVIOUS
    <2>1. TableOf(sched) /\ Grown(sched, sched, Priorities)
      BY SameTable DEF Inv, Table
    <2>2. ASSUME sched' = Schedule(sched) PROVE InOrder(sched, sched', Priorities)
      BY <2>1, <2>2, ScheduledInOrder
    <2>3. ASSUME NEW t \in Threads, CallSchedule(t) \/ IsrSchedule
          PROVE  InOrder(sched, sched', Priorities)
      BY <2>2, <2>3 DEF CallSchedule, IsrSchedule
    <2>4. ASSUME NEW t \in Threads, NEW u \in Threads, Startup(t, u)
          PROVE  InOrder(sched, sched', Priorities)
      BY <2>4, StartupInOrder
    <2>5. ASSUME NEW t \in Threads, Exit(t) PROVE InOrder(sched, sched', Priorities)
      BY <2>5, ExitInOrder
    <2>6. ASSUME NEW t \in Threads, NEW n, Sleep(t, n) \/ TakeWait(t, n)
          PROVE  InOrder(sched, sched', Priorities)
      <3>1. sched.current = t /\ Suspend(t)
        BY <2>6 DEF Sleep, TakeWait, Calling, Runs
      <3> QED BY <3>1, SuspendInOrder
    <2>7. ASSUME NEW t \in Threads, EnterCritical(t) \/ ExitCritical(t)
          PROVE  InOrder(sched, sched', Priorities)
      <3>1. sched \in States(Threads, Priorities)
        BY <2>1 DEF TableOf
      <3>2. sched'.table = sched.table /\ sched'.current = sched.current
        BY <2>7, <3>1 DEF EnterCritical, ExitCritical, States
      <3> QED BY <3>2, OrderStays
    <2>8. ASSUME UNCHANGED sched PROVE InOrder(sched, sched', Priorities)
      BY <2>8, OrderStays
    <2>9. ASSUME NEW t \in Threads, NEW n,
                 Yield(t) \/ SleepReturn(t) \/ Take(t, n) \/ TakeReturn(t) \/ CheckDone
          PROVE  InOrder(sched, sched', Priorities)
      BY <2>8, <2>9 DEF Yield, SleepReturn, Take, TakeReturn, CheckDone
    <2>10. ASSUME NEW t \in Threads, Release(t) \/ IsrRelease
           PROVE  InOrder(sched, sched', Priorities)
      BY <2>10, ReleaseInOrder DEF Release, IsrRelease
    <2>11. idle \in Threads
      BY SchedAssumption
    <2>12. CASE IsrRelease \/ IsrSchedule \/ Tick \/ FireTimer \/ CheckDone
      BY <2>3, <2>9, <2>10, <2>11, <2>12, TickInOrder, FireTimerInOrder
    <2>13. CASE \E t \in Threads : Kernel(t) \/ Call(t) \/ ExitCritical(t)
      BY <2>3, <2>4, <2>5, <2>6, <2>7, <2>9, <2>10, <2>13 DEF Kernel, Call
    <2> QED BY <2>12, <2>13 DEF Next
  <1> QED BY <1>1, Invariant, PTL DEF Spec, ReadyInOrder
=============================================================================
