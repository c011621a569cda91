---------------------------- MODULE BusLockProofs ----------------------------
(***************************************************************************)
(* Proofs about the lock of the I2C bus, for any threads and priorities.   *)
(* Inv is inductive.  Kernel is about the scheduler, Lock about the mutex  *)
(* and the places of the threads, Placed about the thread that has the     *)
(* processor, Lending about priorities.                                    *)
(***************************************************************************)
EXTENDS BusLock, ReadyTableProofs

USE BusLockAssumption

Kernel ==
  /\ sched \in States(Threads, Priorities)
  /\ Sound(sched, Threads, Priorities)
  /\ sched.lock_nest = 0
  /\ \A t \in Threads : sched.stat[t] \in {"READY", "RUNNING", "SUSPEND"}
  /\ sched.stat[idle] # "SUSPEND"

Places == {"run", "sched", "take_sched", "take_ret", "sleep_sched", "xfer", "xfer_sched"}
BeforeSchedule == {"sched", "take_sched", "sleep_sched", "xfer_sched"}

(* A thread in rt_mutex_take either waits or has been handed the mutex.    *)
Lock ==
  /\ pc \in [Threads -> Places]
  /\ suspend_thread \in Seq(Threads) /\ Distinct(suspend_thread)
  /\ \A t \in Threads : In(t, suspend_thread) =>
       sched.stat[t] = "SUSPEND" /\ pc[t] \in {"take_sched", "take_ret"} /\ t # owner
  /\ \A t \in Threads : pc[t] \in {"take_sched", "take_ret"} =>
       In(t, suspend_thread) \/ t = owner
  /\ \A t \in Threads : pc[t] \in {"xfer", "xfer_sched"} => t = owner
  /\ owner \in (Threads \ {idle}) \cup {NULL}
  /\ owner # NULL => pc[owner] \in {"xfer", "xfer_sched", "take_sched", "take_ret"}
  /\ value \in {0, 1} /\ (owner = NULL <=> value = 1) /\ hold = 1 - value
  /\ suspend_thread # <<>> => owner # NULL

(* Outside of the stretch before rt_schedule the current thread can run    *)
(* and is of the highest priority.                                         *)
Placed ==
  pc[sched.current] \notin BeforeSchedule =>
    /\ sched.stat[sched.current] = "RUNNING"
    /\ \A u \in Threads : sched.stat[u] = "READY" => sched.prio[sched.current] <= sched.prio[u]

Lending ==
  /\ \A t \in Threads : sched.prio[t] # init_priority[t] =>
       t = owner /\ \E u \in Threads : In(u, suspend_thread) /\ sched.prio[u] = sched.prio[t]
  /\ owner # NULL => original_priority = init_priority[owner]
  /\ owner = NULL => original_priority = NO_PRIORITY
  /\ contenders \subseteq Threads
  /\ \A t \in contenders : In(t, suspend_thread) /\ sched.prio[owner] <= sched.prio[t]

Inv == Kernel /\ Lock /\ Placed /\ Lending

-----------------------------------------------------------------------------
(* rt_schedule                                                             *)

(* After rt_schedule the current thread is placed, whatever called it, and *)
(* no thread that sleeps or waits is touched.                              *)
LEMMA ScheduleKernel ==
  ASSUME NEW s \in States(Threads, Priorities), Sound(s, Threads, Priorities),
         s.lock_nest = 0, s.stat[idle] # "SUSPEND",
         \A t \in Threads : s.stat[t] \in {"READY", "RUNNING", "SUSPEND"},
         sched' = Schedule(s)
  PROVE  /\ Kernel' /\ Placed'
         /\ sched'.prio = s.prio
         /\ \A t \in Threads : sched'.stat[t] = "SUSPEND" <=> s.stat[t] = "SUSPEND"
  <1> DEFINE r == sched'
  <1>1. Priorities \in SUBSET Nat /\ idle \in Threads
    OBVIOUS
  <1>2. \E u \in Threads : s.stat[u] \in {"READY", "RUNNING"}
    BY <1>1
  <1> HIDE DEF r
  <1>3. /\ r \in States(Threads, Priorities) /\ Sound(r, Threads, Priorities)
        /\ r.prio = s.prio /\ r.lock_nest = 0
        /\ r.stat = [u \in Threads |->
              IF u = r.current /\ s.stat[u] = "READY" THEN "RUNNING"
              ELSE IF s.stat[u] = "RUNNING" /\ u # r.current THEN "READY"
              ELSE s.stat[u]]
        /\ r.stat[r.current] = "RUNNING"
        /\ \A u \in Threads : r.stat[u] = "READY" => s.prio[r.current] <= s.prio[u]
    <2>1. r = Schedule(s)
      BY DEF r
    <2> QED BY <1>1, <1>2, <2>1, ScheduleSound
  <1>4. \A t \in Threads : /\ r.stat[t] \in {"READY", "RUNNING", "SUSPEND"}
                           /\ r.stat[t] = "SUSPEND" <=> s.stat[t] = "SUSPEND"
    BY <1>3
  <1>5. Kernel'
    BY <1>1, <1>3, <1>4 DEF Kernel, r
  <1>6. Placed'
    BY <1>3 DEF Placed, r
  <1> QED BY <1>3, <1>4, <1>5, <1>6 DEF r

-----------------------------------------------------------------------------
(* The steps                                                               *)

(* The main thread has exited and rt_schedule picked a thread.             *)
LEMMA InitHolds == Init => Inv
  <1> SUFFICES ASSUME Init PROVE Inv
    OBVIOUS
  <1> DEFINE s == [current   |-> idle,
                   stat      |-> [t \in Threads |-> IF t = idle THEN "RUNNING" ELSE "READY"],
                   yield     |-> {},
                   prio      |-> init_priority,
                   table     |-> started,
                   group     |-> {p \in Priorities : started[p] # <<>>},
                   lock_nest |-> 0]
  <1>1. sched = Schedule(s)
    BY DEF Init
  <1>2. /\ s \in States(Threads, Priorities) /\ s.current = idle /\ s.lock_nest = 0
        /\ s.stat = [t \in Threads |-> IF t = idle THEN "RUNNING" ELSE "READY"]
        /\ s.prio = init_priority /\ s.table = started
        /\ s.group = {p \in Priorities : started[p] # <<>>}
    BY DEF States, Stats
  <1> HIDE DEF s
  <1>3. Lists(s, Threads, Priorities)
    <2>1. \A p \in Priorities : (p \in s.group <=> s.table[p] # <<>>) /\ Distinct(s.table[p])
      BY <1>2 DEF Distinct
    <2>2. \A u \in Threads : s.stat[u] = "READY" => In(u, s.table[s.prio[u]])
      BY <1>2
    <2>3. \A u \in Threads, p \in Priorities :
            In(u, s.table[p]) => s.stat[u] = "READY" /\ s.prio[u] = p
      BY <1>2
    <2> QED BY <2>1, <2>2, <2>3 DEF Lists
  <1>4. Sound(s, Threads, Priorities)
    BY <1>2, <1>3, SoundLists
  <1>5. Priorities \in SUBSET Nat /\ idle \in Threads
        /\ (\E u \in Threads : s.stat[u] \in {"READY", "RUNNING"})
    BY <1>2
  <1>6. /\ sched \in States(Threads, Priorities) /\ Sound(sched, Threads, Priorities)
        /\ sched.prio = s.prio /\ sched.lock_nest = 0
        /\ sched.stat = [u \in Threads |->
              IF u = sched.current /\ s.stat[u] = "READY" THEN "RUNNING"
              ELSE IF s.stat[u] = "RUNNING" /\ u # sched.current THEN "READY"
              ELSE s.stat[u]]
        /\ sched.stat[sched.current] = "RUNNING"
        /\ \A u \in Threads : sched.stat[u] = "READY" => s.prio[sched.current] <= s.prio[u]
    BY <1>1, <1>2, <1>4, <1>5, ScheduleSound
  <1>7. Kernel
    BY <1>2, <1>5, <1>6 DEF Kernel
  <1>8. Placed
    BY <1>6 DEF Placed
  <1>9. \A t : ~In(t, suspend_thread)
    BY EmptyHasNone DEF Init
  <1>10. Lock
    BY <1>9, EmptySeq DEF Init, Lock, Places, Distinct
  <1>11. Lending
    BY <1>2, <1>6, <1>9 DEF Init, Lending
  <1> QED BY <1>7, <1>8, <1>10, <1>11 DEF Inv

(* The current thread calls rt_schedule.                                   *)
LEMMA CallScheduleStep ==
  ASSUME Inv, NEW t \in Threads, CallSchedule(t)
  PROVE  Inv'
  <1>1. /\ Kernel' /\ Placed' /\ sched'.prio = sched.prio
        /\ \A u \in Threads : sched'.stat[u] = "SUSPEND" <=> sched.stat[u] = "SUSPEND"
    BY ScheduleKernel DEF Inv, Kernel, CallSchedule
  <1>2. UNCHANGED mutex
    BY DEF CallSchedule
  <1>3. \E from, to \in Places :
          /\ <<from, to>> \in {<<"sched", "run">>, <<"take_sched", "take_ret">>,
                               <<"sleep_sched", "run">>, <<"xfer_sched", "xfer">>}
          /\ pc[t] = from /\ pc' = [pc EXCEPT ![t] = to]
    BY DEF CallSchedule, Runs, Goto, Places
  <1>4. Lock'
    BY <1>1, <1>2, <1>3 DEF Inv, Lock, mutex, Places
  <1>5. Lending'
    BY <1>1, <1>2 DEF Inv, Lending, mutex
  <1> QED BY <1>1, <1>4, <1>5 DEF Inv

(* rt_mutex_take finds the mutex free.                                     *)
LEMMA TakeStep ==
  ASSUME Inv, NEW t \in Threads, Take(t)
  PROVE  Inv'
  <1>1. /\ sched' = sched /\ suspend_thread' = suspend_thread /\ contenders' = contenders
        /\ sched.current = t /\ pc[t] = "run" /\ t \in Users /\ t # idle
        /\ owner' = t /\ value' = value - 1 /\ hold' = hold + 1
        /\ original_priority' = sched.prio[t]
        /\ pc' = [pc EXCEPT ![t] = "xfer"]
    BY DEF Take, Runs, Goto
  <1>2. value = 1 /\ owner = NULL /\ suspend_thread = <<>> /\ hold = 0
    BY DEF Inv, Lock, Take
  <1>3. \A u : ~In(u, suspend_thread)
    BY <1>2, EmptyHasNone
  <1>4. Kernel'
    BY <1>1 DEF Inv, Kernel
  <1>5. Lock'
    BY <1>1, <1>2, <1>3 DEF Inv, Lock, Places
  <1>6. Placed'
    BY <1>1 DEF Inv, Placed, Lock, BeforeSchedule
  <1>7. Lending'
    BY <1>1, <1>2, <1>3 DEF Inv, Lending
  <1> QED BY <1>4, <1>5, <1>6, <1>7 DEF Inv

(* The owner has a priority between that of t and its own.                 *)
LEMMA InheritKernel ==
  ASSUME Inv, NEW t \in Threads, owner # NULL, t # owner
  PROVE  /\ Inherit(sched, t) \in States(Threads, Priorities)
         /\ Sound(Inherit(sched, t), Threads, Priorities)
         /\ Inherit(sched, t).stat = sched.stat
         /\ Inherit(sched, t).current = sched.current
         /\ Inherit(sched, t).lock_nest = sched.lock_nest
         /\ Inherit(sched, t).prio =
              [sched.prio EXCEPT ![owner] = IF sched.prio[t] < sched.prio[owner]
                                            THEN sched.prio[t] ELSE sched.prio[owner]]
  <1>1. /\ sched \in States(Threads, Priorities) /\ Sound(sched, Threads, Priorities)
        /\ owner \in Threads
    BY DEF Inv, Kernel, Lock
  <1>2. sched.prio \in [Threads -> Priorities] /\ sched.prio[t] \in Priorities
    BY <1>1 DEF States
  <1>3. CASE sched.prio[t] < sched.prio[owner]
    <2>1. Inherit(sched, t) = ChangePriority(sched, owner, sched.prio[t])
      BY <1>3 DEF Inherit
    <2> QED BY <1>1, <1>2, <1>3, <2>1, ChangePrioritySound
  <1>4. CASE ~(sched.prio[t] < sched.prio[owner])
    <2>1. Inherit(sched, t) = sched
      BY <1>4 DEF Inherit
    <2> QED BY <1>1, <1>2, <1>4, <2>1
  <1> QED BY <1>3, <1>4

(* rt_mutex_take finds the mutex taken.                                    *)
LEMMA TakeWaitStep ==
  ASSUME Inv, NEW t \in Threads, TakeWait(t)
  PROVE  Inv'
  <1> DEFINE s == Inherit(sched, t)
             low == IF sched.prio[t] < sched.prio[owner] THEN sched.prio[t]
                    ELSE sched.prio[owner]
  <1>1. /\ sched' = SetStat(RemoveThread(s, t), t, "SUSPEND")
        /\ suspend_thread' = Append(suspend_thread, t) /\ contenders' = contenders \cup {t}
        /\ sched.current = t /\ pc[t] = "run" /\ t # idle /\ value = 0
        /\ UNCHANGED <<value, owner, hold, original_priority>>
        /\ pc' = [pc EXCEPT ![t] = "take_sched"]
    BY DEF TakeWait, Runs, Goto
  <1>2. owner # NULL /\ t # owner /\ owner \in Threads /\ ~In(t, suspend_thread)
        /\ owner # idle
    BY <1>1 DEF Inv, Lock
  <1> HIDE DEF s
  <1>3. /\ s \in States(Threads, Priorities) /\ Sound(s, Threads, Priorities)
        /\ s.stat = sched.stat /\ s.current = t /\ s.lock_nest = 0
        /\ s.prio = [sched.prio EXCEPT ![owner] = low]
    BY <1>1, <1>2, InheritKernel DEF s, Inv, Kernel
  <1>4. "SUSPEND" \in Stats \ {"READY"} /\ "SUSPEND" # "RUNNING"
    BY DEF Stats
  <1>5. /\ sched' \in States(Threads, Priorities) /\ Sound(sched', Threads, Priorities)
        /\ sched'.stat = [sched.stat EXCEPT ![t] = "SUSPEND"]
        /\ sched'.prio = s.prio /\ sched'.current = t /\ sched'.lock_nest = 0
    <2> DEFINE r == sched'
    <2>1. r = SetStat(RemoveThread(s, t), t, "SUSPEND")
      BY <1>1
    <2> HIDE DEF r
    <2>2. /\ r \in States(Threads, Priorities) /\ Sound(r, Threads, Priorities)
          /\ r.stat = [sched.stat EXCEPT ![t] = "SUSPEND"]
          /\ r.prio = s.prio /\ r.current = t /\ r.lock_nest = 0
      BY <1>3, <1>4, <2>1, RemoveSound
    <2> QED BY <2>2 DEF r
  <1>6. /\ suspend_thread' \in Seq(Threads) /\ Distinct(suspend_thread')
        /\ \A u \in Threads : In(u, suspend_thread') <=> In(u, suspend_thread) \/ u = t
    BY <1>1, <1>2, JoinList DEF Inv, Lock
  <1>7. sched.stat \in [Threads -> Stats] /\ sched.prio \in [Threads -> Priorities]
        /\ \A u \in Threads : sched.prio[u] \in Nat
    BY DEF Inv, Kernel, States
  <1>8. Kernel'
    BY <1>1, <1>5, <1>7 DEF Inv, Kernel
  <1>9. Lock'
    BY <1>1, <1>2, <1>5, <1>6, <1>7 DEF Inv, Lock, Places
  <1>10. Placed'
    BY <1>1, <1>5 DEF Inv, Placed, Lock, BeforeSchedule
  <1>11. sched'.prio = [sched.prio EXCEPT ![owner] = low]
    BY <1>3, <1>5
  <1>12. ASSUME NEW u \in Threads, sched'.prio[u] # init_priority[u]
         PROVE  u = owner' /\ \E w \in Threads : In(w, suspend_thread') /\ sched'.prio[w] = sched'.prio[u]
    <2>1. u = owner
      BY <1>2, <1>7, <1>11, <1>12 DEF Inv, Lending
    <2>2. CASE sched.prio[t] < sched.prio[owner]
      <3>1. sched'.prio[u] = sched.prio[t] /\ sched'.prio[t] = sched.prio[t] /\ In(t, suspend_thread')
        BY <1>2, <1>6, <1>7, <1>11, <2>1, <2>2
      <3> QED BY <1>1, <2>1, <3>1
    <2>3. CASE ~(sched.prio[t] < sched.prio[owner])
      <3>1. sched'.prio = sched.prio
        BY <1>2, <1>7, <1>11, <2>3
      <3>2. PICK w \in Threads : In(w, suspend_thread) /\ sched.prio[w] = sched.prio[u]
        BY <1>12, <3>1 DEF Inv, Lending
      <3> QED BY <1>1, <1>6, <2>1, <3>1, <3>2
    <2> QED BY <2>2, <2>3
  <1>13. \A u \in contenders' : In(u, suspend_thread') /\ sched'.prio[owner'] <= sched'.prio[u]
    <2> SUFFICES ASSUME NEW u \in contenders'
                 PROVE  In(u, suspend_thread') /\ sched'.prio[owner'] <= sched'.prio[u]
      OBVIOUS
    <2>1. u \in Threads /\ u # owner /\ In(u, suspend_thread') /\ sched'.prio[u] = sched.prio[u]
      BY <1>1, <1>2, <1>6, <1>7, <1>11 DEF Inv, Lending, Lock
    <2>2. sched'.prio[owner'] = low
      BY <1>1, <1>2, <1>7, <1>11
    <2>3. low <= sched.prio[u]
      <3>1. u = t \/ sched.prio[owner] <= sched.prio[u]
        BY <1>1 DEF Inv, Lending
      <3>2. sched.prio[u] \in Nat /\ sched.prio[owner] \in Nat /\ sched.prio[t] \in Nat
        BY <1>2, <1>7, <2>1
      <3> QED BY <3>1, <3>2
    <2> QED BY <2>1, <2>2, <2>3
  <1>14. Lending'
    BY <1>1, <1>12, <1>13 DEF Inv, Lending
  <1> QED BY <1>8, <1>9, <1>10, <1>14 DEF Inv

(* rt_mutex_take returns with the mutex.                                   *)
LEMMA TakeReturnStep ==
  ASSUME Inv, NEW t \in Threads, TakeReturn(t)
  PROVE  Inv'
  <1>1. /\ UNCHANGED <<sched, mutex>> /\ sched.current = t /\ pc[t] = "take_ret"
        /\ pc' = [pc EXCEPT ![t] = "xfer"]
    BY DEF TakeReturn, Runs, Goto
  <1>2. sched.stat[t] = "RUNNING"
    BY <1>1 DEF Inv, Placed, BeforeSchedule
  <1>3. t = owner
    BY <1>1, <1>2 DEF Inv, Lock
  <1>4. Lock'
    BY <1>1, <1>2, <1>3 DEF Inv, Lock, mutex, Places
  <1>5. Placed'
    BY <1>1 DEF Inv, Placed, Lock, BeforeSchedule
  <1> QED BY <1>1, <1>4, <1>5 DEF Inv, Kernel, Lending, mutex

(* A thread goes to sleep.                                                 *)
LEMMA SleepStep ==
  ASSUME Inv, NEW t \in Threads, Sleep(t)
  PROVE  Inv'
  <1>1. /\ sched' = SetStat(RemoveThread(sched, t), t, "SUSPEND")
        /\ UNCHANGED mutex /\ sched.current = t
        /\ \/ t # idle /\ pc[t] = "run" /\ pc' = [pc EXCEPT ![t] = "sleep_sched"]
           \/ pc[t] = "xfer" /\ pc' = [pc EXCEPT ![t] = "xfer_sched"]
    BY DEF Sleep, Runs, Goto
  <1>2. t # idle /\ ~In(t, suspend_thread)
    BY <1>1 DEF Inv, Lock
  <1>3. "SUSPEND" \in Stats \ {"READY"} /\ "SUSPEND" # "RUNNING"
    BY DEF Stats
  <1>4. sched \in States(Threads, Priorities) /\ Sound(sched, Threads, Priorities)
        /\ sched.lock_nest = 0 /\ sched.stat \in [Threads -> Stats]
    BY DEF Inv, Kernel, States
  <1>5. /\ sched' \in States(Threads, Priorities) /\ Sound(sched', Threads, Priorities)
        /\ sched'.stat = [sched.stat EXCEPT ![t] = "SUSPEND"]
        /\ sched'.prio = sched.prio /\ sched'.current = t /\ sched'.lock_nest = 0
    <2> DEFINE r == sched'
    <2>1. r = SetStat(RemoveThread(sched, t), t, "SUSPEND")
      BY <1>1
    <2> HIDE DEF r
    <2>2. /\ r \in States(Threads, Priorities) /\ Sound(r, Threads, Priorities)
          /\ r.stat = [sched.stat EXCEPT ![t] = "SUSPEND"]
          /\ r.prio = sched.prio /\ r.current = t /\ r.lock_nest = 0
      BY <1>1, <1>3, <1>4, <2>1, RemoveSound
    <2> QED BY <2>2 DEF r
  <1>6. Kernel'
    BY <1>2, <1>4, <1>5 DEF Inv, Kernel
  <1>7. Lock'
    BY <1>1, <1>2, <1>4, <1>5 DEF Inv, Lock, mutex, Places
  <1>8. Placed'
    BY <1>1, <1>5 DEF Inv, Placed, Lock, BeforeSchedule
  <1>9. Lending'
    BY <1>1, <1>5 DEF Inv, Lending, mutex
  <1> QED BY <1>6, <1>7, <1>8, <1>9 DEF Inv

(* A sleep is over.                                                        *)
LEMMA WakeUpStep ==
  ASSUME Inv, NEW t \in Threads, WakeUp(t)
  PROVE  Inv'
  <1> DEFINE s == InsertThread(sched, t)
  <1>1. /\ sched.stat[t] = "SUSPEND" /\ ~In(t, suspend_thread)
        /\ sched' = Schedule(s) /\ UNCHANGED <<mutex, pc>>
    BY DEF WakeUp
  <1>2. sched \in States(Threads, Priorities) /\ Sound(sched, Threads, Priorities)
        /\ sched.lock_nest = 0 /\ sched.stat \in [Threads -> Stats]
    BY DEF Inv, Kernel, States
  <1> HIDE DEF s
  <1>3. /\ s \in States(Threads, Priorities) /\ Sound(s, Threads, Priorities)
        /\ s.stat = [sched.stat EXCEPT ![t] = IF t = sched.current THEN "RUNNING" ELSE "READY"]
        /\ s.prio = sched.prio /\ s.lock_nest = 0
    BY <1>1, <1>2, InsertSound DEF s
  <1>4. /\ s.stat[idle] # "SUSPEND"
        /\ \A u \in Threads : s.stat[u] \in {"READY", "RUNNING", "SUSPEND"}
        /\ \A u \in Threads : u # t => s.stat[u] = sched.stat[u]
    BY <1>2, <1>3 DEF Inv, Kernel
  <1>5. /\ Kernel' /\ Placed' /\ sched'.prio = sched.prio
        /\ \A u \in Threads : sched'.stat[u] = "SUSPEND" <=> s.stat[u] = "SUSPEND"
    BY <1>1, <1>3, <1>4, ScheduleKernel
  <1>6. Lock'
    BY <1>1, <1>4, <1>5 DEF Inv, Lock, mutex
  <1>7. Lending'
    BY <1>1, <1>5 DEF Inv, Lending, mutex
  <1> QED BY <1>5, <1>6, <1>7 DEF Inv

(* A time slice is over.                                                   *)
LEMMA SliceEndStep ==
  ASSUME Inv, SliceEnd
  PROVE  Inv'
  <1> DEFINE y == sched.yield \cup {sched.current}
             s == [sched EXCEPT !.yield = y]
  <1>1. sched' = Schedule(s) /\ UNCHANGED <<mutex, pc>>
    BY DEF SliceEnd
  <1>2. sched \in States(Threads, Priorities) /\ Sound(sched, Threads, Priorities)
        /\ sched.lock_nest = 0 /\ y \in SUBSET Threads
    BY DEF Inv, Kernel, States
  <1> HIDE DEF y
  <1>3. /\ s \in States(Threads, Priorities) /\ s.stat = sched.stat /\ s.prio = sched.prio
        /\ s.current = sched.current /\ s.table = sched.table /\ s.group = sched.group
        /\ s.lock_nest = 0
    BY <1>2 DEF States
  <1> HIDE DEF s
  <1>4. Sound(s, Threads, Priorities)
    BY <1>2, <1>3 DEF Sound
  <1>5. /\ Kernel' /\ Placed' /\ sched'.prio = sched.prio
        /\ \A u \in Threads : sched'.stat[u] = "SUSPEND" <=> sched.stat[u] = "SUSPEND"
    BY <1>1, <1>3, <1>4, ScheduleKernel DEF Inv, Kernel
  <1>6. Lock'
    BY <1>1, <1>5 DEF Inv, Lock, mutex
  <1>7. Lending'
    BY <1>1, <1>5 DEF Inv, Lending, mutex
  <1> QED BY <1>5, <1>6, <1>7 DEF Inv

(* The owner has its own priority back.                                    *)
LEMMA RestoreKernel ==
  ASSUME Inv, owner # NULL
  PROVE  /\ Restore(sched) \in States(Threads, Priorities)
         /\ Sound(Restore(sched), Threads, Priorities)
         /\ Restore(sched).stat = sched.stat
         /\ Restore(sched).current = sched.current
         /\ Restore(sched).lock_nest = sched.lock_nest
         /\ Restore(sched).prio = init_priority
         /\ sched.prio = init_priority => Restore(sched) = sched
  <1>1. /\ sched \in States(Threads, Priorities) /\ Sound(sched, Threads, Priorities)
        /\ owner \in Threads /\ original_priority = init_priority[owner]
        /\ original_priority \in Priorities
    BY DEF Inv, Kernel, Lock, Lending
  <1>2. sched.prio \in [Threads -> Priorities]
    BY <1>1 DEF States
  <1>3. \A t \in Threads : t # owner => sched.prio[t] = init_priority[t]
    BY DEF Inv, Lending
  <1>4. CASE original_priority # sched.prio[owner]
    <2>1. Restore(sched) = ChangePriority(sched, owner, original_priority)
      BY <1>4 DEF Restore
    <2>2. init_priority = [sched.prio EXCEPT ![owner] = original_priority]
      BY <1>1, <1>2, <1>3
    <2>3. sched.prio # init_priority
      BY <1>1, <1>4
    <2> QED BY <1>1, <2>1, <2>2, <2>3, ChangePrioritySound
  <1>5. CASE original_priority = sched.prio[owner]
    <2>1. Restore(sched) = sched
      BY <1>5 DEF Restore
    <2>2. init_priority = sched.prio
      <3>1. \A u \in Threads : init_priority[u] = sched.prio[u]
        BY <1>1, <1>3, <1>5
      <3> QED BY <1>2, <3>1, BusLockAssumption
    <2> QED BY <1>1, <2>1, <2>2
  <1> QED BY <1>4, <1>5

(* rt_mutex_release                                                        *)
LEMMA ReleaseStep ==
  ASSUME Inv, NEW t \in Threads, Release(t)
  PROVE  Inv'
  <1> DEFINE s == Restore(sched)
  <1>1. sched.current = t /\ pc[t] = "xfer" /\ owner = t /\ contenders' = {} /\ hold = 1
    BY DEF Release, Runs
  <1>2. owner # NULL /\ value = 0 /\ t # idle /\ ~In(t, suspend_thread)
    BY <1>1 DEF Inv, Lock
  <1> HIDE DEF s
  <1>3. /\ s \in States(Threads, Priorities) /\ Sound(s, Threads, Priorities)
        /\ s.stat = sched.stat /\ s.current = t /\ s.lock_nest = 0 /\ s.prio = init_priority
        /\ sched.prio = init_priority => s = sched
    BY <1>1, <1>2, RestoreKernel DEF s, Inv, Kernel
  <1>4. sched.stat \in [Threads -> Stats]
    BY DEF Inv, Kernel, States
  <1>5. CASE suspend_thread = <<>>
    <2>1. /\ value' = value + 1 /\ owner' = NULL /\ hold' = 0 /\ original_priority' = NO_PRIORITY
          /\ sched' = s /\ pc' = [pc EXCEPT ![t] = "run"] /\ suspend_thread' = <<>>
      BY <1>5 DEF Release, Goto, s
    <2>2. \A u : ~In(u, suspend_thread)
      BY <1>5, EmptyHasNone
    <2>3. sched.prio = init_priority
      <3>1. \A u \in Threads : sched.prio[u] = init_priority[u]
        BY <2>2 DEF Inv, Lending
      <3>2. sched.prio \in [Threads -> Priorities]
        BY DEF Inv, Kernel, States
      <3> QED BY <3>1, <3>2
    <2>4. sched' = sched
      BY <1>3, <2>1, <2>3
    <2>5. Lock'
      BY <1>1, <1>2, <1>5, <2>1, <2>2, <2>4 DEF Inv, Lock, Places
    <2>6. Placed'
      BY <1>1, <2>1, <2>4 DEF Inv, Placed, Lock, BeforeSchedule
    <2>7. Lending'
      BY <1>1, <2>1, <2>3, <2>4 DEF Lending
    <2> QED BY <2>4, <2>5, <2>6, <2>7 DEF Inv, Kernel
  <1>6. CASE suspend_thread # <<>>
    <2> DEFINE f == Head(suspend_thread)
    <2>1. /\ owner' = f /\ original_priority' = sched.prio[f] /\ hold' = hold /\ value' = value
          /\ suspend_thread' = Without(suspend_thread, f)
          /\ sched' = InsertThread(s, f) /\ pc' = [pc EXCEPT ![t] = "sched"]
      BY <1>6 DEF Release, Goto, HandOver, First, s
    <2>2. f \in Threads /\ In(f, suspend_thread)
      BY <1>6, HeadOfList DEF Inv, Lock
    <2> HIDE DEF f
    <2>3. sched.stat[f] = "SUSPEND" /\ f # t /\ pc[f] \in {"take_sched", "take_ret"} /\ f # idle
          /\ f # NULL
      BY <1>1, <2>2 DEF Inv, Lock, Kernel
    <2>4. /\ suspend_thread' \in Seq(Threads) /\ Distinct(suspend_thread')
          /\ \A u \in Threads : In(u, suspend_thread') <=> In(u, suspend_thread) /\ u # f
      BY <2>1, <2>2, LeavesList DEF Inv, Lock
    <2>5. /\ sched' \in States(Threads, Priorities) /\ Sound(sched', Threads, Priorities)
          /\ sched'.stat = [sched.stat EXCEPT ![f] = "READY"]
          /\ sched'.prio = init_priority /\ sched'.current = t /\ sched'.lock_nest = 0
      <3> DEFINE r == sched'
      <3>1. r = InsertThread(s, f)
        BY <2>1
      <3> HIDE DEF r
      <3>2. /\ r \in States(Threads, Priorities) /\ Sound(r, Threads, Priorities)
            /\ r.stat = [sched.stat EXCEPT ![f] = "READY"]
            /\ r.prio = init_priority /\ r.current = t /\ r.lock_nest = 0
        <4>1. s.stat[f] \notin {"READY", "RUNNING"} /\ f # s.current
          BY <1>3, <2>3
        <4>2. /\ InsertThread(s, f) \in States(Threads, Priorities)
              /\ Sound(InsertThread(s, f), Threads, Priorities)
              /\ InsertThread(s, f).stat = [s.stat EXCEPT ![f] = "READY"]
              /\ InsertThread(s, f).prio = s.prio
              /\ InsertThread(s, f).current = s.current
              /\ InsertThread(s, f).lock_nest = s.lock_nest
          BY <1>3, <2>2, <4>1, InsertSound
        <4> QED BY <1>3, <3>1, <4>2
      <3> QED BY <3>2 DEF r
    <2>6. Kernel'
      BY <1>4, <2>2, <2>3, <2>5 DEF Inv, Kernel
    <2>7. Lock'
      BY <1>1, <1>2, <1>4, <2>1, <2>2, <2>3, <2>4, <2>5 DEF Inv, Lock, Places
    <2>8. Placed'
      BY <1>1, <2>1, <2>5 DEF Inv, Placed, Lock, BeforeSchedule
    <2>9. sched.prio[f] = init_priority[f]
      BY <1>1, <2>2, <2>3 DEF Inv, Lending
    <2>10. Lending'
      BY <1>1, <2>1, <2>3, <2>5, <2>9 DEF Lending
    <2> QED BY <2>6, <2>7, <2>8, <2>10 DEF Inv
  <1> QED BY <1>5, <1>6

-----------------------------------------------------------------------------
(* The inductive invariant.                                                *)
LEMMA Invariant == Spec => []Inv
  <1>1. Inv /\ [Next]_vars => Inv'
    <2> SUFFICES ASSUME Inv, [Next]_vars PROVE Inv'
      OBVIOUS
    <2>1. CASE UNCHANGED vars
      BY <2>1 DEF vars, mutex, Inv, Kernel, Lock, Placed, Lending
    <2>2. ASSUME NEW t \in Threads,
                 \/ Take(t) \/ TakeWait(t) \/ TakeReturn(t) \/ Release(t)
                 \/ CallSchedule(t) \/ Sleep(t) \/ WakeUp(t)
          PROVE  Inv'
      BY <2>2, TakeStep, TakeWaitStep, TakeReturnStep, ReleaseStep, CallScheduleStep, SleepStep,
         WakeUpStep
    <2> QED BY <2>1, <2>2, SliceEndStep DEF Next
  <1> QED BY <1>1, InitHolds, PTL DEF Spec

(* Every variable of the scheduler and the mutex keeps its type.           *)
THEOREM TypeCorrect == Spec => []TypeOK
  <1>1. Inv => TypeOK
    <2> SUFFICES ASSUME Inv PROVE TypeOK
      OBVIOUS
    <2>1. /\ sched.current \in Threads /\ sched.stat \in [Threads -> {"READY", "RUNNING", "SUSPEND"}]
          /\ sched.yield \subseteq Threads /\ sched.prio \in [Threads -> Priorities]
          /\ sched.table \in [Priorities -> Seq(Threads)] /\ sched.group \subseteq Priorities
      BY DEF Inv, Kernel, States
    <2>2. original_priority \in Priorities \cup {NO_PRIORITY}
      BY DEF Inv, Lending, Lock
    <2>3. /\ value \in 0 .. 1 /\ hold \in 0 .. 1 /\ owner \in Threads \cup {NULL}
          /\ suspend_thread \in Seq(Threads) /\ contenders \subseteq Threads
          /\ pc \in [Threads -> Places]
      BY DEF Inv, Lock, Lending
    <2> QED BY <2>1, <2>2, <2>3 DEF TypeOK, Places
  <1> QED BY <1>1, Invariant, PTL

(* One transfer at a time, and the mutex always knows who drives the bus:  *)
(* rt_mutex_take and rt_mutex_release exclude, also while threads are      *)
(* resumed, preempted and put to sleep inside a transfer.                  *)
THEOREM TransfersExclude == Spec => []BusExclusive
  <1>1. Inv => BusExclusive
    <2> SUFFICES ASSUME Inv PROVE BusExclusive
      OBVIOUS
    <2>1. ~In(owner, suspend_thread)
      <3>1. CASE owner = NULL
        <4>1. suspend_thread = <<>>
          BY <3>1 DEF Inv, Lock
        <4> QED BY <4>1, EmptyHasNone
      <3>2. CASE owner # NULL
        BY <3>2 DEF Inv, Lock
      <3> QED BY <3>1, <3>2
    <2> QED BY <2>1 DEF Inv, Lock, BusExclusive
  <1> QED BY <1>1, Invariant, PTL

(* The ready table agrees with the states and priorities of the threads,   *)
(* although rt_mutex_take and rt_mutex_release change priorities of        *)
(* threads that run, are ready or sleep.                                   *)
THEOREM TableStaysSound == Spec => []TableSound
  <1>1. Inv => TableSound
    BY DEF Inv, Kernel, TableSound
  <1> QED BY <1>1, Invariant, PTL

(* A lent priority never outlives the wait it was lent for.                *)
THEOREM PrioritiesReturned == Spec => []OnlyLent
  <1>1. Inv => OnlyLent
    <2> SUFFICES ASSUME Inv PROVE OnlyLent
      OBVIOUS
    <2>1. ASSUME NEW t \in Threads, sched.prio[t] # init_priority[t]
          PROVE  t = owner /\ \E i \in 1 .. Len(suspend_thread) :
                                sched.prio[suspend_thread[i]] = sched.prio[t]
      <3>1. PICK u \in Threads : In(u, suspend_thread) /\ sched.prio[u] = sched.prio[t]
        BY <2>1 DEF Inv, Lending
      <3>2. PICK i \in 1 .. Len(suspend_thread) : suspend_thread[i] = u
        BY <3>1 DEF In
      <3> QED BY <2>1, <3>1, <3>2 DEF Inv, Lending
    <2> QED BY <2>1 DEF Inv, Lending, OnlyLent
  <1> QED BY <1>1, Invariant, PTL

(* rt_mutex_take lends: no thread that found the mutex taken outranks its  *)
(* owner.                                                                  *)
THEOREM OwnerIsRaised == Spec => []Lent
  <1>1. Inv => Lent
    BY DEF Inv, Lending, Lent
  <1> QED BY <1>1, Invariant, PTL

(* A thread executes its own code only when no thread of higher priority   *)
(* is ready, right after its lent priority went down included.             *)
THEOREM HighestAlwaysRuns == Spec => []HighestRuns
  <1>1. Inv => HighestRuns
    BY DEF Inv, Placed, BeforeSchedule, HighestRuns, Runs
  <1> QED BY <1>1, Invariant, PTL

-----------------------------------------------------------------------------
(* The order of the ready threads                                          *)

(* A step that leaves the lists and the current thread alone.              *)
LEMMA OrderStays ==
  ASSUME sched'.table = sched.table, sched'.current = sched.current
  PROVE  InOrder(sched, sched', Priorities)
  <1> DEFINE r == sched'
  <1>1. r.table = sched.table /\ r.current = sched.current
    OBVIOUS
  <1> HIDE DEF r
  <1>2. InOrder(sched, r, Priorities)
    BY <1>1, SameTable, GrownInOrder
  <1> QED BY <1>2 DEF r

(* rt_schedule, after threads may have joined the lists.                   *)
LEMMA ScheduledInOrder ==
  ASSUME NEW s \in States(Threads, Priorities), Sound(s, Threads, Priorities),
         Grown(sched, s, Priorities), sched' = Schedule(s)
  PROVE  InOrder(sched, sched', Priorities)
  <1>1. Priorities \in SUBSET Nat
    OBVIOUS
  <1>2. InOrder(sched, Schedule(s), Priorities)
    BY <1>1, ScheduleInOrder
  <1> QED BY <1>2

(* rt_mutex_take moves a ready owner to the end of the list of the         *)
(* priority it is lent; the caller was in no list.                         *)
LEMMA TakeWaitInOrder ==
  ASSUME Inv, NEW t \in Threads, TakeWait(t)
  PROVE  InOrder(sched, sched', Priorities)
  <1> DEFINE s == Inherit(sched, t)
             r == sched'
  <1>1. /\ r = SetStat(RemoveThread(s, t), t, "SUSPEND") /\ "SUSPEND" \in Stats
        /\ sched.current = t /\ value = 0
    BY DEF TakeWait, Runs, Stats
  <1>2. owner \in Threads
    BY <1>1 DEF Inv, Lock
  <1>3. /\ sched \in States(Threads, Priorities) /\ Sound(sched, Threads, Priorities)
        /\ sched.prio \in [Threads -> Priorities]
    BY DEF Inv, Kernel, States
  <1> HIDE DEF s, r
  <1>4. /\ s \in States(Threads, Priorities) /\ Sound(s, Threads, Priorities)
        /\ s.current = sched.current
        /\ \A k \in Priorities : NoneOvertaken(sched.table[k], s.table[k])
    <2> DEFINE p == sched.prio[t]
    <2>1. CASE p < sched.prio[owner]
      <3>1. s = ChangePriority(sched, owner, p)
        BY <2>1 DEF s, Inherit
      <3>2. p \in Priorities /\ p # sched.prio[owner]
        <4>1. p \in Priorities /\ sched.prio[owner] \in Priorities
          BY <1>2, <1>3
        <4>2. p \in Nat /\ sched.prio[owner] \in Nat
          BY <4>1
        <4> QED BY <2>1, <4>1, <4>2
      <3> HIDE DEF p
      <3>3. /\ s \in States(Threads, Priorities) /\ Sound(s, Threads, Priorities)
            /\ s.stat = sched.stat /\ s.prio = [sched.prio EXCEPT ![owner] = p]
            /\ s.current = sched.current
        BY <1>2, <1>3, <3>1, <3>2, ChangePrioritySound
      <3>4. \A k \in Priorities : NoneOvertaken(sched.table[k], s.table[k])
        BY <1>2, <1>3, <3>1, <3>2, ChangePriorityOrder
      <3> QED BY <3>3, <3>4
    <2>2. CASE ~(p < sched.prio[owner])
      <3>1. s = sched
        BY <2>2 DEF s, Inherit
      <3> QED BY <1>3, <3>1, SameOrder
    <2> QED BY <2>1, <2>2
  <1>5. r.table = s.table /\ r.current = s.current
    BY <1>1, <1>4, CurrentLeaves
  <1>6. InOrder(sched, r, Priorities)
    BY <1>4, <1>5 DEF InOrder
  <1> QED BY <1>6 DEF r

(* rt_mutex_release takes back the priority of the thread that runs, and   *)
(* makes the first waiting thread ready.                                   *)
LEMMA ReleaseInOrder ==
  ASSUME Inv, NEW t \in Threads, Release(t)
  PROVE  InOrder(sched, sched', Priorities)
  <1> DEFINE s == Restore(sched)
             r == sched'
  <1>1. sched.current = t /\ pc[t] = "xfer" /\ owner = t
    BY DEF Release, Runs
  <1>2. /\ sched \in States(Threads, Priorities) /\ Sound(sched, Threads, Priorities)
        /\ owner # NULL /\ original_priority \in Priorities
    BY <1>1 DEF Inv, Kernel, Lending
  <1>3. sched.stat[t] # "READY"
    BY <1>1, <1>2, SoundLists
  <1> HIDE DEF s, r
  <1>4. /\ s \in States(Threads, Priorities) /\ s.stat = sched.stat
        /\ Sound(s, Threads, Priorities)
        /\ s.table = sched.table /\ s.current = sched.current
    <2> DEFINE p == original_priority
    <2>1. CASE p # sched.prio[owner]
      <3>1. s = ChangePriority(sched, t, p) /\ p # sched.prio[t]
        BY <1>1, <2>1 DEF s, Restore
      <3> HIDE DEF p
      <3>2. /\ s \in States(Threads, Priorities) /\ Sound(s, Threads, Priorities)
            /\ s.stat = sched.stat /\ s.prio = [sched.prio EXCEPT ![t] = p]
            /\ s.current = sched.current
        BY <1>2, <3>1, ChangePrioritySound DEF p
      <3>3. s.table = sched.table
        BY <1>2, <1>3, <3>1, ChangePriorityOrder DEF p
      <3> QED BY <3>2, <3>3
    <2>2. CASE p = sched.prio[owner]
      <3>1. s = sched
        BY <2>2 DEF s, Restore
      <3> QED BY <1>2, <3>1
    <2> QED BY <2>1, <2>2
  <1>5. CASE suspend_thread = <<>>
    <2>1. r = s
      BY <1>5 DEF Release, s, r
    <2> QED BY <1>4, <2>1, OrderStays DEF r
  <1>6. CASE suspend_thread # <<>>
    <2> DEFINE f == Head(suspend_thread)
    <2>1. r = InsertThread(s, f)
      BY <1>6 DEF Release, First, s, r
    <2>2. f \in Threads /\ In(f, suspend_thread)
      BY <1>6, HeadOfList DEF Inv, Lock
    <2> HIDE DEF f
    <2>3. sched.stat[f] = "SUSPEND"
      BY <2>2 DEF Inv, Lock
    <2>4. \A k \in Priorities : ~In(f, s.table[k])
      BY <1>4, <2>2, <2>3 DEF Sound
    <2>5. Grown(s, r, Priorities)
      BY <1>4, <2>1, <2>2, <2>4, InsertGrows
    <2>6. Grown(sched, r, Priorities)
      BY <1>4, <2>5 DEF Grown
    <2> QED BY <2>6, GrownInOrder DEF r
  <1> QED BY <1>5, <1>6

(* No thread that waits for the processor is overtaken by one of its       *)
(* priority, although rt_mutex_take moves threads between the lists.       *)
THEOREM NobodyOvertaken == Spec => ReadyInOrder
  <1>1. Inv /\ [Next]_vars => [InOrder(sched, sched', Priorities)]_vars
    <2> SUFFICES ASSUME Inv, Next PROVE InOrder(sched, sched', Priorities)
      OBVIOUS
    <2>1. /\ sched \in States(Threads, Priorities) /\ Sound(sched, Threads, Priorities)
          /\ Grown(sched, sched, Priorities)
      BY SameTable DEF Inv, Kernel
    <2>2. ASSUME NEW t \in Threads, Take(t) \/ TakeReturn(t)
          PROVE  InOrder(sched, sched', Priorities)
      <3>1. sched' = sched
        BY <2>2 DEF Take, TakeReturn
      <3> QED BY <3>1, OrderStays
    <2>3. ASSUME NEW t \in Threads, CallSchedule(t) PROVE InOrder(sched, sched', Priorities)
      BY <2>1, <2>3, ScheduledInOrder DEF CallSchedule
    <2>4. ASSUME NEW t \in Threads, Sleep(t) PROVE InOrder(sched, sched', Priorities)
      <3> DEFINE r == sched'
      <3>1. /\ r = SetStat(RemoveThread(sched, sched.current), sched.current, "SUSPEND")
            /\ "SUSPEND" \in Stats
        BY <2>4 DEF Sleep, Runs, Stats
      <3> HIDE DEF r
      <3>2. r.table = sched.table /\ r.current = sched.current
        BY <2>1, <3>1, CurrentLeaves
      <3> QED BY <3>2, OrderStays DEF r
    <2>5. ASSUME NEW t \in Threads, WakeUp(t) PROVE InOrder(sched, sched', Priorities)
      <3> DEFINE s == InsertThread(sched, t)
      <3>1. sched.stat[t] # "READY" /\ sched' = Schedule(s)
        BY <2>5 DEF WakeUp
      <3>2. \A k \in Priorities : ~In(t, sched.table[k])
        BY <2>1, <3>1 DEF Sound
      <3>3. Grown(sched, s, Priorities)
        BY <2>1, <3>2, InsertGrows
      <3>4. s \in States(Threads, Priorities) /\ Sound(s, Threads, Priorities)
        BY <2>1, <3>1, InsertSound
      <3> HIDE DEF s
      <3> QED BY <3>1, <3>3, <3>4, ScheduledInOrder
    <2>6. CASE SliceEnd
      <3> DEFINE s == [sched EXCEPT !.yield = @ \cup {sched.current}]
      <3>1. sched' = Schedule(s)
        BY <2>6 DEF SliceEnd
      <3>2. /\ s \in States(Threads, Priorities) /\ s.stat = sched.stat /\ s.prio = sched.prio
            /\ s.current = sched.current /\ s.table = sched.table /\ s.group = sched.group
        BY <2>1 DEF States
      <3> HIDE DEF s
      <3>3. Sound(s, Threads, Priorities)
        BY <2>1, <3>2 DEF Sound
      <3>4. Grown(sched, s, Priorities)
        BY <3>2, SameTable
      <3> QED BY <3>1, <3>2, <3>3, <3>4, ScheduledInOrder
    <2> QED BY <2>2, <2>3, <2>4, <2>5, <2>6, TakeWaitInOrder, ReleaseInOrder DEF Next
  <1> QED BY <1>1, Invariant, PTL DEF Spec, ReadyInOrder

-----------------------------------------------------------------------------
(* The mutex as the threads see it                                         *)

(* The first of a list leaves it.                                          *)
LEMMA FirstOut ==
  ASSUME NEW T, NEW q \in Seq(T), Distinct(q), q # <<>>
  PROVE  Without(q, Head(q)) = Tail(q)
  <1> DEFINE k == CHOOSE j \in 1 .. Len(q) : q[j] = Head(q)
  <1>1. Len(q) \in Nat \ {0} /\ Head(q) = q[1] /\ 1 \in 1 .. Len(q)
    BY EmptySeq
  <1>2. k \in 1 .. Len(q) /\ q[k] = q[1]
    BY <1>1
  <1>3. k = 1
    BY <1>1, <1>2 DEF Distinct
  <1>4. Without(q, Head(q)) = [j \in 1 .. Len(q) - 1 |-> IF j < k THEN q[j] ELSE q[j + 1]]
    BY <1>1 DEF Without
  <1> HIDE DEF k
  <1>5. Without(q, Head(q)) = [j \in 1 .. Len(q) - 1 |-> q[j + 1]]
    BY <1>1, <1>3, <1>4
  <1>6. /\ Tail(q) \in Seq(T) /\ Len(Tail(q)) = Len(q) - 1
        /\ \A i \in 1 .. Len(Tail(q)) : Tail(q)[i] = q[i + 1]
    BY HeadTailProperties
  <1> DEFINE r == Without(q, Head(q))
  <1>7. r \in Seq(T)
    BY <1>1, LeavesList, HeadOfList
  <1>8. Len(r) = Len(q) - 1 /\ \A i \in 1 .. Len(r) : r[i] = q[i + 1]
    BY <1>1, <1>5
  <1> HIDE DEF r
  <1>9. r = Tail(q)
    BY <1>6, <1>7, <1>8, SeqEqual
  <1> QED BY <1>9 DEF r

(* Who drives and whom the bus has been passed to, in terms of the mutex's *)
(* own fields.                                                             *)
LEMMA DrivingIsOwner ==
  ASSUME Inv
  PROVE  /\ owner = NULL => Driving = {} /\ Passed = {}
         /\ owner # NULL /\ pc[owner] \in {"xfer", "xfer_sched"} =>
              Driving = {owner} /\ Passed = {}
         /\ owner # NULL /\ pc[owner] \in {"take_sched", "take_ret"} =>
              Driving = {} /\ Passed = {owner}
  <1>1. \A t \in Threads : t # NULL
    OBVIOUS
  <1>2. \A t \in Threads : pc[t] \in {"xfer", "xfer_sched"} => t = owner
    BY DEF Inv, Lock
  <1>3. \A t \in Threads : pc[t] \in {"take_sched", "take_ret"} /\ ~In(t, suspend_thread) =>
          t = owner
    BY DEF Inv, Lock
  <1>4. owner # NULL => owner \in Threads /\ ~In(owner, suspend_thread)
    BY DEF Inv, Lock
  <1> QED BY <1>1, <1>2, <1>3, <1>4 DEF Driving, Passed

(* The same for the state after a step.                                    *)
LEMMA DrivingIsOwnerNext ==
  ASSUME Inv'
  PROVE  /\ owner' = NULL => Driving' = {} /\ Passed' = {}
         /\ owner' # NULL /\ pc'[owner'] \in {"xfer", "xfer_sched"} =>
              Driving' = {owner'} /\ Passed' = {}
         /\ owner' # NULL /\ pc'[owner'] \in {"take_sched", "take_ret"} =>
              Driving' = {} /\ Passed' = {owner'}
  <1>1. \A t \in Threads : t # NULL
    OBVIOUS
  <1>2. \A t \in Threads : pc'[t] \in {"xfer", "xfer_sched"} => t = owner'
    BY DEF Inv, Lock
  <1>3. \A t \in Threads :
          pc'[t] \in {"take_sched", "take_ret"} /\ ~In(t, suspend_thread') => t = owner'
    BY DEF Inv, Lock
  <1>4. owner' # NULL => owner' \in Threads /\ ~In(owner', suspend_thread')
    BY DEF Inv, Lock
  <1> QED BY <1>1, <1>2, <1>3, <1>4 DEF Driving, Passed

(* The steps of rt_mutex_take and rt_mutex_release are those of the lock,  *)
(* every other step of the kernel changes nothing the threads see.         *)
THEOREM ImplementsFifoLock == Spec => IsFifoLock
  <1> DEFINE mapped == <<Driving, Passed, suspend_thread>>
             Xfer == {"xfer", "xfer_sched"}
             Taking == {"take_sched", "take_ret"}
  <1>1. Init => Fifo!Init
    BY DEF Init, Fifo!Init, Driving, Passed
  <1>2. Inv /\ Inv' /\ [Next]_vars => [Fifo!Next]_mapped
    <2> SUFFICES ASSUME Inv, Inv', [Next]_vars PROVE Fifo!Next \/ UNCHANGED mapped
      OBVIOUS
    <2> HIDE DEF mapped
    <2>1. pc \in [Threads -> Places]
      BY DEF Inv, Lock
    <2>2. ASSUME UNCHANGED suspend_thread,
                 \A u \in Threads : /\ pc'[u] \in Xfer <=> pc[u] \in Xfer
                                    /\ pc'[u] \in Taking <=> pc[u] \in Taking
          PROVE  UNCHANGED mapped
      BY <2>2 DEF mapped, Driving, Passed
    <2>3. CASE UNCHANGED vars
      BY <2>2, <2>3 DEF vars, mutex
    <2>4. ASSUME NEW t \in Threads, CallSchedule(t) PROVE UNCHANGED mapped
      <3>1. UNCHANGED suspend_thread
        BY <2>4 DEF CallSchedule, mutex
      <3>2. \A u \in Threads : /\ pc'[u] \in Xfer <=> pc[u] \in Xfer
                               /\ pc'[u] \in Taking <=> pc[u] \in Taking
        BY <2>1, <2>4 DEF CallSchedule, Runs, Goto
      <3> QED BY <2>2, <3>1, <3>2
    <2>5. ASSUME NEW t \in Threads, Sleep(t) PROVE UNCHANGED mapped
      <3>1. UNCHANGED suspend_thread
        BY <2>5 DEF Sleep, mutex
      <3>2. \A u \in Threads : /\ pc'[u] \in Xfer <=> pc[u] \in Xfer
                               /\ pc'[u] \in Taking <=> pc[u] \in Taking
        BY <2>1, <2>5 DEF Sleep, Runs, Goto
      <3> QED BY <2>2, <3>1, <3>2
    <2>6. ASSUME NEW t \in Threads, WakeUp(t) \/ SliceEnd PROVE UNCHANGED mapped
      BY <2>2, <2>6 DEF WakeUp, SliceEnd, mutex
    <2>7. ASSUME NEW t \in Threads, Take(t) PROVE Fifo!Acquire(t)
      <3>1. /\ value > 0 /\ owner' = t /\ pc' = [pc EXCEPT ![t] = "xfer"]
            /\ UNCHANGED suspend_thread
        BY <2>7 DEF Take, Goto
      <3>2. owner = NULL /\ t # NULL
        BY <3>1 DEF Inv, Lock
      <3>3. pc'[t] = "xfer"
        BY <2>1, <3>1
      <3>4. Driving = {} /\ Passed = {}
        BY <3>2, DrivingIsOwner
      <3>5. Driving' = {t} /\ Passed' = {}
        BY <3>1, <3>2, <3>3, DrivingIsOwnerNext
      <3> QED BY <3>1, <3>4, <3>5 DEF Fifo!Acquire, Fifo!Free
    <2>8. ASSUME NEW t \in Threads, TakeWait(t) PROVE Fifo!Join(t)
      <3>1. /\ value = 0 /\ pc[t] = "run" /\ pc' = [pc EXCEPT ![t] = "take_sched"]
            /\ suspend_thread' = Append(suspend_thread, t) /\ owner' = owner
        BY <2>8 DEF TakeWait, Runs, Goto
      <3>2. owner # NULL /\ owner \in Threads /\ pc[owner] \in Xfer \cup Taking
            /\ ~In(t, suspend_thread)
        BY <3>1 DEF Inv, Lock
      <3>3. t # owner /\ pc'[owner] = pc[owner]
        BY <2>1, <3>1, <3>2
      <3>4. owner \in Driving \cup Passed /\ t \notin Driving /\ t \notin Passed
        BY <3>1, <3>2, DrivingIsOwner DEF Driving, Passed
      <3>5. UNCHANGED <<Driving, Passed>>
        BY <3>1, <3>2, <3>3, DrivingIsOwner, DrivingIsOwnerNext
      <3> QED BY <3>1, <3>2, <3>4, <3>5 DEF Fifo!Join, Fifo!Free, Fifo!Standing, In
    <2>9. ASSUME NEW t \in Threads, TakeReturn(t) PROVE Fifo!Enter(t)
      <3>1. /\ sched.current = t /\ pc[t] = "take_ret" /\ pc' = [pc EXCEPT ![t] = "xfer"]
            /\ owner' = owner /\ suspend_thread' = suspend_thread
        BY <2>9 DEF TakeReturn, Runs, Goto, mutex
      <3>2. t = owner /\ t # NULL
        <4>1. sched.stat[t] = "RUNNING"
          BY <3>1 DEF Inv, Placed, BeforeSchedule
        <4>2. ~In(t, suspend_thread)
          BY <4>1 DEF Inv, Lock
        <4> QED BY <3>1, <4>2 DEF Inv, Lock
      <3>3. pc'[t] = "xfer"
        BY <2>1, <3>1
      <3>4. Driving = {} /\ Passed = {t}
        BY <3>1, <3>2, DrivingIsOwner
      <3>5. Driving' = {t} /\ Passed' = {}
        BY <3>1, <3>2, <3>3, DrivingIsOwnerNext
      <3> QED BY <3>1, <3>4, <3>5 DEF Fifo!Enter
    <2>10. ASSUME NEW t \in Threads, Release(t) PROVE Fifo!Leave(t) \/ Fifo!Pass(t)
      <3>1. pc[t] = "xfer" /\ owner = t /\ t # NULL
        BY <2>10 DEF Release, Runs
      <3>2. Driving = {t} /\ Passed = {}
        BY <3>1, DrivingIsOwner
      <3>3. CASE suspend_thread = <<>>
        <4>1. owner' = NULL /\ suspend_thread' = suspend_thread
          BY <2>10, <3>3 DEF Release
        <4>2. Driving' = {} /\ Passed' = {}
          BY <4>1, DrivingIsOwnerNext
        <4> QED BY <3>2, <3>3, <4>1, <4>2 DEF Fifo!Leave
      <3>4. CASE suspend_thread # <<>>
        <4> DEFINE f == Head(suspend_thread)
        <4>1. /\ owner' = f /\ suspend_thread' = Without(suspend_thread, f)
              /\ pc' = [pc EXCEPT ![t] = "sched"]
          BY <2>10, <3>4 DEF Release, HandOver, First, Goto
        <4>2. suspend_thread \in Seq(Threads) /\ Distinct(suspend_thread)
          BY DEF Inv, Lock
        <4>3. suspend_thread' = Tail(suspend_thread)
          BY <3>4, <4>1, <4>2, FirstOut
        <4>4. f \in Threads /\ In(f, suspend_thread)
          BY <3>4, <4>2, HeadOfList
        <4> HIDE DEF f
        <4>5. f # t /\ f # NULL /\ pc[f] \in Taking
          BY <3>1, <4>4 DEF Inv, Lock
        <4>6. pc'[f] \in Taking
          BY <2>1, <4>1, <4>4, <4>5
        <4>7. Driving' = {} /\ Passed' = {f}
          BY <4>1, <4>5, <4>6, DrivingIsOwnerNext
        <4> QED BY <3>2, <3>4, <4>3, <4>7 DEF Fifo!Pass, f
      <3> QED BY <3>3, <3>4
    <2> QED BY <2>3, <2>4, <2>5, <2>6, <2>7, <2>8, <2>9, <2>10 DEF Next, Fifo!Next
  <1> QED BY <1>1, <1>2, Invariant, PTL DEF Spec, IsFifoLock, Fifo!Spec
=============================================================================
