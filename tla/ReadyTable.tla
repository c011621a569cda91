----------------------------- MODULE ReadyTable -----------------------------
(***************************************************************************)
(* The ready table of the kernel (scheduler.c, thread.c): which thread     *)
(* runs and which wait for the processor.  Its operations are called from  *)
(* threads, from the clock interrupt and from device interrupts, often     *)
(* several in a row with interrupts disabled, so they are functions on the *)
(* state s of the scheduler, a record                                      *)
(*                                                                         *)
(*   current    rt_current_thread                                          *)
(*   stat       the state of every thread (rt_thread.stat, low bits)       *)
(*   yield      the threads whose flag RT_THREAD_STAT_YIELD is set         *)
(*   prio       rt_thread.current_priority, 0 is the highest               *)
(*   table      rt_thread_priority_table, a list of threads per priority   *)
(*   group      rt_thread_ready_priority_group, the bits that are set      *)
(*   lock_nest  rt_scheduler_lock_nest                                     *)
(***************************************************************************)
EXTENDS Integers, Sequences

(* The list s without t; unchanged when t is in no list (rt_list_remove).  *)
Without(s, t) ==
  IF \E j \in 1 .. Len(s) : s[j] = t
  THEN LET i == CHOOSE j \in 1 .. Len(s) : s[j] = t
       IN  [j \in 1 .. Len(s) - 1 |-> IF j < i THEN s[j] ELSE s[j + 1]]
  ELSE s

SetStat(s, t, x) == [s EXCEPT !.stat = [@ EXCEPT ![t] = x]]

SetPriority(s, t, p) == [s EXCEPT !.prio = [@ EXCEPT ![t] = p]]

(* The list of priority p becomes q, the bits become g. *)
SetList(s, p, q, g) ==
  [[s EXCEPT !.table = [@ EXCEPT ![p] = q]] EXCEPT !.group = g]

(* Mutant: a thread goes to the front of the list. *)
InsertThreadFirst(s, t) ==
  IF t = s.current THEN SetStat(s, t, "RUNNING")
  ELSE LET p == s.prio[t]
       IN  SetStat(SetList(s, p, <<t>> \o s.table[p], s.group \cup {p}), t, "READY")

(* rt_schedule_insert_thread: the current thread just runs on, any other   *)
(* goes to the end of the list of its priority.                            *)
InsertThread(s, t) ==
  IF t = s.current THEN SetStat(s, t, "RUNNING")
  ELSE LET p == s.prio[t]
       IN  SetStat(SetList(s, p, Append(s.table[p], t), s.group \cup {p}), t, "READY")

(* Mutant: the bit of the priority is cleared with every removal. *)
RemoveThreadAndBit(s, t) ==
  LET p == s.prio[t]
  IN  SetList(s, p, Without(s.table[p], t), s.group \ {p})

(* rt_schedule_remove_thread *)
RemoveThread(s, t) ==
  LET p == s.prio[t]
      q == Without(s.table[p], t)
  IN  SetList(s, p, q, IF q = <<>> THEN s.group \ {p} ELSE s.group)

(* The lowest bit that is set (__rt_ffs). *)
HighestReady(s) == CHOOSE p \in s.group : \A q \in s.group : p <= q

(* The current thread can run and no ready one is to replace it.           *)
KeepsRunning(s) ==
  LET p == HighestReady(s)
  IN  /\ s.stat[s.current] = "RUNNING"
      /\ \/ s.prio[s.current] < p
         \/ s.prio[s.current] = p /\ s.current \notin s.yield

(* The processor passes to thread t; the current thread becomes ready if   *)
(* it can run.                                                             *)
SwitchTo(s, t) ==
  LET from == s.current
      on   == [s EXCEPT !.current = t]
      back == IF s.stat[from] = "RUNNING"
              THEN InsertThread([on EXCEPT !.yield = s.yield \ {from}], from)
              ELSE on
  IN  SetStat(RemoveThread(back, t), t, "RUNNING")

(* rt_schedule *)
Schedule(s) ==
  IF s.lock_nest # 0 \/ s.group = {} THEN s
  ELSE IF KeepsRunning(s) THEN SetStat(RemoveThread(s, s.current), s.current, "RUNNING")
  ELSE SwitchTo(s, Head(s.table[HighestReady(s)]))

(* Mutant: a ready thread stays in the list of its old priority. *)
ChangePriorityInPlace(s, t, p) == SetPriority(s, t, p)

(* rt_thread_control(RT_THREAD_CTRL_CHANGE_PRIORITY) *)
ChangePriority(s, t, p) ==
  IF s.stat[t] = "READY"
  THEN InsertThread(SetPriority(RemoveThread(s, t), t, p), t)
  ELSE SetPriority(s, t, p)

-----------------------------------------------------------------------------
In(t, q) == \E i \in 1 .. Len(q) : q[i] = t

(* The table describes the states of the threads: a thread is ready when   *)
(* it is in the list of its priority, once; the current thread is in none; *)
(* a bit is set when the list is not empty; only the current thread runs.  *)
Sound(s, Threads, Priorities) ==
  /\ \A p \in Priorities :
       /\ p \in s.group <=> s.table[p] # <<>>
       /\ \A i, j \in 1 .. Len(s.table[p]) : s.table[p][i] = s.table[p][j] => i = j
  /\ \A t \in Threads :
       /\ s.stat[t] = "READY" => In(t, s.table[s.prio[t]])
       /\ s.stat[t] = "RUNNING" => t = s.current
       /\ \A p \in Priorities :
            In(t, s.table[p]) => s.stat[t] = "READY" /\ s.prio[t] = p /\ t # s.current

(* t stands before u in the list q. *)
Before(q, t, u) == \E i, j \in 1 .. Len(q) : i < j /\ q[i] = t /\ q[j] = u

(* List r follows list q, and nobody has got in front of a thread that was *)
(* in it: those before it in r were before it in q.                        *)
NoneOvertaken(q, r) ==
  \A i, j \in 1 .. Len(r) : i < j /\ In(r[j], q) => Before(q, r[i], r[j])

(* From s to r no thread is overtaken by one of its own priority: not in   *)
(* the lists, and not by the thread that gets the processor.               *)
InOrder(s, r, Priorities) ==
  /\ \A p \in Priorities : NoneOvertaken(s.table[p], r.table[p])
  /\ r.current # s.current =>
       LET q == s.table[r.prio[r.current]] IN q = <<>> \/ r.current = Head(q)
=============================================================================
