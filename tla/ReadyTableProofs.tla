--------------------------- MODULE ReadyTableProofs ---------------------------
(***************************************************************************)
(* Lemmas about the ready table, for any threads T and priorities P: each  *)
(* operation of ReadyTable keeps the table sound, and rt_schedule leaves   *)
(* the processor to a ready thread of the highest priority.  They are what *)
(* the proofs about BusLock and Sched rest on.                             *)
(***************************************************************************)
EXTENDS ReadyTable, SequenceTheorems, WellFoundedInduction, TLAPS

Stats == {"INIT", "READY", "RUNNING", "SUSPEND", "CLOSE"}

States(T, P) ==
  [current : T, stat : [T -> Stats], yield : SUBSET T, prio : [T -> P],
   table : [P -> Seq(T)], group : SUBSET P, lock_nest : Nat]

Distinct(q) == \A i, j \in 1 .. Len(q) : q[i] = q[j] => i = j

-----------------------------------------------------------------------------
(* Lists of threads                                                        *)

(* A thread joins a list at its end.                                       *)
LEMMA JoinList ==
  ASSUME NEW T, NEW q \in Seq(T), NEW t \in T, Distinct(q), ~In(t, q)
  PROVE  /\ Append(q, t) \in Seq(T) /\ Distinct(Append(q, t)) /\ Append(q, t) # <<>>
         /\ \A u \in T : In(u, Append(q, t)) <=> In(u, q) \/ u = t
  <1> DEFINE r == Append(q, t)
  <1>1. /\ r \in Seq(T) /\ Len(r) = Len(q) + 1 /\ Len(q) \in Nat
        /\ \A i \in 1 .. Len(q) : r[i] = q[i]
        /\ r[Len(q) + 1] = t
    BY LenProperties
  <1> HIDE DEF r
  <1>2. Distinct(r)
    BY <1>1 DEF Distinct, In
  <1>3. \A u \in T : In(u, r) <=> In(u, q) \/ u = t
    BY <1>1 DEF In
  <1>4. r # <<>>
    <2>1. Len(r) # 0
      BY <1>1
    <2> QED BY <2>1, EmptySeq
  <1> QED BY <1>1, <1>2, <1>3, <1>4 DEF r

(* rt_list_remove; a thread that is in no list stays in none.              *)
LEMMA LeavesList ==
  ASSUME NEW T, NEW q \in Seq(T), NEW t \in T, Distinct(q)
  PROVE  /\ Without(q, t) \in Seq(T) /\ Distinct(Without(q, t))
         /\ \A u \in T : In(u, Without(q, t)) <=> In(u, q) /\ u # t
  <1>1. CASE ~In(t, q)
    <2>1. Without(q, t) = q
      BY <1>1 DEF In, Without
    <2> QED BY <1>1, <2>1
  <1>2. CASE In(t, q)
    <2> DEFINE i == CHOOSE j \in 1 .. Len(q) : q[j] = t
               r == Without(q, t)
    <2>1. Len(q) \in Nat /\ \A j \in 1 .. Len(q) : q[j] \in T
      BY LenProperties
    <2>2. i \in 1 .. Len(q) /\ q[i] = t
      BY <1>2 DEF In
    <2>3. r = [j \in 1 .. Len(q) - 1 |-> IF j < i THEN q[j] ELSE q[j + 1]]
      BY <1>2 DEF Without, In
    <2> HIDE DEF i
    <2>4. r \in Seq(T) /\ Len(r) = Len(q) - 1
      <3>1. Len(q) - 1 \in Nat
        BY <2>1, <2>2
      <3>2. r \in [1 .. Len(q) - 1 -> T]
        BY <2>1, <2>2, <2>3
      <3> QED BY <3>1, <3>2
    <2>5. \A j \in 1 .. Len(r) : r[j] = IF j < i THEN q[j] ELSE q[j + 1]
      BY <2>3, <2>4
    <2> HIDE DEF r
    <2>6. Distinct(r)
      BY <2>1, <2>2, <2>4, <2>5 DEF Distinct
    <2>7. ASSUME NEW u \in T, In(u, r) PROVE In(u, q) /\ u # t
      <3>1. PICK j \in 1 .. Len(r) : r[j] = u
        BY <2>7 DEF In
      <3>2. PICK k \in 1 .. Len(q) : q[k] = u /\ k # i
        BY <2>1, <2>2, <2>4, <2>5, <3>1
      <3> QED BY <2>2, <3>2 DEF In, Distinct
    <2>8. ASSUME NEW u \in T, In(u, q), u # t PROVE In(u, r)
      <3>1. PICK k \in 1 .. Len(q) : q[k] = u /\ k # i
        BY <2>2, <2>8 DEF In
      <3>2. CASE k < i
        <4>1. k \in 1 .. Len(r) /\ r[k] = u
          BY <2>1, <2>2, <2>4, <2>5, <3>1, <3>2
        <4> QED BY <4>1 DEF In
      <3>3. CASE k > i
        <4>1. k - 1 \in 1 .. Len(r) /\ r[k - 1] = u
          BY <2>1, <2>2, <2>4, <2>5, <3>1, <3>3
        <4> QED BY <4>1 DEF In
      <3> QED BY <2>2, <3>1, <3>2, <3>3
    <2> QED BY <2>4, <2>6, <2>7, <2>8 DEF r
  <1> QED BY <1>1, <1>2

(* The first thread of a list.                                             *)
LEMMA HeadOfList ==
  ASSUME NEW T, NEW q \in Seq(T), q # <<>>
  PROVE  Head(q) \in T /\ In(Head(q), q)
  <1>1. Len(q) \in Nat \ {0} /\ Head(q) = q[1]
    BY EmptySeq
  <1>2. q[1] \in T
    BY <1>1, ElementOfSeq
  <1> QED BY <1>1, <1>2 DEF In

(* Nobody is in an empty list.                                             *)
LEMMA EmptyHasNone == \A t : ~In(t, <<>>)
  BY EmptySeq DEF In

-----------------------------------------------------------------------------
(* The fields an operation changes                                         *)

(* The fields of the record after a thread has got another state, another  *)
(* priority or a list another content.                                     *)
LEMMA SetStatFields ==
  ASSUME NEW T, NEW P, NEW s \in States(T, P), NEW t \in T, NEW x \in Stats
  PROVE  /\ SetStat(s, t, x) \in States(T, P)
         /\ SetStat(s, t, x).stat = [s.stat EXCEPT ![t] = x]
         /\ SetStat(s, t, x).current = s.current /\ SetStat(s, t, x).yield = s.yield
         /\ SetStat(s, t, x).prio = s.prio /\ SetStat(s, t, x).table = s.table
         /\ SetStat(s, t, x).group = s.group /\ SetStat(s, t, x).lock_nest = s.lock_nest
  BY DEF SetStat, States

(* A priority is stored (rt_thread_control).                               *)
LEMMA SetPriorityFields ==
  ASSUME NEW T, NEW P, NEW s \in States(T, P), NEW t \in T, NEW p \in P
  PROVE  /\ SetPriority(s, t, p) \in States(T, P)
         /\ SetPriority(s, t, p).prio = [s.prio EXCEPT ![t] = p]
         /\ SetPriority(s, t, p).current = s.current /\ SetPriority(s, t, p).yield = s.yield
         /\ SetPriority(s, t, p).stat = s.stat /\ SetPriority(s, t, p).table = s.table
         /\ SetPriority(s, t, p).group = s.group
         /\ SetPriority(s, t, p).lock_nest = s.lock_nest
  BY DEF SetPriority, States

(* A list and the bits are stored (rt_schedule_insert_thread and           *)
(* rt_schedule_remove_thread).                                             *)
LEMMA SetListFields ==
  ASSUME NEW T, NEW P, NEW s \in States(T, P), NEW p \in P, NEW q \in Seq(T),
         NEW g \in SUBSET P
  PROVE  /\ SetList(s, p, q, g) \in States(T, P)
         /\ SetList(s, p, q, g).table = [s.table EXCEPT ![p] = q]
         /\ SetList(s, p, q, g).group = g
         /\ SetList(s, p, q, g).current = s.current /\ SetList(s, p, q, g).yield = s.yield
         /\ SetList(s, p, q, g).stat = s.stat /\ SetList(s, p, q, g).prio = s.prio
         /\ SetList(s, p, q, g).lock_nest = s.lock_nest
  BY DEF SetList, States

-----------------------------------------------------------------------------
(* The lists and the states of the threads                                 *)

(* Bits and lists agree, and lists and states do for every thread but t,   *)
(* which is in no list.                                                    *)
ListsBut(s, t, T, P) ==
  /\ \A p \in P : (p \in s.group <=> s.table[p] # <<>>) /\ Distinct(s.table[p])
  /\ \A p \in P : ~In(t, s.table[p])
  /\ \A u \in T \ {t} : s.stat[u] = "READY" => In(u, s.table[s.prio[u]])
  /\ \A u \in T \ {t}, p \in P :
       In(u, s.table[p]) => s.stat[u] = "READY" /\ s.prio[u] = p

Lists(s, T, P) ==
  /\ \A p \in P : (p \in s.group <=> s.table[p] # <<>>) /\ Distinct(s.table[p])
  /\ \A u \in T : s.stat[u] = "READY" => In(u, s.table[s.prio[u]])
  /\ \A u \in T, p \in P : In(u, s.table[p]) => s.stat[u] = "READY" /\ s.prio[u] = p

(* A sound table is one whose lists agree with the states, in which only   *)
(* the current thread runs and the current thread is not ready.            *)
LEMMA SoundLists ==
  ASSUME NEW T, NEW P, NEW s \in States(T, P)
  PROVE  Sound(s, T, P) <=> /\ Lists(s, T, P)
                            /\ \A u \in T : s.stat[u] = "RUNNING" => u = s.current
                            /\ s.stat[s.current] # "READY"
  <1>1. s.current \in T /\ s.prio \in [T -> P]
    BY DEF States
  <1>2. ASSUME Sound(s, T, P) PROVE s.stat[s.current] # "READY"
    <2>1. s.stat[s.current] = "READY" => In(s.current, s.table[s.prio[s.current]])
      BY <1>1, <1>2 DEF Sound
    <2>2. s.prio[s.current] \in P
      BY <1>1
    <2> QED BY <1>1, <1>2, <2>1, <2>2 DEF Sound
  <1>3. Sound(s, T, P) =>
          Lists(s, T, P) /\ \A u \in T : s.stat[u] = "RUNNING" => u = s.current
    BY DEF Sound, Lists, Distinct
  <1>4. /\ Lists(s, T, P)
        /\ \A u \in T : s.stat[u] = "RUNNING" => u = s.current
        /\ s.stat[s.current] # "READY"
        => Sound(s, T, P)
    BY DEF Sound, Lists, Distinct
  <1> QED BY <1>2, <1>3, <1>4

(* Who is not ready is in no list.                                         *)
LEMMA NotListed ==
  ASSUME NEW T, NEW P, NEW s \in States(T, P), NEW t \in T, s.stat[t] # "READY"
  PROVE  Lists(s, T, P) <=> ListsBut(s, t, T, P)
  <1>1. Lists(s, T, P) => ListsBut(s, t, T, P)
    BY DEF Lists, ListsBut
  <1>2. ASSUME ListsBut(s, t, T, P) PROVE Lists(s, T, P)
    <2>1. \A u \in T : s.stat[u] = "READY" => In(u, s.table[s.prio[u]])
      BY <1>2 DEF ListsBut
    <2>2. \A u \in T, p \in P : In(u, s.table[p]) => s.stat[u] = "READY" /\ s.prio[u] = p
      BY <1>2 DEF ListsBut
    <2> QED BY <1>2, <2>1, <2>2 DEF ListsBut, Lists
  <1> QED BY <1>1, <1>2

(* rt_schedule_remove_thread                                               *)
LEMMA Delist ==
  ASSUME NEW T, NEW P, NEW s \in States(T, P), Lists(s, T, P), NEW t \in T
  PROVE  /\ RemoveThread(s, t) \in States(T, P)
         /\ ListsBut(RemoveThread(s, t), t, T, P)
         /\ RemoveThread(s, t).stat = s.stat /\ RemoveThread(s, t).prio = s.prio
         /\ RemoveThread(s, t).current = s.current /\ RemoveThread(s, t).yield = s.yield
         /\ RemoveThread(s, t).lock_nest = s.lock_nest
         /\ s.stat[t] # "READY" => RemoveThread(s, t).group = s.group
  <1> DEFINE p == s.prio[t]
             q == Without(s.table[p], t)
             g == IF q = <<>> THEN s.group \ {p} ELSE s.group
             r == RemoveThread(s, t)
  <1>1. p \in P /\ s.table[p] \in Seq(T) /\ Distinct(s.table[p]) /\ g \in SUBSET P
    BY DEF States, Lists
  <1>2. q \in Seq(T) /\ Distinct(q) /\ \A u \in T : In(u, q) <=> In(u, s.table[p]) /\ u # t
    BY <1>1, LeavesList
  <1>3. r = SetList(s, p, q, g)
    BY DEF RemoveThread
  <1>4. q # <<>> => s.table[p] # <<>>
    <2>1. q # <<>> => Head(q) \in T /\ In(Head(q), q)
      BY <1>2, HeadOfList
    <2> QED BY <1>2, <2>1, EmptyHasNone
  <1>5. s.stat[t] # "READY" => q = s.table[p]
    BY <1>1 DEF Lists, Without, In
  <1> HIDE DEF q, g, r
  <1>6. /\ r \in States(T, P) /\ r.table = [s.table EXCEPT ![p] = q] /\ r.group = g
        /\ r.stat = s.stat /\ r.prio = s.prio /\ r.current = s.current
        /\ r.yield = s.yield /\ r.lock_nest = s.lock_nest
    BY <1>1, <1>2, <1>3, SetListFields
  <1> HIDE DEF p
  <1>7. s.table \in [P -> Seq(T)] /\ s.group \subseteq P
    BY DEF States
  <1>8. \A k \in P : (k \in r.group <=> r.table[k] # <<>>) /\ Distinct(r.table[k])
    BY <1>1, <1>2, <1>4, <1>6, <1>7 DEF Lists, g
  <1>9. \A k \in P : ~In(t, r.table[k])
    BY <1>1, <1>2, <1>6, <1>7 DEF Lists, p
  <1>10. \A u \in T \ {t} : r.stat[u] = "READY" => In(u, r.table[r.prio[u]])
    <2> SUFFICES ASSUME NEW u \in T \ {t}, s.stat[u] = "READY"
                 PROVE  In(u, r.table[s.prio[u]])
      BY <1>6
    <2>1. In(u, s.table[s.prio[u]]) /\ s.prio[u] \in P
      BY DEF Lists, States
    <2> QED BY <1>1, <1>2, <1>6, <1>7, <2>1
  <1>11. ASSUME NEW u \in T \ {t}, NEW k \in P, In(u, r.table[k])
         PROVE  r.stat[u] = "READY" /\ r.prio[u] = k
    <2>1. In(u, s.table[k])
      BY <1>1, <1>2, <1>6, <1>7, <1>11
    <2> QED BY <1>6, <2>1 DEF Lists
  <1>12. s.stat[t] # "READY" => r.group = s.group
    <2> SUFFICES ASSUME s.stat[t] # "READY" PROVE g = s.group
      BY <1>6
    <2>1. q = <<>> => p \notin s.group
      BY <1>1, <1>5 DEF Lists
    <2> QED BY <2>1 DEF g
  <1> QED BY <1>6, <1>8, <1>9, <1>10, <1>11, <1>12 DEF ListsBut, r

(* rt_schedule_insert_thread, for a thread that is not the current one.    *)
LEMMA Enlist ==
  ASSUME NEW T, NEW P, NEW s \in States(T, P), NEW t \in T, ListsBut(s, t, T, P),
         t # s.current
  PROVE  /\ InsertThread(s, t) \in States(T, P)
         /\ Lists(InsertThread(s, t), T, P)
         /\ InsertThread(s, t).stat = [s.stat EXCEPT ![t] = "READY"]
         /\ InsertThread(s, t).prio = s.prio /\ InsertThread(s, t).current = s.current
         /\ InsertThread(s, t).yield = s.yield
         /\ InsertThread(s, t).lock_nest = s.lock_nest
  <1> DEFINE p == s.prio[t]
             q == Append(s.table[p], t)
             g == s.group \cup {p}
             l == SetList(s, p, q, g)
             r == InsertThread(s, t)
  <1>1. p \in P /\ s.table[p] \in Seq(T) /\ Distinct(s.table[p]) /\ ~In(t, s.table[p])
    BY DEF States, ListsBut
  <1>2. q \in Seq(T) /\ Distinct(q) /\ q # <<>>
        /\ \A u \in T : In(u, q) <=> In(u, s.table[p]) \/ u = t
    BY <1>1, JoinList
  <1>3. r = SetStat(l, t, "READY")
    BY DEF InsertThread
  <1>4. g \in SUBSET P /\ "READY" \in Stats /\ s.table \in [P -> Seq(T)] /\ s.stat \in [T -> Stats]
        /\ s.prio \in [T -> P]
    BY <1>1 DEF States, Stats
  <1> HIDE DEF p, q, g, l, r
  <1>5. /\ l \in States(T, P) /\ l.table = [s.table EXCEPT ![p] = q]
        /\ l.group = g /\ l.stat = s.stat /\ l.prio = s.prio
        /\ l.current = s.current /\ l.yield = s.yield /\ l.lock_nest = s.lock_nest
    BY <1>1, <1>2, <1>4, SetListFields DEF l
  <1>6. /\ r \in States(T, P) /\ r.table = [s.table EXCEPT ![p] = q]
        /\ r.group = g /\ r.stat = [s.stat EXCEPT ![t] = "READY"]
        /\ r.prio = s.prio
        /\ r.current = s.current /\ r.yield = s.yield /\ r.lock_nest = s.lock_nest
    BY <1>3, <1>4, <1>5, SetStatFields
  <1>7. \A k \in P : (k \in r.group <=> r.table[k] # <<>>) /\ Distinct(r.table[k])
    BY <1>1, <1>2, <1>4, <1>6 DEF ListsBut, g
  <1>8. ASSUME NEW u \in T, r.stat[u] = "READY" PROVE In(u, r.table[r.prio[u]])
    <2>1. CASE u = t
      BY <1>1, <1>2, <1>4, <1>6, <2>1 DEF p
    <2>2. CASE u # t
      <3>1. In(u, s.table[s.prio[u]]) /\ s.prio[u] \in P
        BY <1>4, <1>6, <1>8, <2>2 DEF ListsBut
      <3> QED BY <1>1, <1>2, <1>4, <1>6, <3>1
    <2> QED BY <2>1, <2>2
  <1>9. ASSUME NEW u \in T, NEW k \in P, In(u, r.table[k])
        PROVE  r.stat[u] = "READY" /\ r.prio[u] = k
    <2>1. CASE u = t
      <3>1. k = p
        BY <1>1, <1>4, <1>6, <1>9, <2>1 DEF ListsBut
      <3> QED BY <1>4, <1>6, <2>1, <3>1 DEF p
    <2>2. CASE u # t
      <3>1. In(u, s.table[k])
        BY <1>1, <1>2, <1>4, <1>6, <1>9, <2>2
      <3> QED BY <1>4, <1>6, <2>2, <3>1 DEF ListsBut
    <2> QED BY <2>1, <2>2
  <1> QED BY <1>6, <1>7, <1>8, <1>9 DEF Lists, r
-----------------------------------------------------------------------------
(* The operations                                                          *)

(* rt_schedule_insert_thread for a thread that was not ready.              *)
LEMMA InsertSound ==
  ASSUME NEW T, NEW P, NEW s \in States(T, P), Sound(s, T, P), NEW t \in T,
         s.stat[t] # "READY"
  PROVE  /\ InsertThread(s, t) \in States(T, P)
         /\ s.stat[t] # "RUNNING" \/ t = s.current
         /\ Sound(InsertThread(s, t), T, P)
         /\ InsertThread(s, t).stat =
              [s.stat EXCEPT ![t] = IF t = s.current THEN "RUNNING" ELSE "READY"]
         /\ InsertThread(s, t).prio = s.prio /\ InsertThread(s, t).current = s.current
         /\ InsertThread(s, t).yield = s.yield
         /\ InsertThread(s, t).lock_nest = s.lock_nest
  <1> DEFINE r == InsertThread(s, t)
  <1>1. /\ Lists(s, T, P) /\ s.stat[s.current] # "READY"
        /\ \A u \in T : s.stat[u] = "RUNNING" => u = s.current
    BY SoundLists
  <1>2. s.current \in T /\ s.stat \in [T -> Stats] /\ "RUNNING" \in Stats
    BY DEF States, Stats
  <1>3. ListsBut(s, t, T, P)
    BY <1>1, NotListed
  <1>4. CASE t = s.current
    <2>1. r = SetStat(s, t, "RUNNING")
      BY <1>4 DEF InsertThread
    <2> HIDE DEF r
    <2>2. /\ r \in States(T, P) /\ r.stat = [s.stat EXCEPT ![t] = "RUNNING"]
          /\ r.current = s.current /\ r.yield = s.yield /\ r.prio = s.prio
          /\ r.table = s.table /\ r.group = s.group /\ r.lock_nest = s.lock_nest
      BY <1>2, <2>1, SetStatFields
    <2>3. Lists(r, T, P)
      BY <1>2, <1>3, <2>2 DEF Lists, ListsBut
    <2>4. Sound(r, T, P)
      BY <1>1, <1>2, <1>4, <2>2, <2>3, SoundLists
    <2> QED BY <1>4, <2>2, <2>4 DEF r
  <1>5. CASE t # s.current
    <2> HIDE DEF r
    <2>1. /\ r \in States(T, P) /\ Lists(r, T, P)
          /\ r.stat = [s.stat EXCEPT ![t] = "READY"]
          /\ r.prio = s.prio /\ r.current = s.current
          /\ r.yield = s.yield /\ r.lock_nest = s.lock_nest
      BY <1>3, <1>5, Enlist DEF r
    <2>2. Sound(r, T, P)
      BY <1>1, <1>2, <1>5, <2>1, SoundLists
    <2> QED BY <1>1, <1>5, <2>1, <2>2 DEF r
  <1> QED BY <1>4, <1>5

(* A thread leaves the ready table, or the current one leaves its state.   *)
LEMMA RemoveSound ==
  ASSUME NEW T, NEW P, NEW s \in States(T, P), Sound(s, T, P), NEW t \in T,
         NEW x \in Stats \ {"READY"}, x = "RUNNING" => t = s.current
  PROVE  /\ SetStat(RemoveThread(s, t), t, x) \in States(T, P)
         /\ Sound(SetStat(RemoveThread(s, t), t, x), T, P)
         /\ SetStat(RemoveThread(s, t), t, x).stat = [s.stat EXCEPT ![t] = x]
         /\ SetStat(RemoveThread(s, t), t, x).prio = s.prio
         /\ SetStat(RemoveThread(s, t), t, x).current = s.current
         /\ SetStat(RemoveThread(s, t), t, x).yield = s.yield
         /\ SetStat(RemoveThread(s, t), t, x).lock_nest = s.lock_nest
  <1> DEFINE d == RemoveThread(s, t)
             r == SetStat(d, t, x)
  <1>1. /\ Lists(s, T, P) /\ s.stat[s.current] # "READY"
        /\ \A u \in T : s.stat[u] = "RUNNING" => u = s.current
    BY SoundLists
  <1>2. s.current \in T /\ s.stat \in [T -> Stats]
    BY DEF States
  <1> HIDE DEF d, r
  <1>3. /\ d \in States(T, P) /\ ListsBut(d, t, T, P) /\ d.stat = s.stat
        /\ d.prio = s.prio /\ d.current = s.current /\ d.yield = s.yield
        /\ d.lock_nest = s.lock_nest
    BY <1>1, Delist DEF d
  <1>4. /\ r \in States(T, P) /\ r.stat = [s.stat EXCEPT ![t] = x]
        /\ r.current = s.current /\ r.yield = s.yield /\ r.prio = s.prio
        /\ r.table = d.table /\ r.group = d.group /\ r.lock_nest = s.lock_nest
    BY <1>3, SetStatFields DEF r
  <1>5. ListsBut(r, t, T, P)
    BY <1>2, <1>3, <1>4 DEF ListsBut
  <1>6. Lists(r, T, P)
    BY <1>2, <1>4, <1>5, NotListed
  <1>7. Sound(r, T, P)
    BY <1>1, <1>2, <1>4, <1>6, SoundLists
  <1> QED BY <1>4, <1>7 DEF r, d

(* rt_thread_control(RT_THREAD_CTRL_CHANGE_PRIORITY)                       *)
LEMMA ChangePrioritySound ==
  ASSUME NEW T, NEW P, NEW s \in States(T, P), Sound(s, T, P), NEW t \in T, NEW p \in P
  PROVE  /\ ChangePriority(s, t, p) \in States(T, P)
         /\ Sound(ChangePriority(s, t, p), T, P)
         /\ ChangePriority(s, t, p).stat = s.stat
         /\ ChangePriority(s, t, p).prio = [s.prio EXCEPT ![t] = p]
         /\ ChangePriority(s, t, p).current = s.current
         /\ ChangePriority(s, t, p).yield = s.yield
         /\ ChangePriority(s, t, p).lock_nest = s.lock_nest
  <1> DEFINE r == ChangePriority(s, t, p)
  <1>1. /\ Lists(s, T, P) /\ s.stat[s.current] # "READY"
        /\ \A u \in T : s.stat[u] = "RUNNING" => u = s.current
    BY SoundLists
  <1>2. s.current \in T /\ s.stat \in [T -> Stats] /\ s.prio \in [T -> P]
    BY DEF States
  <1>3. CASE s.stat[t] # "READY"
    <2>1. r = SetPriority(s, t, p)
      BY <1>3 DEF ChangePriority
    <2> HIDE DEF r
    <2>2. /\ r \in States(T, P) /\ r.prio = [s.prio EXCEPT ![t] = p] /\ r.stat = s.stat
          /\ r.current = s.current /\ r.yield = s.yield
          /\ r.table = s.table /\ r.group = s.group /\ r.lock_nest = s.lock_nest
      BY <2>1, SetPriorityFields
    <2>3. ListsBut(s, t, T, P)
      BY <1>1, <1>3, NotListed
    <2>4. ListsBut(r, t, T, P)
      BY <1>2, <2>2, <2>3 DEF ListsBut
    <2>5. Lists(r, T, P)
      BY <1>3, <2>2, <2>4, NotListed
    <2>6. Sound(r, T, P)
      BY <1>1, <2>2, <2>5, SoundLists
    <2> QED BY <2>2, <2>6 DEF r
  <1>4. CASE s.stat[t] = "READY"
    <2> DEFINE d == RemoveThread(s, t)
               e == SetPriority(d, t, p)
    <2>1. r = InsertThread(e, t)
      BY <1>4 DEF ChangePriority
    <2> HIDE DEF r, d, e
    <2>2. /\ d \in States(T, P) /\ ListsBut(d, t, T, P) /\ d.stat = s.stat
          /\ d.prio = s.prio /\ d.current = s.current /\ d.yield = s.yield
          /\ d.lock_nest = s.lock_nest
      BY <1>1, Delist DEF d
    <2>3. /\ e \in States(T, P) /\ e.prio = [s.prio EXCEPT ![t] = p] /\ e.stat = s.stat
          /\ e.current = s.current /\ e.yield = s.yield
          /\ e.table = d.table /\ e.group = d.group /\ e.lock_nest = s.lock_nest
      BY <2>2, SetPriorityFields DEF e
    <2>4. ListsBut(e, t, T, P)
      BY <1>2, <2>2, <2>3 DEF ListsBut
    <2>5. /\ r \in States(T, P) /\ Lists(r, T, P) /\ r.stat = [e.stat EXCEPT ![t] = "READY"]
          /\ r.prio = e.prio /\ r.current = e.current /\ r.yield = e.yield
          /\ r.lock_nest = e.lock_nest
      BY <1>1, <1>4, <2>1, <2>3, <2>4, Enlist
    <2>6. r.stat = s.stat
      BY <1>2, <1>4, <2>3, <2>5
    <2>7. Sound(r, T, P)
      BY <1>1, <2>3, <2>5, <2>6, SoundLists
    <2> QED BY <2>3, <2>5, <2>6, <2>7 DEF r
  <1> QED BY <1>3, <1>4

-----------------------------------------------------------------------------
(* rt_schedule                                                             *)

(* Some bit is the lowest one.                                             *)
LEMMA LeastExists ==
  ASSUME NEW G \in SUBSET Nat, G # {}
  PROVE  \E p \in G : \A q \in G : p <= q
  <1> DEFINE Less == OpToRel(<, Nat)
  <1>1. IsWellFoundedOn(Less, Nat)
    BY NatLessThanWellFounded
  <1>2. \A x, y \in Nat : x < y => <<x, y>> \in Less
    BY DEF OpToRel
  <1> HIDE DEF Less
  <1>3. PICK p \in G : \A q \in G : ~ (<<q, p>> \in Less)
    BY <1>1, WFMin
  <1>4. \A q \in G : q \in Nat
    OBVIOUS
  <1>5. \A q \in G : ~ (q < p)
    BY <1>2, <1>3, <1>4, Zenon
  <1>6. \A q \in G : p <= q
    BY <1>4, <1>5
  <1> QED BY <1>6

(* _get_highest_priority_thread finds a ready thread of the highest        *)
(* priority.                                                               *)
LEMMA HighestIsReady ==
  ASSUME NEW T, NEW P \in SUBSET Nat, NEW s \in States(T, P), Sound(s, T, P), s.group # {}
  PROVE  /\ HighestReady(s) \in P
         /\ Head(s.table[HighestReady(s)]) \in T
         /\ s.stat[Head(s.table[HighestReady(s)])] = "READY"
         /\ s.prio[Head(s.table[HighestReady(s)])] = HighestReady(s)
         /\ \A u \in T : s.stat[u] = "READY" => HighestReady(s) <= s.prio[u]
  <1> DEFINE p == HighestReady(s)
             t == Head(s.table[p])
  <1>1. s.group \in SUBSET P /\ s.group \in SUBSET Nat /\ s.table \in [P -> Seq(T)]
        /\ s.prio \in [T -> P]
    BY DEF States
  <1>2. Lists(s, T, P)
    BY SoundLists
  <1>3. \E k \in s.group : \A q \in s.group : k <= q
    BY <1>1, LeastExists
  <1>4. p \in s.group /\ \A q \in s.group : p <= q
    BY <1>3 DEF HighestReady
  <1> HIDE DEF p
  <1>5. p \in P /\ s.table[p] # <<>> /\ s.table[p] \in Seq(T)
    BY <1>1, <1>2, <1>4 DEF Lists
  <1>6. t \in T /\ In(t, s.table[p])
    BY <1>5, HeadOfList
  <1>7. s.stat[t] = "READY" /\ s.prio[t] = p
    <2>1. \A u \in T, k \in P : In(u, s.table[k]) => s.stat[u] = "READY" /\ s.prio[u] = k
      BY <1>2 DEF Lists
    <2> QED BY <1>5, <1>6, <2>1
  <1>8. ASSUME NEW u \in T, s.stat[u] = "READY" PROVE p <= s.prio[u]
    <2>1. In(u, s.table[s.prio[u]]) /\ s.prio[u] \in P
      BY <1>1, <1>2, <1>8 DEF Lists
    <2>2. s.table[s.prio[u]] # <<>>
      BY <2>1, EmptyHasNone
    <2>3. s.prio[u] \in s.group
      BY <1>2, <2>1, <2>2 DEF Lists
    <2> QED BY <1>4, <2>3
  <1> QED BY <1>5, <1>6, <1>7, <1>8 DEF p

(* The processor passes to a ready thread.                                 *)
LEMMA SwitchSound ==
  ASSUME NEW T, NEW P, NEW s \in States(T, P), Sound(s, T, P), NEW t \in T,
         s.stat[t] = "READY"
  PROVE  /\ SwitchTo(s, t) \in States(T, P) /\ Sound(SwitchTo(s, t), T, P)
         /\ SwitchTo(s, t).current = t /\ SwitchTo(s, t).prio = s.prio
         /\ SwitchTo(s, t).lock_nest = s.lock_nest
         /\ SwitchTo(s, t).yield \subseteq s.yield
         /\ SwitchTo(s, t).stat = [u \in T |->
              IF u = t THEN "RUNNING"
              ELSE IF s.stat[u] = "RUNNING" THEN "READY" ELSE s.stat[u]]
  <1> DEFINE from == s.current
             on   == [s EXCEPT !.current = t]
             tired == [on EXCEPT !.yield = s.yield \ {from}]
             back == IF s.stat[from] = "RUNNING" THEN InsertThread(tired, from) ELSE on
             gone == RemoveThread(back, t)
             r    == SwitchTo(s, t)
  <1>1. /\ Lists(s, T, P) /\ s.stat[from] # "READY"
        /\ \A u \in T : s.stat[u] = "RUNNING" => u = from
    BY SoundLists
  <1>2. from \in T /\ from # t /\ s.stat \in [T -> Stats] /\ s.yield \in SUBSET T
        /\ "RUNNING" \in Stats
    BY <1>1 DEF States, Stats
  <1>3. r = SetStat(gone, t, "RUNNING")
    BY DEF SwitchTo
  <1>4. /\ on \in States(T, P) /\ on.current = t /\ on.stat = s.stat /\ on.prio = s.prio
        /\ on.table = s.table /\ on.group = s.group /\ on.yield = s.yield
        /\ on.lock_nest = s.lock_nest
    BY DEF States
  <1> HIDE DEF on, from
  <1>5. /\ tired \in States(T, P) /\ tired.current = t /\ tired.stat = s.stat
        /\ tired.prio = s.prio /\ tired.table = s.table /\ tired.group = s.group
        /\ tired.yield = s.yield \ {from} /\ tired.lock_nest = s.lock_nest
    BY <1>2, <1>4 DEF States
  <1> HIDE DEF tired, back, gone, r
  <1>6. Lists(on, T, P) /\ Lists(tired, T, P)
    BY <1>1, <1>4, <1>5 DEF Lists
  <1>7. /\ back \in States(T, P) /\ Lists(back, T, P) /\ back.current = t
        /\ back.prio = s.prio /\ back.lock_nest = s.lock_nest
        /\ \A u \in back.yield : u \in s.yield
        /\ back.stat = [u \in T |-> IF s.stat[u] = "RUNNING" THEN "READY" ELSE s.stat[u]]
    <2>1. CASE s.stat[from] = "RUNNING"
      <3>1. back = InsertThread(tired, from)
        BY <2>1 DEF back
      <3>2. ListsBut(tired, from, T, P)
        BY <1>1, <1>2, <1>5, <1>6, NotListed
      <3>3. /\ back \in States(T, P) /\ Lists(back, T, P)
            /\ back.stat = [s.stat EXCEPT ![from] = "READY"]
            /\ back.prio = s.prio /\ back.current = t
            /\ back.yield = s.yield \ {from} /\ back.lock_nest = s.lock_nest
        BY <1>2, <1>5, <3>1, <3>2, Enlist
      <3> QED BY <1>1, <1>2, <2>1, <3>3
    <2>2. CASE s.stat[from] # "RUNNING"
      <3>1. back = on
        BY <2>2 DEF back
      <3>2. s.stat = [u \in T |-> IF s.stat[u] = "RUNNING" THEN "READY" ELSE s.stat[u]]
        BY <1>1, <1>2, <2>2
      <3> QED BY <1>4, <1>6, <3>1, <3>2
    <2> QED BY <2>1, <2>2
  <1>8. /\ gone \in States(T, P) /\ ListsBut(gone, t, T, P) /\ gone.stat = back.stat
        /\ gone.prio = s.prio /\ gone.current = t /\ gone.yield = back.yield
        /\ gone.lock_nest = s.lock_nest
    BY <1>7, Delist DEF gone
  <1>9. /\ r \in States(T, P) /\ r.stat = [back.stat EXCEPT ![t] = "RUNNING"]
        /\ r.current = t /\ r.yield = back.yield /\ r.prio = s.prio
        /\ r.table = gone.table /\ r.group = gone.group /\ r.lock_nest = s.lock_nest
    BY <1>2, <1>3, <1>8, SetStatFields
  <1>10. r.stat = [u \in T |-> IF u = t THEN "RUNNING"
                               ELSE IF s.stat[u] = "RUNNING" THEN "READY" ELSE s.stat[u]]
    BY <1>7, <1>9
  <1>11. ListsBut(r, t, T, P)
    <2>1. \A u \in T \ {t} : r.stat[u] = gone.stat[u]
      BY <1>7, <1>8, <1>10
    <2> QED BY <1>8, <1>9, <2>1 DEF ListsBut
  <1>12. Lists(r, T, P)
    BY <1>9, <1>10, <1>11, NotListed
  <1>13. Sound(r, T, P)
    BY <1>9, <1>10, <1>12, SoundLists
  <1>14. r.yield \subseteq s.yield
    BY <1>7, <1>9
  <1> QED BY <1>9, <1>10, <1>13, <1>14 DEF r

(* rt_schedule keeps the table sound; unless the scheduler is locked, the  *)
(* thread that has the processor afterwards can run, and none of higher    *)
(* priority is ready.                                                      *)
LEMMA ScheduleSound ==
  ASSUME NEW T, NEW P \in SUBSET Nat, NEW s \in States(T, P), Sound(s, T, P)
  PROVE  /\ Schedule(s) \in States(T, P) /\ Sound(Schedule(s), T, P)
         /\ Schedule(s).prio = s.prio /\ Schedule(s).lock_nest = s.lock_nest
         /\ Schedule(s).yield \subseteq s.yield
         /\ Schedule(s).stat = [u \in T |->
              IF u = Schedule(s).current /\ s.stat[u] = "READY" THEN "RUNNING"
              ELSE IF s.stat[u] = "RUNNING" /\ u # Schedule(s).current THEN "READY"
              ELSE s.stat[u]]
         /\ Schedule(s).current # s.current => s.stat[Schedule(s).current] = "READY"
         /\ s.lock_nest # 0 => Schedule(s) = s
         /\ s.lock_nest = 0 /\ (\E u \in T : s.stat[u] \in {"READY", "RUNNING"}) =>
              /\ Schedule(s).stat[Schedule(s).current] = "RUNNING"
              /\ \A u \in T : Schedule(s).stat[u] = "READY" =>
                   s.prio[Schedule(s).current] <= s.prio[u]
  <1> DEFINE r == Schedule(s)
             c == s.current
             p == HighestReady(s)
             h == Head(s.table[p])
  <1>1. /\ Lists(s, T, P) /\ s.stat[c] # "READY"
        /\ \A u \in T : s.stat[u] = "RUNNING" => u = c
    BY SoundLists
  <1>2. c \in T /\ s.stat \in [T -> Stats] /\ s.yield \in SUBSET T /\ s.lock_nest \in Nat
        /\ s.prio \in [T -> P] /\ \A u \in T : s.prio[u] \in Nat
    BY DEF States
  <1>3. s.group = {} => \A u \in T : s.stat[u] # "READY"
    <2> SUFFICES ASSUME s.group = {}, NEW u \in T, s.stat[u] = "READY" PROVE FALSE
      OBVIOUS
    <2>1. In(u, s.table[s.prio[u]]) /\ s.prio[u] \in P
      BY <1>1, <1>2 DEF Lists
    <2>2. s.table[s.prio[u]] # <<>>
      BY <2>1, EmptyHasNone
    <2> QED BY <1>1, <2>1, <2>2 DEF Lists
  <1>4. CASE s.lock_nest # 0 \/ s.group = {}
    <2>1. r = s
      BY <1>4 DEF Schedule
    <2>2. s.stat = [u \in T |->
              IF u = c /\ s.stat[u] = "READY" THEN "RUNNING"
              ELSE IF s.stat[u] = "RUNNING" /\ u # c THEN "READY" ELSE s.stat[u]]
      BY <1>1, <1>2
    <2>3. s.lock_nest = 0 /\ (\E u \in T : s.stat[u] \in {"READY", "RUNNING"}) =>
              s.stat[c] = "RUNNING" /\ \A u \in T : s.stat[u] # "READY"
      BY <1>1, <1>3, <1>4
    <2> HIDE DEF r
    <2> QED BY <2>1, <2>2, <2>3 DEF r
  <1>5. CASE s.lock_nest = 0 /\ s.group # {}
    <2>1. /\ p \in P /\ h \in T /\ s.stat[h] = "READY" /\ s.prio[h] = p
          /\ \A u \in T : s.stat[u] = "READY" => p <= s.prio[u]
      BY <1>5, HighestIsReady
    <2>2. CASE KeepsRunning(s)
      <3>1. r = SetStat(RemoveThread(s, c), c, "RUNNING")
        BY <1>5, <2>2 DEF Schedule
      <3>2. s.stat[c] = "RUNNING" /\ s.prio[c] <= p
        BY <1>2, <2>1, <2>2 DEF KeepsRunning
      <3>3. "RUNNING" \in Stats \ {"READY"}
        BY DEF Stats
      <3> HIDE DEF r, c, p, h
      <3>4. /\ r \in States(T, P) /\ Sound(r, T, P)
            /\ r.stat = [s.stat EXCEPT ![c] = "RUNNING"] /\ r.prio = s.prio
            /\ r.current = c /\ r.yield = s.yield /\ r.lock_nest = s.lock_nest
        BY <1>2, <3>1, <3>3, RemoveSound DEF c
      <3>5. r.stat = s.stat
        BY <1>2, <3>2, <3>4
      <3>6. s.stat = [u \in T |->
              IF u = c /\ s.stat[u] = "READY" THEN "RUNNING"
              ELSE IF s.stat[u] = "RUNNING" /\ u # c THEN "READY" ELSE s.stat[u]]
        BY <1>1, <1>2
      <3>7. \A u \in T : s.stat[u] = "READY" => s.prio[c] <= s.prio[u]
        BY <1>2, <2>1, <3>2
      <3> QED BY <1>5, <3>2, <3>4, <3>5, <3>6, <3>7 DEF r, c
    <2>3. CASE ~KeepsRunning(s)
      <3>1. r = SwitchTo(s, h)
        BY <1>5, <2>3 DEF Schedule
      <3>2. s.stat[c] = "RUNNING" => p <= s.prio[c]
        BY <1>2, <2>1, <2>3 DEF KeepsRunning
      <3> HIDE DEF r, c, p, h
      <3>3. /\ r \in States(T, P) /\ Sound(r, T, P)
            /\ r.current = h /\ r.prio = s.prio /\ r.lock_nest = s.lock_nest
            /\ r.yield \subseteq s.yield
            /\ r.stat = [u \in T |->
                 IF u = h THEN "RUNNING"
                 ELSE IF s.stat[u] = "RUNNING" THEN "READY" ELSE s.stat[u]]
        BY <2>1, <3>1, SwitchSound
      <3>4. r.stat = [u \in T |->
              IF u = h /\ s.stat[u] = "READY" THEN "RUNNING"
              ELSE IF s.stat[u] = "RUNNING" /\ u # h THEN "READY" ELSE s.stat[u]]
        BY <2>1, <3>3
      <3>5. \A u \in T : r.stat[u] = "READY" => s.prio[h] <= s.prio[u]
        BY <1>1, <1>2, <2>1, <3>2, <3>3
      <3>6. r.stat[h] = "RUNNING"
        BY <2>1, <3>3
      <3> QED BY <1>5, <2>1, <3>3, <3>4, <3>5, <3>6 DEF r
    <2> QED BY <2>2, <2>3
  <1> QED BY <1>2, <1>4, <1>5
-----------------------------------------------------------------------------
(* The order of the lists                                                  *)

(* A list that does not change keeps its order.                            *)
LEMMA SameOrder == \A q : NoneOvertaken(q, q)
  BY DEF NoneOvertaken, Before

(* Who joins a list at its end overtakes nobody.                           *)
LEMMA JoinsLast ==
  ASSUME NEW T, NEW q \in Seq(T), NEW t \in T, ~In(t, q)
  PROVE  NoneOvertaken(q, Append(q, t)) /\ (q = <<>> \/ Head(Append(q, t)) = Head(q))
  <1> DEFINE r == Append(q, t)
  <1>1. /\ r \in Seq(T) /\ Len(r) = Len(q) + 1 /\ Len(q) \in Nat
        /\ \A i \in 1 .. Len(q) : r[i] = q[i]
        /\ r[Len(q) + 1] = t
    BY LenProperties
  <1> HIDE DEF r
  <1>2. ASSUME NEW i \in 1 .. Len(r), NEW j \in 1 .. Len(r), i < j, In(r[j], q)
        PROVE  Before(q, r[i], r[j])
    <2>1. j # Len(q) + 1
      BY <1>1, <1>2
    <2>2. i \in 1 .. Len(q) /\ j \in 1 .. Len(q)
      BY <1>1, <1>2, <2>1
    <2>3. r[i] = q[i] /\ r[j] = q[j]
      BY <1>1, <2>2
    <2> QED BY <1>2, <2>2, <2>3 DEF Before
  <1>3. NoneOvertaken(q, r)
    BY <1>2 DEF NoneOvertaken
  <1>4. ASSUME q # <<>> PROVE Head(r) = Head(q)
    <2>1. Len(q) # 0
      BY <1>4, EmptySeq
    <2>2. 1 \in 1 .. Len(q) /\ Head(q) = q[1] /\ Head(r) = r[1]
      BY <1>1, <2>1
    <2> QED BY <1>1, <2>2
  <1> QED BY <1>3, <1>4 DEF r

(* Those that stay when one leaves keep their order.                       *)
LEMMA LeavesOrder ==
  ASSUME NEW T, NEW q \in Seq(T), NEW t \in T
  PROVE  NoneOvertaken(q, Without(q, t))
  <1>1. CASE ~In(t, q)
    <2>1. Without(q, t) = q
      BY <1>1 DEF In, Without
    <2> QED BY <2>1, SameOrder
  <1>2. CASE In(t, q)
    <2> DEFINE k == CHOOSE j \in 1 .. Len(q) : q[j] = t
               r == Without(q, t)
               at(j) == IF j < k THEN j ELSE j + 1
    <2>1. Len(q) \in Nat
      BY LenProperties
    <2>2. k \in 1 .. Len(q)
      BY <1>2 DEF In
    <2>3. r = [j \in 1 .. Len(q) - 1 |-> IF j < k THEN q[j] ELSE q[j + 1]]
      BY <1>2 DEF Without, In
    <2> HIDE DEF k
    <2>4. Len(r) = Len(q) - 1
      <3>1. Len(q) - 1 \in Nat
        BY <2>1, <2>2
      <3> QED BY <2>3, <3>1
    <2>5. \A j \in 1 .. Len(r) : r[j] = q[at(j)] /\ at(j) \in 1 .. Len(q)
      BY <2>1, <2>2, <2>3, <2>4
    <2>6. \A i, j \in 1 .. Len(r) : i < j => at(i) < at(j)
      BY <2>1, <2>2, <2>4
    <2> HIDE DEF r, at
    <2>7. \A i, j \in 1 .. Len(r) : i < j => Before(q, r[i], r[j])
      BY <2>5, <2>6 DEF Before
    <2> QED BY <2>7 DEF NoneOvertaken, r
  <1> QED BY <1>1, <1>2

(* Two changes in a row, when nobody leaves in the first and comes back in *)
(* the second.                                                             *)
LEMMA OrderComposes ==
  ASSUME NEW q, NEW m, NEW r, NoneOvertaken(q, m), NoneOvertaken(m, r),
         \A j \in 1 .. Len(r) : In(r[j], q) => In(r[j], m)
  PROVE  NoneOvertaken(q, r)
  <1> SUFFICES ASSUME NEW i \in 1 .. Len(r), NEW j \in 1 .. Len(r), i < j, In(r[j], q)
               PROVE  Before(q, r[i], r[j])
    BY DEF NoneOvertaken
  <1>1. Before(m, r[i], r[j])
    BY DEF NoneOvertaken
  <1>2. PICK k, l \in 1 .. Len(m) : k < l /\ m[k] = r[i] /\ m[l] = r[j]
    BY <1>1 DEF Before
  <1>3. In(m[l], q)
    BY <1>2
  <1>4. Before(q, m[k], m[l])
    BY <1>2, <1>3 DEF NoneOvertaken
  <1> QED BY <1>2, <1>4

(* A state is stored: the lists and the current thread stay.               *)
LEMMA SetStatTable ==
  ASSUME NEW T, NEW P, NEW s \in States(T, P), NEW t, NEW x
  PROVE  SetStat(s, t, x).table = s.table /\ SetStat(s, t, x).current = s.current
  BY DEF SetStat, States

(* Threads may have joined the lists, at the end; nobody has left one or   *)
(* got the processor.                                                      *)
Grown(s, m, P) ==
  /\ m.current = s.current
  /\ \A p \in P : /\ NoneOvertaken(s.table[p], m.table[p])
                  /\ \A u : In(u, s.table[p]) => In(u, m.table[p])
                  /\ s.table[p] = <<>> \/ Head(m.table[p]) = Head(s.table[p])

(* Nothing has joined when the table is the same.                          *)
LEMMA SameTable ==
  ASSUME NEW s, NEW m, NEW P, m.table = s.table, m.current = s.current
  PROVE  Grown(s, m, P)
  BY SameOrder DEF Grown

(* No thread gets the processor: it is enough to look at the lists.        *)
LEMMA GrownInOrder ==
  ASSUME NEW s, NEW m, NEW P, Grown(s, m, P)
  PROVE  InOrder(s, m, P)
  BY DEF Grown, InOrder

(* rt_schedule_insert_thread changes one list, at its end.                 *)
LEMMA InsertedList ==
  ASSUME NEW T, NEW P, NEW s \in States(T, P), NEW t \in T, t # s.current
  PROVE  /\ \A k \in P : InsertThread(s, t).table[k] =
                         IF k = s.prio[t] THEN Append(s.table[k], t) ELSE s.table[k]
         /\ InsertThread(s, t).current = s.current
  <1> DEFINE p == s.prio[t]
             q == Append(s.table[p], t)
             g == s.group \cup {p}
             l == SetList(s, p, q, g)
             r == InsertThread(s, t)
  <1>1. p \in P /\ s.table[p] \in Seq(T) /\ g \in SUBSET P /\ "READY" \in Stats
    BY DEF States, Stats
  <1>2. q \in Seq(T)
    BY <1>1
  <1>3. r = SetStat(l, t, "READY")
    BY DEF InsertThread
  <1> HIDE DEF p, q, g, l, r
  <1>4. /\ l \in States(T, P) /\ l.table = [s.table EXCEPT ![p] = q]
        /\ l.current = s.current
    BY <1>1, <1>2, SetListFields DEF l
  <1>5. r.table = l.table /\ r.current = l.current
    BY <1>3, <1>4, SetStatTable
  <1>6. s.table \in [P -> Seq(T)]
    BY DEF States
  <1>7. \A k \in P : r.table[k] = IF k = p THEN q ELSE s.table[k]
    BY <1>1, <1>4, <1>5, <1>6
  <1> QED BY <1>4, <1>5, <1>7 DEF p, q, r

(* rt_schedule_insert_thread for a thread that was in no list.             *)
LEMMA InsertGrows ==
  ASSUME NEW T, NEW P, NEW s \in States(T, P), NEW t \in T,
         \A p \in P : ~In(t, s.table[p])
  PROVE  Grown(s, InsertThread(s, t), P)
  <1> DEFINE r == InsertThread(s, t)
             p == s.prio[t]
  <1>1. CASE t = s.current
    <2>1. r = SetStat(s, t, "RUNNING") /\ "RUNNING" \in Stats
      BY <1>1 DEF InsertThread, Stats
    <2>2. r.table = s.table /\ r.current = s.current
      BY <2>1, SetStatTable
    <2> QED BY <2>2, SameTable DEF r
  <1>2. CASE t # s.current
    <2>1. p \in P /\ s.table \in [P -> Seq(T)] /\ s.table[p] \in Seq(T) /\ ~In(t, s.table[p])
      BY DEF States
    <2>2. /\ \A k \in P : r.table[k] = IF k = p THEN Append(s.table[k], t) ELSE s.table[k]
          /\ r.current = s.current
      BY <1>2, InsertedList
    <2> HIDE DEF r, p
    <2>3. /\ NoneOvertaken(s.table[p], r.table[p])
          /\ s.table[p] = <<>> \/ Head(r.table[p]) = Head(s.table[p])
      <3> DEFINE q == s.table[p]
      <3>1. q \in Seq(T) /\ ~In(t, q) /\ r.table[p] = Append(q, t)
        BY <2>1, <2>2
      <3> HIDE DEF q
      <3>2. NoneOvertaken(q, Append(q, t)) /\ (q = <<>> \/ Head(Append(q, t)) = Head(q))
        BY <3>1, JoinsLast
      <3> QED BY <3>1, <3>2 DEF q
    <2>4. \A u : In(u, s.table[p]) => In(u, r.table[p])
      <3> DEFINE q == s.table[p]
                 a == Append(q, t)
      <3>1. /\ Len(a) = Len(q) + 1 /\ Len(q) \in Nat
            /\ \A i \in 1 .. Len(q) : a[i] = q[i]
        BY <2>1, LenProperties
      <3>2. r.table[p] = a
        BY <2>1, <2>2
      <3> HIDE DEF q, a
      <3>3. \A u : In(u, q) => In(u, a)
        BY <3>1 DEF In
      <3> QED BY <3>2, <3>3 DEF q
    <2>5. \A k \in P : k # p => r.table[k] = s.table[k]
      BY <2>1, <2>2
    <2> QED BY <2>2, <2>3, <2>4, <2>5, SameOrder DEF Grown, r
  <1> QED BY <1>1, <1>2

(* rt_schedule_remove_thread changes one list.                             *)
LEMMA RemovedList ==
  ASSUME NEW T, NEW P, NEW s \in States(T, P), Lists(s, T, P), NEW t \in T
  PROVE  \A k \in P : RemoveThread(s, t).table[k] =
                       IF k = s.prio[t] THEN Without(s.table[k], t) ELSE s.table[k]
  <1> DEFINE p == s.prio[t]
             q == Without(s.table[p], t)
             g == IF q = <<>> THEN s.group \ {p} ELSE s.group
             r == RemoveThread(s, t)
  <1>1. p \in P /\ s.table[p] \in Seq(T) /\ Distinct(s.table[p]) /\ g \in SUBSET P
    BY DEF States, Lists
  <1>2. q \in Seq(T)
    BY <1>1, LeavesList
  <1>3. r = SetList(s, p, q, g)
    BY DEF RemoveThread
  <1> HIDE DEF p, q, g, r
  <1>4. r.table = [s.table EXCEPT ![p] = q]
    BY <1>1, <1>2, <1>3, SetListFields
  <1>5. s.table \in [P -> Seq(T)]
    BY DEF States
  <1>6. \A k \in P : r.table[k] = IF k = p THEN q ELSE s.table[k]
    BY <1>1, <1>4, <1>5
  <1> QED BY <1>6 DEF p, q, r

(* It changes none when its thread is not ready.                           *)
LEMMA NotReadyStays ==
  ASSUME NEW T, NEW P, NEW s \in States(T, P), Lists(s, T, P), NEW t \in T,
         s.stat[t] # "READY"
  PROVE  RemoveThread(s, t).table = s.table
  <1> DEFINE p == s.prio[t]
             r == RemoveThread(s, t)
  <1>1. p \in P /\ s.table \in [P -> Seq(T)]
    BY DEF States
  <1>2. Without(s.table[p], t) = s.table[p]
    BY <1>1 DEF Lists, Without, In
  <1>3. \A k \in P : r.table[k] = IF k = p THEN Without(s.table[k], t) ELSE s.table[k]
    BY RemovedList
  <1>4. r.table \in [P -> Seq(T)]
    BY Delist DEF States
  <1> HIDE DEF p, r
  <1>5. \A k \in P : r.table[k] = s.table[k]
    BY <1>2, <1>3
  <1> QED BY <1>1, <1>4, <1>5 DEF r

(* rt_schedule_remove_thread keeps the order of those that stay.           *)
LEMMA RemoveKeepsOrder ==
  ASSUME NEW T, NEW P, NEW s \in States(T, P), Lists(s, T, P), NEW t \in T
  PROVE  \A k \in P : NoneOvertaken(s.table[k], RemoveThread(s, t).table[k])
  <1> DEFINE p == s.prio[t]
             r == RemoveThread(s, t)
  <1>1. p \in P /\ s.table \in [P -> Seq(T)] /\ s.table[p] \in Seq(T)
    BY DEF States
  <1> HIDE DEF r
  <1>2. \A k \in P : r.table[k] = IF k = p THEN Without(s.table[k], t) ELSE s.table[k]
    BY RemovedList DEF r
  <1> HIDE DEF p
  <1>3. NoneOvertaken(s.table[p], r.table[p])
    BY <1>1, <1>2, LeavesOrder
  <1>4. \A k \in P : k # p => r.table[k] = s.table[k]
    BY <1>1, <1>2
  <1> QED BY <1>3, <1>4, SameOrder DEF r

(* The current thread leaves its state; it was in no list.                 *)
LEMMA CurrentLeaves ==
  ASSUME NEW T, NEW P, NEW s \in States(T, P), Sound(s, T, P), NEW x \in Stats
  PROVE  /\ SetStat(RemoveThread(s, s.current), s.current, x).table = s.table
         /\ SetStat(RemoveThread(s, s.current), s.current, x).current = s.current
  <1> DEFINE c == s.current
             d == RemoveThread(s, c)
             r == SetStat(d, c, x)
  <1>1. Lists(s, T, P) /\ s.stat[c] # "READY" /\ c \in T
    BY SoundLists DEF States
  <1> HIDE DEF c, d, r
  <1>2. d \in States(T, P) /\ d.current = s.current
    BY <1>1, Delist DEF d
  <1>3. d.table = s.table
    BY <1>1, NotReadyStays DEF d
  <1>4. r.table = d.table /\ r.current = d.current
    BY <1>2, SetStatTable DEF r
  <1> QED BY <1>2, <1>3, <1>4 DEF c, d, r

(* The processor passes to the first thread of a list: those of its        *)
(* priority keep their order, and the one that gives up the processor goes *)
(* to the end of its list.                                                 *)
LEMMA SwitchKeepsOrder ==
  ASSUME NEW T, NEW P, NEW s \in States(T, P), Sound(s, T, P), NEW t \in T,
         s.stat[t] = "READY"
  PROVE  \A k \in P : NoneOvertaken(s.table[k], SwitchTo(s, t).table[k])
  <1> DEFINE from == s.current
             on   == [s EXCEPT !.current = t]
             tired == [on EXCEPT !.yield = s.yield \ {from}]
             back == IF s.stat[from] = "RUNNING" THEN InsertThread(tired, from) ELSE on
             gone == RemoveThread(back, t)
             r    == SwitchTo(s, t)
  <1>1. Lists(s, T, P) /\ s.stat[from] # "READY"
    BY SoundLists
  <1>2. from \in T /\ from # t /\ s.stat \in [T -> Stats] /\ s.yield \in SUBSET T
        /\ "RUNNING" \in Stats
    BY <1>1 DEF States, Stats
  <1>3. r = SetStat(gone, t, "RUNNING")
    BY DEF SwitchTo
  <1>4. /\ on \in States(T, P) /\ on.current = t /\ on.stat = s.stat /\ on.prio = s.prio
        /\ on.table = s.table /\ on.group = s.group /\ on.yield = s.yield
    BY DEF States
  <1> HIDE DEF on, from
  <1>5. /\ tired \in States(T, P) /\ tired.current = t /\ tired.stat = s.stat
        /\ tired.prio = s.prio /\ tired.table = s.table /\ tired.group = s.group
    BY <1>2, <1>4 DEF States
  <1> HIDE DEF tired, back, gone, r
  <1>6. Lists(on, T, P) /\ Lists(tired, T, P)
    BY <1>1, <1>4, <1>5 DEF Lists
  <1>7. /\ back \in States(T, P) /\ Lists(back, T, P)
        /\ \A k \in P : /\ NoneOvertaken(s.table[k], back.table[k])
                        /\ \A u : In(u, s.table[k]) => In(u, back.table[k])
    <2>1. CASE s.stat[from] = "RUNNING"
      <3>1. back = InsertThread(tired, from)
        BY <2>1 DEF back
      <3>2. ListsBut(tired, from, T, P)
        BY <1>1, <1>2, <1>5, <1>6, NotListed
      <3>3. back \in States(T, P) /\ Lists(back, T, P)
        BY <1>2, <1>5, <3>1, <3>2, Enlist
      <3>4. \A k \in P : ~In(from, tired.table[k])
        BY <3>2 DEF ListsBut
      <3>5. Grown(tired, back, P)
        BY <1>2, <1>5, <3>1, <3>4, InsertGrows
      <3> QED BY <1>5, <3>3, <3>5 DEF Grown
    <2>2. CASE s.stat[from] # "RUNNING"
      <3>1. back = on
        BY <2>2 DEF back
      <3> QED BY <1>4, <1>6, <3>1, SameOrder
    <2> QED BY <2>1, <2>2
  <1>8. gone \in States(T, P) /\ \A k \in P : NoneOvertaken(back.table[k], gone.table[k])
    BY <1>7, Delist, RemoveKeepsOrder DEF gone
  <1>9. r.table = gone.table
    BY <1>3, <1>8, SetStatTable
  <1>10. ASSUME NEW k \in P PROVE NoneOvertaken(s.table[k], r.table[k])
    <2>1. NoneOvertaken(s.table[k], back.table[k]) /\ NoneOvertaken(back.table[k], r.table[k])
      BY <1>7, <1>8, <1>9
    <2>2. \A u : In(u, s.table[k]) => In(u, back.table[k])
      BY <1>7
    <2> QED BY <2>1, <2>2, OrderComposes
  <1> QED BY <1>10 DEF r

(* rt_schedule keeps the order of every list, and passes the processor to  *)
(* the first of one.                                                       *)
LEMMA ScheduleKeepsOrder ==
  ASSUME NEW T, NEW P \in SUBSET Nat, NEW s \in States(T, P), Sound(s, T, P)
  PROVE  /\ \A k \in P : NoneOvertaken(s.table[k], Schedule(s).table[k])
         /\ Schedule(s).current # s.current =>
              /\ s.prio[Schedule(s).current] \in P
              /\ Schedule(s).current = Head(s.table[s.prio[Schedule(s).current]])
  <1> DEFINE r == Schedule(s)
             c == s.current
             p == HighestReady(s)
             h == Head(s.table[p])
  <1>1. CASE s.lock_nest # 0 \/ s.group = {}
    <2>1. r = s
      BY <1>1 DEF Schedule
    <2> QED BY <2>1, SameOrder
  <1>2. CASE s.lock_nest = 0 /\ s.group # {} /\ KeepsRunning(s)
    <2>1. r = SetStat(RemoveThread(s, c), c, "RUNNING") /\ "RUNNING" \in Stats
      BY <1>2 DEF Schedule, Stats
    <2>2. r.table = s.table /\ r.current = c
      BY <2>1, CurrentLeaves
    <2> QED BY <2>2, SameOrder
  <1>3. CASE s.lock_nest = 0 /\ s.group # {} /\ ~KeepsRunning(s)
    <2>1. p \in P /\ h \in T /\ s.stat[h] = "READY" /\ s.prio[h] = p
      BY <1>3, HighestIsReady
    <2>2. r = SwitchTo(s, h)
      BY <1>3 DEF Schedule
    <2> HIDE DEF r, p, h
    <2>3. /\ r.current = h
          /\ r.stat = [u \in T |-> IF u = h THEN "RUNNING"
                                  ELSE IF s.stat[u] = "RUNNING" THEN "READY" ELSE s.stat[u]]
      BY <2>1, <2>2, SwitchSound
    <2>4. \A k \in P : NoneOvertaken(s.table[k], r.table[k])
      BY <2>1, <2>2, SwitchKeepsOrder
    <2> QED BY <2>1, <2>3, <2>4 DEF r, h
  <1>4. s.lock_nest \in Nat
    BY DEF States
  <1> QED BY <1>1, <1>2, <1>3

(* rt_schedule after threads have joined the lists.                        *)
LEMMA ScheduleInOrder ==
  ASSUME NEW T, NEW P \in SUBSET Nat, NEW s, NEW m \in States(T, P), Sound(m, T, P),
         Grown(s, m, P)
  PROVE  InOrder(s, Schedule(m), P)
  <1> DEFINE r == Schedule(m)
  <1>1. /\ \A k \in P : NoneOvertaken(m.table[k], r.table[k])
        /\ r.current # m.current =>
             m.prio[r.current] \in P /\ r.current = Head(m.table[m.prio[r.current]])
    BY ScheduleKeepsOrder
  <1> HIDE DEF r
  <1>2. /\ r.prio = m.prio
        /\ r.stat = [u \in T |->
             IF u = r.current /\ m.stat[u] = "READY" THEN "RUNNING"
             ELSE IF m.stat[u] = "RUNNING" /\ u # r.current THEN "READY"
             ELSE m.stat[u]]
    BY ScheduleSound DEF r
  <1>3. ASSUME NEW k \in P PROVE NoneOvertaken(s.table[k], r.table[k])
    <2>1. /\ NoneOvertaken(s.table[k], m.table[k]) /\ NoneOvertaken(m.table[k], r.table[k])
          /\ \A u : In(u, s.table[k]) => In(u, m.table[k])
      BY <1>1 DEF Grown
    <2> QED BY <2>1, OrderComposes
  <1>4. ASSUME r.current # s.current
        PROVE  \/ s.table[r.prio[r.current]] = <<>>
               \/ r.current = Head(s.table[r.prio[r.current]])
    BY <1>1, <1>2, <1>4 DEF Grown
  <1> QED BY <1>3, <1>4 DEF InOrder, r

(* rt_thread_control with another priority: a ready thread goes to the end *)
(* of its new list.                                                        *)
LEMMA ChangePriorityOrder ==
  ASSUME NEW T, NEW P, NEW s \in States(T, P), Sound(s, T, P), NEW t \in T, NEW p \in P,
         p # s.prio[t]
  PROVE  /\ \A k \in P : NoneOvertaken(s.table[k], ChangePriority(s, t, p).table[k])
         /\ s.stat[t] # "READY" => ChangePriority(s, t, p).table = s.table
  <1> DEFINE r == ChangePriority(s, t, p)
  <1>1. Lists(s, T, P) /\ s.stat[s.current] # "READY"
    BY SoundLists
  <1>2. CASE s.stat[t] # "READY"
    <2>1. r = SetPriority(s, t, p)
      BY <1>2 DEF ChangePriority
    <2> HIDE DEF r
    <2>2. r.table = s.table
      BY <2>1, SetPriorityFields DEF SetPriority, States
    <2> QED BY <2>2, SameOrder DEF r
  <1>3. CASE s.stat[t] = "READY"
    <2> DEFINE d == RemoveThread(s, t)
               e == SetPriority(d, t, p)
               old == s.prio[t]
    <2>1. r = InsertThread(e, t)
      BY <1>3 DEF ChangePriority
    <2> HIDE DEF r, d, e
    <2>2. /\ d \in States(T, P) /\ ListsBut(d, t, T, P) /\ d.current = s.current
          /\ d.prio = s.prio
      BY <1>1, Delist DEF d
    <2>3. /\ e \in States(T, P) /\ e.table = d.table /\ e.current = d.current
          /\ e.prio = [s.prio EXCEPT ![t] = p]
      BY <2>2, SetPriorityFields DEF e
    <2>4. e.prio[t] = p /\ old \in P
      BY <2>3 DEF States
    <2>5. \A k \in P : ~In(t, e.table[k])
      BY <2>2, <2>3 DEF ListsBut
    <2>6. Grown(e, r, P)
      BY <2>1, <2>3, <2>5, InsertGrows
    <2>7. \A k \in P : NoneOvertaken(s.table[k], e.table[k])
      BY <1>1, <2>3, RemoveKeepsOrder DEF d
    <2>8. t # e.current
      BY <1>1, <1>3, <2>2, <2>3
    <2>9. \A k \in P : r.table[k] = IF k = p THEN Append(e.table[k], t) ELSE e.table[k]
      BY <2>1, <2>3, <2>4, <2>8, InsertedList
    <2>10. \A k \in P : d.table[k] = IF k = old THEN Without(s.table[k], t) ELSE s.table[k]
      BY <1>1, RemovedList DEF d
    <2>11. ASSUME NEW k \in P PROVE NoneOvertaken(s.table[k], r.table[k])
      <3>1. CASE k = p
        <4>1. e.table[k] = s.table[k]
          BY <2>3, <2>4, <2>10, <3>1
        <4> QED BY <2>6, <4>1 DEF Grown
      <3>2. CASE k # p
        <4>1. r.table[k] = e.table[k]
          BY <2>9, <3>2
        <4> QED BY <2>7, <4>1
      <3> QED BY <3>1, <3>2
    <2> QED BY <1>3, <2>11 DEF r
  <1> QED BY <1>2, <1>3
=============================================================================
