--------------------------- MODULE MsgQueueProofs ---------------------------
(***************************************************************************)
(* Proofs about the kernel message queue, for any number of threads, cells *)
(* and messages.  Inv is inductive: Waiting relates the states of threads, *)
(* wait lists and stored messages, Whole says that the two lists are whole *)
(* and every cell is in one place, Local bounds what a thread remembers of *)
(* its call.  Whole makes the lists safe against all that happens while a  *)
(* message is copied.                                                      *)
(***************************************************************************)
EXTENDS MsgQueue, SequenceTheorems, FiniteSetTheorems, TLAPS

USE MsgQueueAssumption, CallsAssumption

Pointers == [Cells -> Cells \cup {NULL}]

-----------------------------------------------------------------------------
(* Lists of cells                                                          *)

(* A list without cells has no first and no last one.                      *)
LEMMA EmptyList ==
  ASSUME NEW s \in Seq(Cells)
  PROVE  /\ FirstOf(s) \in Cells \cup {NULL} /\ LastOf(s) \in Cells \cup {NULL}
         /\ FirstOf(s) = NULL <=> s = <<>>
         /\ LastOf(s) = NULL <=> s = <<>>
         /\ s # <<>> <=> Len(s) > 0
         /\ s # <<>> => FirstOf(s) = s[1] /\ LastOf(s) = s[Len(s)] /\ 1 \in 1 .. Len(s)
                         /\ Len(s) \in 1 .. Len(s)
  <1>1. s # <<>> => Len(s) \in Nat \ {0}
    BY EmptySeq
  <1>2. \A i \in 1 .. Len(s) : s[i] \in Cells
    BY ElementOfSeq
  <1>3. s = <<>> => Len(s) = 0
    BY EmptySeq
  <1> QED BY <1>1, <1>2, <1>3 DEF FirstOf, LastOf

(* Pointers that agree on a list link it alike.                            *)
LEMMA LinkedFrame ==
  ASSUME NEW s \in Seq(Cells), NEW nx, NEW ny, Linked(nx, s),
         \A c \in Cells : In(c, s) => ny[c] = nx[c]
  PROVE  Linked(ny, s)
  <1>1. ASSUME NEW i \in 1 .. Len(s) PROVE s[i] \in Cells /\ In(s[i], s)
    BY ElementOfSeq DEF In
  <1> QED BY <1>1 DEF Linked

(* Unlinking the first cell, as rt_mq_recv does.                           *)
LEMMA TailList ==
  ASSUME NEW s \in Seq(Cells), NEW nx, Linked(nx, s), Distinct(s), s # <<>>
  PROVE  /\ Tail(s) \in Seq(Cells) /\ Len(Tail(s)) = Len(s) - 1
         /\ Linked(nx, Tail(s)) /\ Distinct(Tail(s))
         /\ FirstOf(Tail(s)) = nx[FirstOf(s)]
         /\ LastOf(Tail(s)) = IF LastOf(s) = FirstOf(s) THEN NULL ELSE LastOf(s)
         /\ \A c \in Cells : In(c, Tail(s)) <=> In(c, s) /\ c # FirstOf(s)
  <1> DEFINE r == Tail(s)
  <1>1. /\ r \in Seq(Cells) /\ Len(r) = Len(s) - 1
        /\ \A i \in 1 .. Len(r) : r[i] = s[i + 1]
    BY HeadTailProperties
  <1>2. Len(s) \in Nat /\ Len(s) > 0 /\ FirstOf(s) = s[1] /\ LastOf(s) = s[Len(s)]
    BY EmptyList, LenProperties
  <1> HIDE DEF r
  <1>3. r = <<>> <=> Len(s) = 1
    <2>1. r # <<>> <=> Len(r) > 0
      BY <1>1, EmptyList
    <2> QED BY <1>1, <1>2, <2>1
  <1>4. Linked(nx, r)
    BY <1>1, <1>2 DEF Linked
  <1>5. Distinct(r)
    BY <1>1, <1>2 DEF Distinct
  <1>6. FirstOf(r) = nx[FirstOf(s)]
    BY <1>1, <1>2, <1>3 DEF FirstOf, Linked
  <1>7. LastOf(r) = IF LastOf(s) = FirstOf(s) THEN NULL ELSE LastOf(s)
    BY <1>1, <1>2, <1>3 DEF LastOf, Distinct
  <1>8. ASSUME NEW c \in Cells PROVE In(c, r) <=> In(c, s) /\ c # FirstOf(s)
    <2>1. ASSUME In(c, r) PROVE In(c, s) /\ c # FirstOf(s)
      BY <1>1, <1>2, <2>1 DEF In, Distinct
    <2>2. ASSUME In(c, s), c # FirstOf(s) PROVE In(c, r)
      <3>1. PICK i \in 1 .. Len(s) : s[i] = c
        BY <2>2 DEF In
      <3>2. i - 1 \in 1 .. Len(r) /\ r[i - 1] = c
        BY <1>1, <1>2, <2>2, <3>1
      <3> QED BY <3>2 DEF In
    <2> QED BY <2>1, <2>2
  <1> QED BY <1>1, <1>4, <1>5, <1>6, <1>7, <1>8 DEF r

(* A cell before the first one, as rt_mq_urgent and the free list have it. *)
LEMMA PushList ==
  ASSUME NEW s \in Seq(Cells), NEW nx, Linked(nx, s), Distinct(s),
         NEW c \in Cells, ~In(c, s), nx[c] = FirstOf(s)
  PROVE  /\ <<c>> \o s \in Seq(Cells) /\ Len(<<c>> \o s) = Len(s) + 1
         /\ Linked(nx, <<c>> \o s) /\ Distinct(<<c>> \o s)
         /\ FirstOf(<<c>> \o s) = c
         /\ LastOf(<<c>> \o s) = IF s = <<>> THEN c ELSE LastOf(s)
         /\ \A d \in Cells : In(d, <<c>> \o s) <=> In(d, s) \/ d = c
  <1> DEFINE r == <<c>> \o s
  <1>1. <<c>> \in Seq(Cells) /\ Len(<<c>>) = 1 /\ <<c>>[1] = c
    OBVIOUS
  <1>2. /\ r \in Seq(Cells) /\ Len(r) = Len(s) + 1 /\ Len(s) \in Nat
        /\ \A i \in 1 .. Len(s) + 1 : r[i] = IF i <= 1 THEN c ELSE s[i - 1]
    <2>1. /\ r \in Seq(Cells) /\ Len(r) = Len(<<c>>) + Len(s)
          /\ \A i \in 1 .. Len(<<c>>) + Len(s) :
               r[i] = IF i <= Len(<<c>>) THEN <<c>>[i] ELSE s[i - Len(<<c>>)]
      BY <1>1, ConcatProperties
    <2>2. Len(s) \in Nat
      BY LenProperties
    <2> QED BY <1>1, <2>1, <2>2
  <1>3. r # <<>>
    BY <1>2, EmptyList
  <1>4. /\ s = <<>> <=> Len(s) = 0
        /\ s # <<>> => FirstOf(s) = s[1] /\ LastOf(s) = s[Len(s)]
        /\ s = <<>> => FirstOf(s) = NULL
    BY <1>2, EmptyList
  <1> HIDE DEF r
  <1>5. \A i \in 1 .. Len(s) : s[i] # c /\ s[i] \in Cells
    BY ElementOfSeq DEF In
  <1>6. Linked(nx, r)
    <2> SUFFICES ASSUME NEW i \in 1 .. Len(r)
                 PROVE  nx[r[i]] = IF i = Len(r) THEN NULL ELSE r[i + 1]
      BY DEF Linked
    <2>1. CASE i = 1
      BY <1>2, <1>4, <2>1
    <2>2. CASE i > 1
      <3>1. i - 1 \in 1 .. Len(s) /\ r[i] = s[i - 1]
        BY <1>2, <2>2
      <3>2. nx[s[i - 1]] = IF i - 1 = Len(s) THEN NULL ELSE s[(i - 1) + 1]
        BY <3>1 DEF Linked
      <3> QED BY <1>2, <2>2, <3>1, <3>2
    <2> QED BY <1>2, <2>1, <2>2
  <1>7. Distinct(r)
    BY <1>2, <1>5 DEF Distinct
  <1>8. FirstOf(r) = c
    BY <1>2, <1>3 DEF FirstOf
  <1>9. LastOf(r) = IF s = <<>> THEN c ELSE LastOf(s)
    BY <1>2, <1>3, <1>4 DEF LastOf
  <1>10. ASSUME NEW d \in Cells PROVE In(d, r) <=> In(d, s) \/ d = c
    <2>1. ASSUME In(d, r) PROVE In(d, s) \/ d = c
      BY <1>2, <2>1 DEF In
    <2>2. ASSUME In(d, s) PROVE In(d, r)
      <3>1. PICK i \in 1 .. Len(s) : s[i] = d
        BY <2>2 DEF In
      <3>2. i + 1 \in 1 .. Len(r) /\ r[i + 1] = d
        BY <1>2, <3>1
      <3> QED BY <3>2 DEF In
    <2>3. In(c, r)
      <3>1. 1 \in 1 .. Len(r) /\ r[1] = c
        BY <1>2
      <3> QED BY <3>1 DEF In
    <2> QED BY <2>1, <2>2, <2>3
  <1> QED BY <1>2, <1>6, <1>7, <1>8, <1>9, <1>10 DEF r

(* A cell behind the last one, as rt_mq_send links it.                     *)
LEMMA AppendList ==
  ASSUME NEW s \in Seq(Cells), NEW nx, Linked(nx, s), Distinct(s),
         NEW c \in Cells, ~In(c, s), nx \in Pointers, nx[c] = NULL,
         NEW ny, ny = IF LastOf(s) # NULL THEN [nx EXCEPT ![LastOf(s)] = c] ELSE nx
  PROVE  /\ Append(s, c) \in Seq(Cells) /\ Len(Append(s, c)) = Len(s) + 1
         /\ Linked(ny, Append(s, c)) /\ Distinct(Append(s, c))
         /\ FirstOf(Append(s, c)) = IF FirstOf(s) = NULL THEN c ELSE FirstOf(s)
         /\ LastOf(Append(s, c)) = c
         /\ ny \in Pointers
         /\ \A d \in Cells : In(d, Append(s, c)) <=> In(d, s) \/ d = c
         /\ \A d \in Cells : ~In(d, s) => ny[d] = nx[d]
  <1> DEFINE r == Append(s, c)
  <1>1. /\ r \in Seq(Cells) /\ Len(r) = Len(s) + 1 /\ Len(s) \in Nat
        /\ \A i \in 1 .. Len(s) : r[i] = s[i]
        /\ r[Len(s) + 1] = c
    BY LenProperties
  <1>2. r # <<>>
    BY <1>1, EmptyList
  <1>3. /\ s = <<>> <=> Len(s) = 0
        /\ s # <<>> => FirstOf(s) = s[1] /\ LastOf(s) = s[Len(s)] /\ FirstOf(s) # NULL
                        /\ LastOf(s) # NULL /\ LastOf(s) \in Cells
        /\ s = <<>> => FirstOf(s) = NULL /\ LastOf(s) = NULL
    BY <1>1, EmptyList
  <1> HIDE DEF r
  <1>4. \A i \in 1 .. Len(s) : s[i] # c /\ s[i] \in Cells
    BY ElementOfSeq DEF In
  <1>5. ny \in Pointers /\ ny[c] = NULL
    <2>1. CASE s = <<>>
      BY <1>3, <2>1
    <2>2. CASE s # <<>>
      BY <1>1, <1>3, <1>4, <2>2 DEF Pointers
    <2> QED BY <2>1, <2>2
  <1>6. ASSUME NEW i \in 1 .. Len(s)
        PROVE  ny[s[i]] = IF i = Len(s) THEN c ELSE s[i + 1]
    <2>1. LastOf(s) = s[Len(s)] /\ LastOf(s) # NULL /\ LastOf(s) \in Cells /\ s[i] \in Cells
      BY <1>1, <1>3, <1>4
    <2>2. nx[s[i]] = IF i = Len(s) THEN NULL ELSE s[i + 1]
      BY DEF Linked
    <2>3. CASE i = Len(s)
      BY <2>1, <2>3 DEF Pointers
    <2>4. CASE i # Len(s)
      <3>1. s[i] # s[Len(s)]
        BY <1>1, <2>4 DEF Distinct
      <3> QED BY <2>1, <2>2, <2>4, <3>1 DEF Pointers
    <2> QED BY <2>3, <2>4
  <1>7. Linked(ny, r)
    <2> SUFFICES ASSUME NEW i \in 1 .. Len(r)
                 PROVE  ny[r[i]] = IF i = Len(r) THEN NULL ELSE r[i + 1]
      BY DEF Linked
    <2>1. CASE i = Len(s) + 1
      BY <1>1, <1>5, <2>1
    <2>2. CASE i \in 1 .. Len(s)
      BY <1>1, <1>6, <2>2
    <2> QED BY <1>1, <2>1, <2>2
  <1>8. Distinct(r)
    BY <1>1, <1>4 DEF Distinct
  <1>9. FirstOf(r) = IF FirstOf(s) = NULL THEN c ELSE FirstOf(s)
    BY <1>1, <1>2, <1>3 DEF FirstOf
  <1>10. LastOf(r) = c
    BY <1>1, <1>2 DEF LastOf
  <1>11. ASSUME NEW d \in Cells PROVE In(d, r) <=> In(d, s) \/ d = c
    <2>1. ASSUME In(d, r) PROVE In(d, s) \/ d = c
      BY <1>1, <2>1 DEF In
    <2>2. ASSUME In(d, s) PROVE In(d, r)
      BY <1>1, <2>2 DEF In
    <2>3. In(c, r)
      BY <1>1 DEF In
    <2> QED BY <2>1, <2>2, <2>3
  <1>12. ASSUME NEW d \in Cells, ~In(d, s) PROVE ny[d] = nx[d]
    <2>1. CASE s = <<>>
      BY <1>3, <2>1
    <2>2. CASE s # <<>>
      <3>1. d # LastOf(s)
        BY <1>1, <1>3, <1>12, <2>2 DEF In
      <3> QED BY <1>3, <2>2, <3>1 DEF Pointers
    <2> QED BY <2>1, <2>2
  <1> QED BY <1>1, <1>5, <1>7, <1>8, <1>9, <1>10, <1>11, <1>12 DEF r

-----------------------------------------------------------------------------
(* Lists of waiting threads                                                *)

(* rt_ipc_list_suspend puts a thread at the end.                           *)
LEMMA WaitAppend ==
  ASSUME NEW s \in Seq(Threads), NEW t \in Threads, Distinct(s), ~In(t, s)
  PROVE  /\ Append(s, t) \in Seq(Threads) /\ Distinct(Append(s, t))
         /\ Append(s, t) # <<>>
         /\ \A u \in Threads : In(u, Append(s, t)) <=> In(u, s) \/ u = t
  <1> DEFINE r == Append(s, t)
  <1>1. /\ r \in Seq(Threads) /\ Len(r) = Len(s) + 1 /\ Len(s) \in Nat
        /\ \A i \in 1 .. Len(s) : r[i] = s[i]
        /\ r[Len(s) + 1] = t
    BY LenProperties
  <1> HIDE DEF r
  <1>2. Distinct(r)
    BY <1>1 DEF Distinct, In
  <1>3. \A u \in Threads : In(u, r) <=> In(u, s) \/ u = t
    <2>1. ASSUME NEW u \in Threads, In(u, r) PROVE In(u, s) \/ u = t
      BY <1>1, <2>1 DEF In
    <2>2. ASSUME NEW u \in Threads, In(u, s) PROVE In(u, r)
      BY <1>1, <2>2 DEF In
    <2>3. In(t, r)
      BY <1>1 DEF In
    <2> QED BY <2>1, <2>2, <2>3
  <1>4. r # <<>>
    <2>1. Len(r) # 0
      BY <1>1
    <2> QED BY <2>1, EmptySeq
  <1> QED BY <1>1, <1>2, <1>3, <1>4 DEF r

(* rt_ipc_list_resume takes the first one.                                 *)
LEMMA WaitTail ==
  ASSUME NEW s \in Seq(Threads), Distinct(s), s # <<>>
  PROVE  /\ Tail(s) \in Seq(Threads) /\ Distinct(Tail(s))
         /\ Head(s) \in Threads /\ In(Head(s), s)
         /\ \A u \in Threads : In(u, Tail(s)) <=> In(u, s) /\ u # Head(s)
  <1> DEFINE r == Tail(s)
  <1>1. /\ r \in Seq(Threads) /\ Len(r) = Len(s) - 1 /\ Head(s) \in Threads
        /\ \A i \in 1 .. Len(r) : r[i] = s[i + 1]
    BY HeadTailProperties
  <1>2. Len(s) \in Nat \ {0} /\ Head(s) = s[1]
    BY EmptySeq
  <1> HIDE DEF r
  <1>3. Distinct(r)
    BY <1>1, <1>2 DEF Distinct
  <1>4. ASSUME NEW u \in Threads PROVE In(u, r) <=> In(u, s) /\ u # Head(s)
    <2>1. ASSUME In(u, r) PROVE In(u, s) /\ u # Head(s)
      BY <1>1, <1>2, <2>1 DEF In, Distinct
    <2>2. ASSUME In(u, s), u # Head(s) PROVE In(u, r)
      <3>1. PICK i \in 1 .. Len(s) : s[i] = u
        BY <2>2 DEF In
      <3>2. i - 1 \in 1 .. Len(r) /\ r[i - 1] = u
        BY <1>1, <1>2, <2>2, <3>1
      <3> QED BY <3>2 DEF In
    <2> QED BY <2>1, <2>2
  <1>5. In(Head(s), s)
    BY <1>2 DEF In
  <1> QED BY <1>1, <1>3, <1>4, <1>5 DEF r

(* A thread whose time is over leaves the list, the others keep their      *)
(* order.                                                                  *)
LEMMA WaitRemove ==
  ASSUME NEW s \in Seq(Threads), NEW t \in Threads, Distinct(s), In(t, s)
  PROVE  /\ Without(s, t) \in Seq(Threads) /\ Distinct(Without(s, t))
         /\ Without(s, t) # <<>> => s # <<>>
         /\ \A u \in Threads : In(u, Without(s, t)) <=> In(u, s) /\ u # t
  <1> DEFINE i == CHOOSE j \in DOMAIN s : s[j] = t
             r == Without(s, t)
  <1>1. Len(s) \in Nat /\ DOMAIN s = 1 .. Len(s) /\ \A j \in 1 .. Len(s) : s[j] \in Threads
    BY LenProperties
  <1>2. i \in 1 .. Len(s) /\ s[i] = t
    BY <1>1 DEF In
  <1>3. r = [j \in 1 .. Len(s) - 1 |-> IF j < i THEN s[j] ELSE s[j + 1]]
    BY DEF Without
  <1> HIDE DEF i
  <1>4. r \in Seq(Threads) /\ Len(r) = Len(s) - 1
    <2>1. Len(s) - 1 \in Nat
      BY <1>1, <1>2
    <2>2. r \in [1 .. Len(s) - 1 -> Threads]
      BY <1>1, <1>2, <1>3
    <2> QED BY <2>1, <2>2
  <1>5. \A j \in 1 .. Len(r) : r[j] = IF j < i THEN s[j] ELSE s[j + 1]
    BY <1>3, <1>4
  <1> HIDE DEF r
  <1>6. Distinct(r)
    BY <1>1, <1>2, <1>4, <1>5 DEF Distinct
  <1>7. ASSUME NEW u \in Threads PROVE In(u, r) <=> In(u, s) /\ u # t
    <2>1. ASSUME In(u, r) PROVE In(u, s) /\ u # t
      <3>1. PICK j \in 1 .. Len(r) : r[j] = u
        BY <2>1 DEF In
      <3>2. PICK k \in 1 .. Len(s) : s[k] = u /\ k # i
        BY <1>1, <1>2, <1>4, <1>5, <3>1
      <3> QED BY <1>2, <3>2 DEF In, Distinct
    <2>2. ASSUME In(u, s), u # t PROVE In(u, r)
      <3>1. PICK k \in 1 .. Len(s) : s[k] = u /\ k # i
        BY <1>2, <2>2 DEF In
      <3>2. CASE k < i
        <4>1. k \in 1 .. Len(r) /\ r[k] = u
          BY <1>1, <1>2, <1>4, <1>5, <3>1, <3>2
        <4> QED BY <4>1 DEF In
      <3>3. CASE k > i
        <4>1. k - 1 \in 1 .. Len(r) /\ r[k - 1] = u
          BY <1>1, <1>2, <1>4, <1>5, <3>1, <3>3
        <4> QED BY <4>1 DEF In
      <3> QED BY <1>2, <3>1, <3>2, <3>3
    <2> QED BY <2>1, <2>2
  <1>8. s # <<>>
    <2>1. Len(s) # 0
      BY <1>1, <1>2
    <2> QED BY <2>1, EmptySeq
  <1> QED BY <1>4, <1>6, <1>7, <1>8 DEF r

-----------------------------------------------------------------------------
(* Waiting: a thread is on a list of waiting threads exactly while it      *)
(* sleeps, and nobody sleeps during a reset.                               *)
Waiting ==
  /\ pc \in [Threads -> Stages]
  /\ suspend_thread \in Seq(Threads) /\ Distinct(suspend_thread)
  /\ suspend_sender_thread \in Seq(Threads) /\ Distinct(suspend_sender_thread)
  /\ \A t \in Threads : pc[t] = "recv_wait" <=> In(t, suspend_thread)
  /\ \A t \in Threads : pc[t] = "send_wait" <=> In(t, suspend_sender_thread)
  /\ resetting => suspend_thread = <<>> /\ suspend_sender_thread = <<>>

(* Nobody is on an empty list.                                             *)
LEMMA NobodyWaits == \A t : ~In(t, <<>>)
  BY EmptySeq DEF In

(* Steps that put nobody to sleep and resume nobody.                       *)
LEMMA WaitingFrame ==
  ASSUME Waiting, UNCHANGED wait, resetting' => resetting,
         pc' \in [Threads -> Stages],
         \A t \in Threads : /\ pc'[t] = "recv_wait" <=> pc[t] = "recv_wait"
                            /\ pc'[t] = "send_wait" <=> pc[t] = "send_wait"
  PROVE  Waiting'
  BY DEF Waiting, wait, In, Distinct

(* Resuming the first receiver.                                            *)
LEMMA ReceiverResumed ==
  ASSUME Waiting, NEW base \in [Threads -> Stages], ~resetting',
         \A t \in Threads : /\ base[t] = "recv_wait" <=> pc[t] = "recv_wait"
                            /\ base[t] = "send_wait" <=> pc[t] = "send_wait",
         ResumeReceiver(base), UNCHANGED suspend_sender_thread
  PROVE  Waiting'
  <1>1. CASE suspend_thread = <<>>
    <2>1. pc' = base
      BY <1>1 DEF ResumeReceiver, FirstWaiting
    <2>2. suspend_thread' = suspend_thread
      BY <1>1 DEF ResumeReceiver, FirstWaiting
    <2> QED BY <2>1, <2>2, WaitingFrame DEF wait
  <1>2. CASE suspend_thread # <<>>
    <2> DEFINE h == Head(suspend_thread)
    <2>1. /\ pc' = [t \in Threads |-> IF t = h THEN "recv_resumed" ELSE base[t]]
          /\ suspend_thread' = Tail(suspend_thread)
      BY <1>2 DEF ResumeReceiver, FirstWaiting
    <2>2. /\ Tail(suspend_thread) \in Seq(Threads) /\ Distinct(Tail(suspend_thread))
          /\ h \in Threads /\ In(h, suspend_thread)
          /\ \A u \in Threads : In(u, Tail(suspend_thread)) <=> In(u, suspend_thread) /\ u # h
      BY <1>2, WaitTail DEF Waiting
    <2>3. pc[h] = "recv_wait"
      BY <2>2 DEF Waiting
    <2> HIDE DEF h
    <2>4. pc' \in [Threads -> Stages]
      BY <2>1 DEF Stages
    <2>5. \A u \in Threads : pc'[u] = "recv_wait" <=> In(u, suspend_thread')
      BY <2>1, <2>2, <2>3 DEF Waiting
    <2>6. \A u \in Threads : pc'[u] = "send_wait" <=> In(u, suspend_sender_thread)
      BY <2>1, <2>2, <2>3 DEF Waiting
    <2> QED BY <2>1, <2>2, <2>4, <2>5, <2>6 DEF Waiting
  <1> QED BY <1>1, <1>2

(* Resuming the first sender.                                              *)
LEMMA SenderResumed ==
  ASSUME Waiting, NEW base \in [Threads -> Stages], ~resetting',
         \A t \in Threads : /\ base[t] = "recv_wait" <=> pc[t] = "recv_wait"
                            /\ base[t] = "send_wait" <=> pc[t] = "send_wait",
         ResumeSender(base), UNCHANGED suspend_thread
  PROVE  Waiting'
  <1>1. CASE suspend_sender_thread = <<>>
    <2>1. pc' = base
      BY <1>1 DEF ResumeSender, FirstWaiting
    <2>2. suspend_sender_thread' = suspend_sender_thread
      BY <1>1 DEF ResumeSender, FirstWaiting
    <2> QED BY <2>1, <2>2, WaitingFrame DEF wait
  <1>2. CASE suspend_sender_thread # <<>>
    <2> DEFINE h == Head(suspend_sender_thread)
    <2>1. /\ pc' = [t \in Threads |-> IF t = h THEN "send_resumed" ELSE base[t]]
          /\ suspend_sender_thread' = Tail(suspend_sender_thread)
      BY <1>2 DEF ResumeSender, FirstWaiting
    <2>2. /\ Tail(suspend_sender_thread) \in Seq(Threads)
          /\ Distinct(Tail(suspend_sender_thread))
          /\ h \in Threads /\ In(h, suspend_sender_thread)
          /\ \A u \in Threads :
               In(u, Tail(suspend_sender_thread)) <=> In(u, suspend_sender_thread) /\ u # h
      BY <1>2, WaitTail DEF Waiting
    <2>3. pc[h] = "send_wait"
      BY <2>2 DEF Waiting
    <2> HIDE DEF h
    <2>4. pc' \in [Threads -> Stages]
      BY <2>1 DEF Stages
    <2>5. \A u \in Threads : pc'[u] = "recv_wait" <=> In(u, suspend_thread)
      BY <2>1, <2>2, <2>3 DEF Waiting
    <2>6. \A u \in Threads : pc'[u] = "send_wait" <=> In(u, suspend_sender_thread')
      BY <2>1, <2>2, <2>3 DEF Waiting
    <2> QED BY <2>1, <2>2, <2>4, <2>5, <2>6 DEF Waiting
  <1> QED BY <1>1, <1>2

(* The lists and the stages agree in every step.                           *)
LEMMA WaitingStep == Waiting /\ [Next]_vars => Waiting'
  <1> SUFFICES ASSUME Waiting, [Next]_vars PROVE Waiting'
    OBVIOUS
  <1>1. ASSUME NEW t \in Threads,
               \/ TakeCell(t) /\ pc[t] \in {"send", "send_resumed"}
               \/ \E to : SendFull(t, to) /\ pc[t] \in {"send", "send_resumed"}
               \/ SendError(t) \/ SendCopy(t)
               \/ Unlink(t) /\ pc[t] \in {"recv", "recv_resumed"}
               \/ \E to : RecvEmpty(t, to) /\ pc[t] \in {"recv", "recv_resumed"}
               \/ RecvError(t) \/ RecvCopy(t)
               \/ \E m, to, u : CallSend(t, m, to, u)
               \/ \E to : CallRecv(t, to)
        PROVE  Waiting'
    <2>1. PICK st \in Stages \ {"recv_wait", "send_wait"} : pc' = [pc EXCEPT ![t] = st]
      BY <1>1 DEF TakeCell, SendFull, SendError, SendCopy, Unlink, RecvEmpty, RecvError,
                  RecvCopy, CallSend, CallRecv, Stages
    <2>2. UNCHANGED wait /\ resetting' = resetting
      BY <1>1 DEF TakeCell, SendFull, SendError, SendCopy, Unlink, RecvEmpty, RecvError,
                  RecvCopy, CallSend, CallRecv, wait
    <2>3. pc[t] \notin {"recv_wait", "send_wait"}
      BY <1>1 DEF SendError, SendCopy, RecvError, RecvCopy, CallSend, CallRecv
    <2>4. pc' \in [Threads -> Stages] /\ pc \in [Threads -> Stages]
      BY <2>1 DEF Waiting
    <2> QED BY <2>1, <2>2, <2>3, <2>4, WaitingFrame
  <1>2. ASSUME NEW t \in Threads, NEW to, SendSuspend(t, to), ~resetting,
               pc[t] \in {"send", "send_resumed"}
        PROVE  Waiting'
    <2>1. ~In(t, suspend_sender_thread) /\ ~In(t, suspend_thread)
      BY <1>2 DEF Waiting
    <2>2. /\ suspend_sender_thread' = Append(suspend_sender_thread, t)
          /\ suspend_thread' = suspend_thread
          /\ pc' = [pc EXCEPT ![t] = "send_wait"] /\ ~resetting'
      BY <1>2 DEF SendSuspend
    <2>3. /\ suspend_sender_thread' \in Seq(Threads) /\ Distinct(suspend_sender_thread')
          /\ \A u \in Threads :
               In(u, suspend_sender_thread') <=> In(u, suspend_sender_thread) \/ u = t
      BY <2>1, <2>2, WaitAppend DEF Waiting
    <2>4. pc' \in [Threads -> Stages]
      BY <2>2 DEF Waiting, Stages
    <2> QED BY <2>1, <2>2, <2>3, <2>4 DEF Waiting, In, Distinct
  <1>3. ASSUME NEW t \in Threads, NEW to, RecvSuspend(t, to), ~resetting,
               pc[t] \in {"recv", "recv_resumed"}
        PROVE  Waiting'
    <2>1. ~In(t, suspend_sender_thread) /\ ~In(t, suspend_thread)
      BY <1>3 DEF Waiting
    <2>2. /\ suspend_thread' = Append(suspend_thread, t)
          /\ suspend_sender_thread' = suspend_sender_thread
          /\ pc' = [pc EXCEPT ![t] = "recv_wait"] /\ ~resetting'
      BY <1>3 DEF RecvSuspend
    <2>3. /\ suspend_thread' \in Seq(Threads) /\ Distinct(suspend_thread')
          /\ \A u \in Threads : In(u, suspend_thread') <=> In(u, suspend_thread) \/ u = t
      BY <2>1, <2>2, WaitAppend DEF Waiting
    <2>4. pc' \in [Threads -> Stages]
      BY <2>2 DEF Waiting, Stages
    <2> QED BY <2>1, <2>2, <2>3, <2>4 DEF Waiting, In, Distinct
  <1>4. ASSUME NEW t \in Threads, SendLink(t), ~resetting PROVE Waiting'
    <2> DEFINE base == [pc EXCEPT ![t] = "idle"]
    <2>1. base \in [Threads -> Stages] /\ pc[t] = "send_link" /\ pc \in [Threads -> Stages]
      BY <1>4 DEF SendLink, Waiting, Stages
    <2>2. ResumeReceiver(base) /\ UNCHANGED suspend_sender_thread /\ ~resetting'
      BY <1>4 DEF SendLink
    <2> QED BY <2>1, <2>2, ReceiverResumed
  <1>5. ASSUME NEW m \in Msgs, IsrSend(m), ~resetting PROVE Waiting'
    <2>1. ResumeReceiver(pc) /\ UNCHANGED suspend_sender_thread /\ ~resetting'
      BY <1>5 DEF IsrSend
    <2> QED BY <2>1, ReceiverResumed DEF Waiting
  <1>6. ASSUME NEW t \in Threads, RecvFree(t), ~resetting PROVE Waiting'
    <2> DEFINE base == [pc EXCEPT ![t] = "idle"]
    <2>1. base \in [Threads -> Stages] /\ pc[t] = "recv_free" /\ pc \in [Threads -> Stages]
      BY <1>6 DEF RecvFree, Waiting, Stages
    <2>2. ResumeSender(base) /\ UNCHANGED suspend_thread /\ ~resetting'
      BY <1>6 DEF RecvFree
    <2> QED BY <2>1, <2>2, SenderResumed
  <1>7. ASSUME NEW t \in Threads, WaitTimeout(t), ~resetting PROVE Waiting'
    <2>1. CASE pc[t] = "send_wait"
      <3>1. /\ pc' = [pc EXCEPT ![t] = "send_resumed"]
            /\ suspend_sender_thread' = Without(suspend_sender_thread, t)
            /\ suspend_thread' = suspend_thread /\ ~resetting'
        BY <1>7, <2>1 DEF WaitTimeout
      <3>2. /\ suspend_sender_thread' \in Seq(Threads) /\ Distinct(suspend_sender_thread')
            /\ \A u \in Threads :
                 In(u, suspend_sender_thread') <=> In(u, suspend_sender_thread) /\ u # t
        BY <2>1, <3>1, WaitRemove DEF Waiting
      <3>3. pc' \in [Threads -> Stages]
        BY <3>1 DEF Waiting, Stages
      <3>4. /\ \A u \in Threads : pc'[u] = "send_wait" <=> In(u, suspend_sender_thread')
            /\ \A u \in Threads : pc'[u] = "recv_wait" <=> In(u, suspend_thread)
        BY <2>1, <3>1, <3>2 DEF Waiting
      <3>5. suspend_thread' = suspend_thread /\ ~resetting'
        BY <3>1
      <3> QED BY <3>2, <3>3, <3>4, <3>5 DEF Waiting, In, Distinct
    <2>2. CASE pc[t] = "recv_wait"
      <3>1. /\ pc' = [pc EXCEPT ![t] = "recv_resumed"]
            /\ suspend_thread' = Without(suspend_thread, t)
            /\ suspend_sender_thread' = suspend_sender_thread /\ ~resetting'
        BY <1>7, <2>2 DEF WaitTimeout
      <3>2. /\ suspend_thread' \in Seq(Threads) /\ Distinct(suspend_thread')
            /\ \A u \in Threads : In(u, suspend_thread') <=> In(u, suspend_thread) /\ u # t
        BY <2>2, <3>1, WaitRemove DEF Waiting
      <3>3. pc' \in [Threads -> Stages]
        BY <3>1 DEF Waiting, Stages
      <3>4. /\ \A u \in Threads : pc'[u] = "recv_wait" <=> In(u, suspend_thread')
            /\ \A u \in Threads : pc'[u] = "send_wait" <=> In(u, suspend_sender_thread)
        BY <2>2, <3>1, <3>2 DEF Waiting
      <3>5. suspend_sender_thread' = suspend_sender_thread /\ ~resetting'
        BY <3>1
      <3> QED BY <3>2, <3>3, <3>4, <3>5 DEF Waiting, In, Distinct
    <2> QED BY <1>7, <2>1, <2>2 DEF WaitTimeout
  <1>8. ASSUME NEW t \in Threads, ResetBegin(t) PROVE Waiting'
    <2>1. suspend_thread' = <<>> /\ suspend_sender_thread' = <<>>
      BY <1>8 DEF ResetBegin
    <2>2. /\ pc' \in [Threads -> Stages]
          /\ \A u \in Threads : pc'[u] # "recv_wait" /\ pc'[u] # "send_wait"
      BY <1>8 DEF ResetBegin, Waiting, Stages
    <2>3. Distinct(<<>>) /\ <<>> \in Seq(Threads)
      BY EmptySeq DEF Distinct
    <2> QED BY <2>1, <2>2, <2>3, NobodyWaits DEF Waiting
  <1>9. ASSUME ResetCell \/ ResetEnd \/ UNCHANGED vars PROVE Waiting'
    BY <1>9, WaitingFrame DEF ResetCell, ResetEnd, vars, wait, Waiting
  <1> QED
    <2>1. ASSUME NEW t \in Threads, Run(t) PROVE Waiting'
      <3>1. CASE Send(t) \/ SendResumed(t)
        <4>1. PICK to : SendLoop(t, to)
          BY <3>1 DEF Send, SendResumed
        <4>2. pc[t] \in {"send", "send_resumed"} /\ ~resetting
          BY <2>1, <3>1 DEF Run, Send, SendResumed
        <4> QED BY <1>1, <1>2, <4>1, <4>2 DEF SendLoop
      <3>2. CASE Recv(t) \/ RecvResumed(t)
        <4>1. PICK to : RecvLoop(t, to)
          BY <3>2 DEF Recv, RecvResumed
        <4>2. pc[t] \in {"recv", "recv_resumed"} /\ ~resetting
          BY <2>1, <3>2 DEF Run, Recv, RecvResumed
        <4> QED BY <1>1, <1>3, <4>1, <4>2 DEF RecvLoop
      <3> QED BY <2>1, <3>1, <3>2, <1>1, <1>4, <1>6 DEF Run
    <2>2. ASSUME NEW t \in Threads, Call(t) PROVE Waiting'
      BY <2>2, <1>1, <1>8 DEF Call
    <2>3. ASSUME Interrupt PROVE Waiting'
      BY <2>3, <1>5, <1>7 DEF Interrupt
    <2> QED BY <1>9, <2>1, <2>2, <2>3 DEF Next, Reset

-----------------------------------------------------------------------------
(* Whole: the lists are whole, every cell is in one place, a thread that   *)
(* copies holds a cell, and a cell about to become the tail ends the list. *)
HeldCells == \A t \in Threads : Holds(t) => msg[t] \in Cells

TailReady == \A t \in Threads : pc[t] = "send_link" /\ ~urgent[t] => next[msg[t]] = NULL

Whole ==
  /\ next \in Pointers /\ order \in Seq(Cells) /\ pool \in Seq(Cells) /\ entry \in Nat
  /\ msg \in [Threads -> Cells \cup {NULL}]
  /\ ListsIntact /\ CellsAccounted /\ HeldCells /\ TailReady

(* Only a sleeping thread is resumed.                                      *)
LEMMA ResumeReceiverStages ==
  ASSUME Waiting, NEW base \in [Threads -> Stages], ResumeReceiver(base), NEW u \in Threads
  PROVE  pc'[u] = base[u] \/ (pc[u] = "recv_wait" /\ pc'[u] = "recv_resumed")
  <1>1. CASE suspend_thread = <<>>
    BY <1>1 DEF ResumeReceiver, FirstWaiting
  <1>2. CASE suspend_thread # <<>>
    <2>1. pc[Head(suspend_thread)] = "recv_wait"
      BY <1>2, WaitTail DEF Waiting
    <2> QED BY <1>2, <2>1 DEF ResumeReceiver, FirstWaiting
  <1> QED BY <1>1, <1>2

LEMMA ResumeSenderStages ==
  ASSUME Waiting, NEW base \in [Threads -> Stages], ResumeSender(base), NEW u \in Threads
  PROVE  pc'[u] = base[u] \/ (pc[u] = "send_wait" /\ pc'[u] = "send_resumed")
  <1>1. CASE suspend_sender_thread = <<>>
    BY <1>1 DEF ResumeSender, FirstWaiting
  <1>2. CASE suspend_sender_thread # <<>>
    <2>1. pc[Head(suspend_sender_thread)] = "send_wait"
      BY <1>2, WaitTail DEF Waiting
    <2> QED BY <1>2, <2>1 DEF ResumeSender, FirstWaiting
  <1> QED BY <1>1, <1>2

(* Steps that touch neither list nor any held cell.                        *)
LEMMA WholeFrame ==
  ASSUME Whole, UNCHANGED <<list, free, next, msg>>, ~resetting' => ~resetting,
         \A t \in Threads : Holds(t)' <=> Holds(t),
         \A t \in Threads : pc'[t] = "send_link" => pc[t] = "send_link" /\ urgent'[t] = urgent[t]
  PROVE  Whole'
  BY DEF Whole, list, free, ListsIntact, CellsAccounted, HeldCells, TailReady

(* A cell is taken off the free list.                                      *)
LEMMA TakeCellWhole ==
  ASSUME Whole, Waiting, NEW t \in Threads, pc[t] \in {"send", "send_resumed"}, TakeCell(t)
  PROVE  Whole'
  <1>1. pool # <<>> /\ FirstOf(pool) = msg_queue_free /\ msg_queue_free \in Cells
    BY EmptyList DEF Whole, ListsIntact, TakeCell
  <1>2. /\ pool' \in Seq(Cells) /\ Linked(next, pool') /\ Distinct(pool')
        /\ FirstOf(pool') = next[msg_queue_free]
        /\ \A c \in Cells : In(c, pool') <=> In(c, pool) /\ c # msg_queue_free
    BY <1>1, TailList DEF Whole, ListsIntact, CellsAccounted, TakeCell
  <1>3. /\ UNCHANGED <<list, next, resetting>> /\ msg_queue_free' = next[msg_queue_free]
        /\ msg' = [msg EXCEPT ![t] = msg_queue_free] /\ pc' = [pc EXCEPT ![t] = "send_copy"]
    BY DEF TakeCell, NextFree
  <1>4. In(msg_queue_free, pool)
    BY <1>1, EmptyList DEF In, Whole
  <1>5. /\ ~Holds(t) /\ Holds(t)' /\ msg'[t] = msg_queue_free
        /\ \A u \in Threads \ {t} : (Holds(u)' <=> Holds(u)) /\ msg'[u] = msg[u]
    BY <1>3 DEF Holds, Waiting, Whole
  <1>6. ListsIntact'
    BY <1>2, <1>3 DEF Whole, ListsIntact, list
  <1>7. HeldCells'
    BY <1>1, <1>5 DEF Whole, HeldCells
  <1>8. CellsAccounted'
    <2>1. order' = order
      BY <1>3 DEF list
    <2>2. /\ Distinct(order)
          /\ \A c \in Cells : ~(In(c, order) /\ In(c, pool))
          /\ \A u \in Threads : Holds(u) => ~In(msg[u], order) /\ ~In(msg[u], pool)
          /\ \A u, v \in Threads : Holds(u) /\ Holds(v) /\ msg[u] = msg[v] => u = v
          /\ \A c \in Cells : In(c, order) \/ In(c, pool) \/ \E u \in Threads : Holds(u) /\ msg[u] = c
          /\ \A u \in Threads : Holds(u) => msg[u] \in Cells
      BY DEF Whole, CellsAccounted, HeldCells
    <2>3. \A u \in Threads : Holds(u)' => ~In(msg'[u], order) /\ ~In(msg'[u], pool')
      BY <1>1, <1>2, <1>4, <1>5, <2>2
    <2>4. \A u, v \in Threads : Holds(u)' /\ Holds(v)' /\ msg'[u] = msg'[v] => u = v
      BY <1>4, <1>5, <2>2
    <2>5. \A c \in Cells : \/ In(c, order) \/ In(c, pool')
                           \/ \E u \in Threads : Holds(u)' /\ msg'[u] = c
      BY <1>2, <1>5, <2>2
    <2> QED BY <1>2, <2>1, <2>2, <2>3, <2>4, <2>5 DEF CellsAccounted
  <1>9. msg' \in [Threads -> Cells \cup {NULL}]
    BY <1>1, <1>3 DEF Whole
  <1>10. TailReady'
    BY <1>3 DEF TakeCell, args, TailReady, Whole, Waiting
  <1> QED BY <1>2, <1>3, <1>6, <1>7, <1>8, <1>9, <1>10 DEF Whole, list

(* The parts of CellsAccounted and HeldCells, for the steps below.         *)
LEMMA AccountParts ==
  ASSUME Whole
  PROVE  /\ Distinct(order) /\ Distinct(pool)
         /\ \A c \in Cells : ~(In(c, order) /\ In(c, pool))
         /\ \A u \in Threads : Holds(u) => msg[u] \in Cells /\ ~In(msg[u], order) /\ ~In(msg[u], pool)
         /\ \A u, v \in Threads : Holds(u) /\ Holds(v) /\ msg[u] = msg[v] => u = v
         /\ \A c \in Cells : In(c, order) \/ In(c, pool) \/ \E u \in Threads : Holds(u) /\ msg[u] = c
  BY DEF Whole, CellsAccounted, HeldCells

(* A message is copied into a held cell.                                   *)
LEMMA SendCopyWhole ==
  ASSUME Whole, Waiting, NEW t \in Threads, SendCopy(t)
  PROVE  Whole'
  <1> DEFINE c == msg[t]
  <1>1. /\ pc[t] = "send_copy" /\ pc' = [pc EXCEPT ![t] = "send_link"] /\ Holds(t)
        /\ UNCHANGED <<list, free, msg, urgent, resetting>>
        /\ next' = IF urgent[t] THEN next ELSE [next EXCEPT ![c] = NULL]
    BY DEF SendCopy, args, Holds
  <1>2. c \in Cells /\ ~In(c, order) /\ ~In(c, pool)
    BY <1>1, AccountParts
  <1>3. next' \in Pointers /\ \A d \in Cells \ {c} : next'[d] = next[d]
    BY <1>1, <1>2 DEF Whole, Pointers
  <1>4. \A u \in Threads : Holds(u)' <=> Holds(u)
    BY <1>1 DEF Holds, Waiting
  <1>5. Linked(next', order) /\ Linked(next', pool)
    <2>1. \A d \in Cells : In(d, order) => next'[d] = next[d]
      BY <1>2, <1>3
    <2>2. \A d \in Cells : In(d, pool) => next'[d] = next[d]
      BY <1>2, <1>3
    <2> QED BY <2>1, <2>2, LinkedFrame DEF Whole, ListsIntact
  <1>6. ListsIntact'
    BY <1>1, <1>5 DEF Whole, ListsIntact, list, free
  <1>7. CellsAccounted' /\ HeldCells'
    BY <1>1, <1>4 DEF Whole, CellsAccounted, HeldCells, list, free
  <1>8. TailReady'
    <2> SUFFICES ASSUME NEW u \in Threads, pc'[u] = "send_link", ~urgent'[u]
                 PROVE  next'[msg'[u]] = NULL
      BY DEF TailReady
    <2>1. CASE u = t
      BY <1>1, <1>2, <2>1 DEF Whole, Pointers
    <2>2. CASE u # t
      <3>1. pc[u] = "send_link" /\ ~urgent[u] /\ Holds(u)
        BY <1>1, <2>2 DEF Waiting, Holds
      <3>2. msg[u] \in Cells /\ msg[u] # c
        BY <1>1, <2>2, <3>1, AccountParts
      <3> QED BY <1>1, <1>3, <3>1, <3>2 DEF Whole, TailReady
    <2> QED BY <2>1, <2>2
  <1> QED BY <1>1, <1>3, <1>6, <1>7, <1>8 DEF Whole, list, free

(* A held cell c of thread t becomes part of the messages, whose new list  *)
(* is r.                                                                   *)
LEMMA HeldToOrder ==
  ASSUME Whole, NEW t \in Threads, Holds(t), ~Holds(t)', msg' = [msg EXCEPT ![t] = NULL],
         \A u \in Threads \ {t} : Holds(u)' <=> Holds(u),
         UNCHANGED pool, Distinct(order'),
         \A d \in Cells : In(d, order') <=> In(d, order) \/ d = msg[t]
  PROVE  CellsAccounted' /\ HeldCells'
  <1>1. /\ Distinct(order) /\ Distinct(pool)
        /\ \A c \in Cells : ~(In(c, order) /\ In(c, pool))
        /\ \A u \in Threads : Holds(u) => msg[u] \in Cells /\ ~In(msg[u], order) /\ ~In(msg[u], pool)
        /\ \A u, v \in Threads : Holds(u) /\ Holds(v) /\ msg[u] = msg[v] => u = v
        /\ \A c \in Cells : In(c, order) \/ In(c, pool) \/ \E u \in Threads : Holds(u) /\ msg[u] = c
    BY AccountParts
  <1>2. \A u \in Threads \ {t} : msg'[u] = msg[u]
    BY DEF Whole
  <1>3. \A u \in Threads : Holds(u)' =>
          msg'[u] \in Cells /\ ~In(msg'[u], order') /\ ~In(msg'[u], pool)
    BY <1>1, <1>2
  <1>4. \A u, v \in Threads : Holds(u)' /\ Holds(v)' /\ msg'[u] = msg'[v] => u = v
    BY <1>1, <1>2
  <1>5. ASSUME NEW d \in Cells
        PROVE  In(d, order') \/ In(d, pool) \/ \E u \in Threads : Holds(u)' /\ msg'[u] = d
    <2>1. CASE In(d, order) \/ In(d, pool)
      BY <2>1
    <2>2. ASSUME NEW u \in Threads, Holds(u), msg[u] = d
          PROVE  In(d, order') \/ \E v \in Threads : Holds(v)' /\ msg'[v] = d
      BY <1>2, <2>2
    <2> QED BY <1>1, <2>1, <2>2
  <1>6. \A d \in Cells : ~(In(d, order') /\ In(d, pool))
    BY <1>1
  <1> QED BY <1>1, <1>3, <1>4, <1>5, <1>6 DEF CellsAccounted, HeldCells

(* The message is linked and a receiver resumed.                           *)
LEMMA SendLinkWhole ==
  ASSUME Whole, Waiting, urgent \in [Threads -> BOOLEAN],
         NEW t \in Threads, SendLink(t), ~resetting
  PROVE  Whole'
  <1> DEFINE c == msg[t]
  <1>1. /\ pc[t] = "send_link" /\ Holds(t) /\ UNCHANGED <<free, resetting>>
        /\ entry' = entry + 1 /\ msg' = [msg EXCEPT ![t] = NULL]
        /\ urgent' = [urgent EXCEPT ![t] = FALSE]
        /\ ResumeReceiver([pc EXCEPT ![t] = "idle"])
    BY DEF SendLink, Holds, ForgetArgs
  <1>2. c \in Cells /\ ~In(c, order) /\ ~In(c, pool)
    BY <1>1, AccountParts
  <1>3. /\ ~Holds(t)' /\ pc'[t] # "send_link"
        /\ \A u \in Threads \ {t} : /\ Holds(u)' <=> Holds(u)
                                    /\ pc'[u] = "send_link" => pc[u] = "send_link"
    <2>1. [pc EXCEPT ![t] = "idle"] \in [Threads -> Stages] /\ pc \in [Threads -> Stages]
      BY DEF Waiting, Stages
    <2>2. \A u \in Threads : \/ pc'[u] = [pc EXCEPT ![t] = "idle"][u]
                             \/ pc[u] = "recv_wait" /\ pc'[u] = "recv_resumed"
      BY <1>1, <2>1, ResumeReceiverStages
    <2>3. pc'[t] = "idle" /\ ~Holds(t)'
      BY <1>1, <2>1, <2>2 DEF Holds
    <2>4. ASSUME NEW u \in Threads \ {t}
          PROVE  (Holds(u)' <=> Holds(u)) /\ (pc'[u] = "send_link" => pc[u] = "send_link")
      BY <2>1, <2>2 DEF Holds
    <2> QED BY <2>3, <2>4 DEF Holds
  <1>4. /\ next \in Pointers /\ order \in Seq(Cells) /\ Linked(next, order) /\ Distinct(order)
        /\ msg_queue_head = FirstOf(order) /\ msg_queue_tail = LastOf(order)
        /\ entry = Len(order)
    BY DEF Whole, ListsIntact, CellsAccounted
  <1>5. /\ order' \in Seq(Cells) /\ Len(order') = Len(order) + 1
        /\ Linked(next', order') /\ Distinct(order') /\ next' \in Pointers
        /\ msg_queue_head' = FirstOf(order') /\ msg_queue_tail' = LastOf(order')
        /\ \A d \in Cells : In(d, order') <=> In(d, order) \/ d = c
        /\ \A d \in Cells \ {c} : ~In(d, order) => next'[d] = next[d]
    <2>1. CASE ~urgent[t]
      <3>1. next[c] = NULL
        BY <1>1, <2>1 DEF Whole, TailReady
      <3>2. LinkTail(c, next)
        BY <2>1 DEF SendLink
      <3> QED BY <1>2, <1>4, <3>1, <3>2, AppendList DEF LinkTail
    <2>2. CASE urgent[t]
      <3>1. LinkHead(c)
        BY <2>2 DEF SendLink
      <3>2. /\ next' \in Pointers /\ next'[c] = FirstOf(order)
            /\ \A d \in Cells \ {c} : next'[d] = next[d]
        BY <1>2, <1>4, <3>1, EmptyList DEF LinkHead, Pointers
      <3>3. Linked(next', order)
        BY <1>2, <1>4, <3>2, LinkedFrame
      <3>4. order = <<>> <=> msg_queue_tail = NULL
        BY <1>4, EmptyList
      <3>5. /\ order' = <<c>> \o order /\ msg_queue_head' = c
            /\ msg_queue_tail' = IF order = <<>> THEN c ELSE LastOf(order)
        BY <1>4, <3>1, <3>4 DEF LinkHead
      <3>6. /\ order' \in Seq(Cells) /\ Len(order') = Len(order) + 1
            /\ Linked(next', order') /\ Distinct(order')
            /\ FirstOf(order') = c /\ LastOf(order') = IF order = <<>> THEN c ELSE LastOf(order)
            /\ \A d \in Cells : In(d, order') <=> In(d, order) \/ d = c
        BY <1>2, <1>4, <3>2, <3>3, <3>5, PushList
      <3> QED BY <3>2, <3>5, <3>6
    <2> QED BY <2>1, <2>2
  <1>6. Linked(next', pool)
    <2>1. \A d \in Cells : In(d, pool) => next'[d] = next[d]
      BY <1>2, <1>5, AccountParts
    <2> QED BY <2>1, LinkedFrame DEF Whole, ListsIntact
  <1>7. ListsIntact'
    BY <1>1, <1>4, <1>5, <1>6 DEF Whole, ListsIntact, free
  <1>8. CellsAccounted' /\ HeldCells'
    <2>1. pool' = pool
      BY <1>1 DEF free
    <2>2. Distinct(order') /\ \A d \in Cells : In(d, order') <=> In(d, order) \/ d = msg[t]
      BY <1>5
    <2>3. \A u \in Threads \ {t} : Holds(u)' <=> Holds(u)
      BY <1>3 DEF Holds
    <2>4. Holds(t) /\ ~Holds(t)' /\ msg' = [msg EXCEPT ![t] = NULL]
      BY <1>1, <1>3
    <2> QED BY <2>1, <2>2, <2>3, <2>4, HeldToOrder
  <1>9. TailReady'
    <2> SUFFICES ASSUME NEW u \in Threads, pc'[u] = "send_link", ~urgent'[u]
                 PROVE  next'[msg'[u]] = NULL
      BY DEF TailReady
    <2>1. u # t /\ pc[u] = "send_link" /\ Holds(u) /\ msg'[u] = msg[u]
      BY <1>1, <1>3 DEF Holds, Whole
    <2>3. ~urgent[u]
      BY <1>1, <2>1
    <2>2. msg[u] \in Cells /\ msg[u] # c /\ ~In(msg[u], order)
      BY <1>1, <2>1, AccountParts
    <2> QED BY <1>5, <2>1, <2>2, <2>3 DEF Whole, TailReady
  <1>10. msg' \in [Threads -> Cells \cup {NULL}] /\ entry' \in Nat /\ pool' \in Seq(Cells)
    BY <1>1 DEF Whole, free
  <1> QED BY <1>5, <1>7, <1>8, <1>9, <1>10 DEF Whole

(* An interrupt takes a cell and links it in one go.                       *)
LEMMA IsrSendWhole ==
  ASSUME Whole, Waiting, ~resetting, NEW m, IsrSend(m)
  PROVE  Whole'
  <1> DEFINE c  == msg_queue_free
             nx == [next EXCEPT ![c] = NULL]
  <1>1. /\ UNCHANGED <<msg, urgent, resetting>> /\ entry' = entry + 1
        /\ msg_queue_free' = next[c] /\ pool' = Tail(pool)
        /\ LinkTail(c, nx) /\ ResumeReceiver(pc) /\ c # NULL
    BY DEF IsrSend, NextFree, args
  <1>2. /\ next \in Pointers /\ order \in Seq(Cells) /\ Linked(next, order) /\ Distinct(order)
        /\ pool \in Seq(Cells) /\ Linked(next, pool) /\ Distinct(pool)
        /\ msg_queue_head = FirstOf(order) /\ msg_queue_tail = LastOf(order)
        /\ entry = Len(order) /\ c = FirstOf(pool)
    BY DEF Whole, ListsIntact, CellsAccounted
  <1>3. pool # <<>> /\ c \in Cells /\ In(c, pool) /\ ~In(c, order)
    <2>1. pool # <<>> /\ c \in Cells /\ In(c, pool)
      BY <1>1, <1>2, EmptyList DEF In
    <2> QED BY <2>1, AccountParts
  <1>4. /\ pool' \in Seq(Cells) /\ Linked(next, pool') /\ Distinct(pool')
        /\ FirstOf(pool') = next[c]
        /\ \A d \in Cells : In(d, pool') <=> In(d, pool) /\ d # c
    BY <1>1, <1>2, <1>3, TailList
  <1>5. nx \in Pointers /\ nx[c] = NULL /\ \A d \in Cells \ {c} : nx[d] = next[d]
    BY <1>2, <1>3 DEF Pointers
  <1>6. Linked(nx, order)
    BY <1>2, <1>3, <1>5, LinkedFrame
  <1>7. /\ order' = Append(order, c)
        /\ next' = IF LastOf(order) # NULL THEN [nx EXCEPT ![LastOf(order)] = c] ELSE nx
        /\ msg_queue_tail' = c
        /\ msg_queue_head' = IF FirstOf(order) = NULL THEN c ELSE FirstOf(order)
    BY <1>1, <1>2 DEF LinkTail
  <1> HIDE DEF nx
  <1>8. /\ order' \in Seq(Cells) /\ Len(order') = Len(order) + 1
        /\ Linked(next', order') /\ Distinct(order') /\ next' \in Pointers
        /\ msg_queue_head' = FirstOf(order') /\ msg_queue_tail' = LastOf(order')
        /\ \A d \in Cells : In(d, order') <=> In(d, order) \/ d = c
        /\ \A d \in Cells : ~In(d, order) => next'[d] = nx[d]
    BY <1>2, <1>3, <1>5, <1>6, <1>7, AppendList
  <1>9. Linked(next', pool')
    <2>1. \A d \in Cells : In(d, pool') => next'[d] = next[d]
      BY <1>4, <1>5, <1>8, AccountParts
    <2> QED BY <1>4, <2>1, LinkedFrame
  <1>10. \A u \in Threads : (Holds(u)' <=> Holds(u)) /\ (pc'[u] = "send_link" => pc[u] = "send_link")
    <2>1. pc \in [Threads -> Stages]
      BY DEF Waiting
    <2>2. \A u \in Threads : pc'[u] = pc[u] \/ (pc[u] = "recv_wait" /\ pc'[u] = "recv_resumed")
      BY <1>1, <2>1, ResumeReceiverStages
    <2> QED BY <2>2 DEF Holds
  <1>11. ListsIntact'
    BY <1>1, <1>2, <1>4, <1>8, <1>9 DEF ListsIntact
  <1>12. CellsAccounted' /\ HeldCells'
    <2>1. \A u \in Threads : Holds(u)' =>
            msg'[u] \in Cells /\ ~In(msg'[u], order') /\ ~In(msg'[u], pool')
      BY <1>1, <1>3, <1>4, <1>8, <1>10, AccountParts
    <2>2. \A u, v \in Threads : Holds(u)' /\ Holds(v)' /\ msg'[u] = msg'[v] => u = v
      BY <1>1, <1>10, AccountParts
    <2>3. \A d \in Cells : \/ In(d, order') \/ In(d, pool')
                           \/ \E u \in Threads : Holds(u)' /\ msg'[u] = d
      BY <1>1, <1>4, <1>8, <1>10, AccountParts
    <2>4. \A d \in Cells : ~(In(d, order') /\ In(d, pool'))
      BY <1>4, <1>8, AccountParts
    <2> QED BY <1>4, <1>8, <2>1, <2>2, <2>3, <2>4 DEF CellsAccounted, HeldCells
  <1>13. TailReady'
    <2> SUFFICES ASSUME NEW u \in Threads, pc'[u] = "send_link", ~urgent'[u]
                 PROVE  next'[msg'[u]] = NULL
      BY DEF TailReady
    <2>1. pc[u] = "send_link" /\ Holds(u) /\ msg'[u] = msg[u] /\ ~urgent[u]
      BY <1>1, <1>10 DEF Holds
    <2>2. msg[u] \in Cells /\ msg[u] # c /\ ~In(msg[u], order)
      BY <1>3, <2>1, AccountParts
    <2> QED BY <1>5, <1>8, <2>1, <2>2 DEF Whole, TailReady
  <1>14. msg' \in [Threads -> Cells \cup {NULL}] /\ entry' \in Nat
    BY <1>1 DEF Whole
  <1> QED BY <1>4, <1>8, <1>11, <1>12, <1>13, <1>14 DEF Whole

(* The oldest message is unlinked.                                         *)
LEMMA UnlinkWhole ==
  ASSUME Whole, Waiting, NEW t \in Threads, pc[t] \in {"recv", "recv_resumed"}, Unlink(t),
         ~resetting
  PROVE  Whole'
  <1> DEFINE c == msg_queue_head
  <1>1. /\ UNCHANGED <<free, next, urgent, resetting>> /\ msg' = [msg EXCEPT ![t] = c]
        /\ msg_queue_head' = next[c] /\ entry' = entry - 1 /\ entry > 0
        /\ msg_queue_tail' = IF msg_queue_tail = c THEN NULL ELSE msg_queue_tail
        /\ order' = Tail(order) /\ pc' = [pc EXCEPT ![t] = "recv_copy"]
    BY DEF Unlink, TailWithout, args
  <1>2. /\ next \in Pointers /\ order \in Seq(Cells) /\ Linked(next, order) /\ Distinct(order)
        /\ c = FirstOf(order) /\ msg_queue_tail = LastOf(order) /\ entry = Len(order)
    BY DEF Whole, ListsIntact, CellsAccounted
  <1>3. order # <<>> /\ c \in Cells /\ In(c, order)
    <2>1. order # <<>>
      BY <1>1, <1>2, EmptyList
    <2> QED BY <2>1, <1>2, EmptyList DEF In
  <1>4. /\ order' \in Seq(Cells) /\ Len(order') = Len(order) - 1
        /\ Linked(next, order') /\ Distinct(order')
        /\ FirstOf(order') = next[c] /\ msg_queue_tail' = LastOf(order')
        /\ \A d \in Cells : In(d, order') <=> In(d, order) /\ d # c
    BY <1>1, <1>2, <1>3, TailList
  <1>5. /\ ~Holds(t) /\ Holds(t)' /\ msg'[t] = c
        /\ \A u \in Threads \ {t} : (Holds(u)' <=> Holds(u)) /\ msg'[u] = msg[u]
    BY <1>1 DEF Holds, Waiting, Whole
  <1>6. ListsIntact'
    BY <1>1, <1>2, <1>4 DEF Whole, ListsIntact, free
  <1>7. CellsAccounted' /\ HeldCells'
    <2>1. pool' = pool
      BY <1>1 DEF free
    <2>2. \A u \in Threads : Holds(u)' =>
            msg'[u] \in Cells /\ ~In(msg'[u], order') /\ ~In(msg'[u], pool)
      BY <1>3, <1>4, <1>5, AccountParts
    <2>3. \A u, v \in Threads : Holds(u)' /\ Holds(v)' /\ msg'[u] = msg'[v] => u = v
      BY <1>3, <1>5, AccountParts
    <2>4. \A d \in Cells : \/ In(d, order') \/ In(d, pool)
                           \/ \E u \in Threads : Holds(u)' /\ msg'[u] = d
      BY <1>4, <1>5, AccountParts
    <2>5. Distinct(pool) /\ \A d \in Cells : ~(In(d, order') /\ In(d, pool))
      BY <1>4, AccountParts
    <2> QED BY <1>4, <2>1, <2>2, <2>3, <2>4, <2>5 DEF CellsAccounted, HeldCells
  <1>8. TailReady'
    BY <1>1 DEF TailReady, Whole, Waiting
  <1>9. msg' \in [Threads -> Cells \cup {NULL}] /\ entry' \in Nat /\ pool' \in Seq(Cells)
    BY <1>1, <1>3 DEF Whole, free
  <1> QED BY <1>1, <1>2, <1>4, <1>6, <1>7, <1>8, <1>9 DEF Whole

(* A copied cell goes back to the free list.                               *)
LEMMA RecvFreeWhole ==
  ASSUME Whole, Waiting, NEW t \in Threads, RecvFree(t)
  PROVE  Whole'
  <1> DEFINE c == msg[t]
  <1>1. /\ pc[t] = "recv_free" /\ Holds(t) /\ UNCHANGED <<list, resetting>>
        /\ next' = [next EXCEPT ![c] = msg_queue_free]
        /\ msg_queue_free' = c /\ pool' = <<c>> \o pool
        /\ msg' = [msg EXCEPT ![t] = NULL] /\ urgent' = [urgent EXCEPT ![t] = FALSE]
        /\ ResumeSender([pc EXCEPT ![t] = "idle"])
    BY DEF RecvFree, Holds, ForgetArgs
  <1>2. c \in Cells /\ ~In(c, order) /\ ~In(c, pool)
    BY <1>1, AccountParts
  <1>3. /\ ~Holds(t)' /\ pc'[t] # "send_link"
        /\ \A u \in Threads \ {t} :
             (Holds(u)' <=> Holds(u)) /\ (pc'[u] = "send_link" => pc[u] = "send_link")
    <2>1. [pc EXCEPT ![t] = "idle"] \in [Threads -> Stages] /\ pc \in [Threads -> Stages]
      BY DEF Waiting, Stages
    <2>2. \A u \in Threads : \/ pc'[u] = [pc EXCEPT ![t] = "idle"][u]
                             \/ pc[u] = "send_wait" /\ pc'[u] = "send_resumed"
      BY <1>1, <2>1, ResumeSenderStages
    <2>3. pc'[t] = "idle" /\ ~Holds(t)'
      BY <1>1, <2>1, <2>2 DEF Holds
    <2>4. ASSUME NEW u \in Threads \ {t}
          PROVE  (Holds(u)' <=> Holds(u)) /\ (pc'[u] = "send_link" => pc[u] = "send_link")
      BY <2>1, <2>2 DEF Holds
    <2> QED BY <2>3, <2>4 DEF Holds
  <1>4. /\ next \in Pointers /\ pool \in Seq(Cells) /\ Linked(next, pool) /\ Distinct(pool)
        /\ msg_queue_free = FirstOf(pool) /\ order \in Seq(Cells) /\ Linked(next, order)
    BY DEF Whole, ListsIntact, CellsAccounted
  <1>5. /\ next' \in Pointers /\ next'[c] = FirstOf(pool)
        /\ \A d \in Cells \ {c} : next'[d] = next[d]
    BY <1>1, <1>2, <1>4, EmptyList DEF Pointers
  <1>6. Linked(next', order) /\ Linked(next', pool)
    <2>1. \A d \in Cells : In(d, order) => next'[d] = next[d]
      BY <1>2, <1>5
    <2>2. \A d \in Cells : In(d, pool) => next'[d] = next[d]
      BY <1>2, <1>5
    <2>3. Linked(next', order)
      BY <1>4, <2>1, LinkedFrame
    <2> QED BY <1>4, <2>2, <2>3, LinkedFrame
  <1>7. /\ pool' \in Seq(Cells) /\ Linked(next', pool') /\ Distinct(pool')
        /\ FirstOf(pool') = c
        /\ \A d \in Cells : In(d, pool') <=> In(d, pool) \/ d = c
    <2>1. pool' = <<c>> \o pool
      BY <1>1
    <2>2. c \in Cells /\ ~In(c, pool) /\ pool \in Seq(Cells) /\ Distinct(pool)
      BY <1>2, <1>4
    <2> HIDE DEF c
    <2> QED BY <1>5, <1>6, <2>1, <2>2, PushList
  <1>8. ListsIntact'
    BY <1>1, <1>6, <1>7 DEF Whole, ListsIntact, list
  <1>9. CellsAccounted' /\ HeldCells'
    <2>1. order' = order
      BY <1>1 DEF list
    <2>2. \A u \in Threads \ {t} : msg'[u] = msg[u]
      BY <1>1 DEF Whole
    <2>3. \A u \in Threads : Holds(u)' =>
            msg'[u] \in Cells /\ ~In(msg'[u], order) /\ ~In(msg'[u], pool')
      BY <1>1, <1>3, <1>7, <2>2, AccountParts
    <2>4. \A u, v \in Threads : Holds(u)' /\ Holds(v)' /\ msg'[u] = msg'[v] => u = v
      BY <1>3, <2>2, AccountParts
    <2>5. ASSUME NEW d \in Cells
          PROVE  In(d, order) \/ In(d, pool') \/ \E u \in Threads : Holds(u)' /\ msg'[u] = d
      <3>1. CASE In(d, order) \/ In(d, pool)
        BY <1>7, <3>1
      <3>2. ASSUME NEW u \in Threads, Holds(u), msg[u] = d
            PROVE  In(d, pool') \/ \E v \in Threads : Holds(v)' /\ msg'[v] = d
        BY <1>3, <1>7, <2>2, <3>2
      <3> QED BY <3>1, <3>2, AccountParts
    <2>6. Distinct(order) /\ \A d \in Cells : ~(In(d, order) /\ In(d, pool'))
      BY <1>2, <1>7, AccountParts
    <2> QED BY <1>7, <2>1, <2>3, <2>4, <2>5, <2>6 DEF CellsAccounted, HeldCells
  <1>10. TailReady'
    <2> SUFFICES ASSUME NEW u \in Threads, pc'[u] = "send_link", ~urgent'[u]
                 PROVE  next'[msg'[u]] = NULL
      BY DEF TailReady
    <2>1. u # t /\ pc[u] = "send_link" /\ Holds(u) /\ msg'[u] = msg[u]
      BY <1>1, <1>3 DEF Holds, Whole
    <2>2. urgent'[u] = urgent[u]
      BY <1>1, <2>1
    <2>3. msg[u] \in Cells /\ msg[u] # c
      BY <1>1, <2>1, AccountParts
    <2> QED BY <1>5, <2>1, <2>2, <2>3 DEF Whole, TailReady
  <1>11. msg' \in [Threads -> Cells \cup {NULL}] /\ entry' \in Nat /\ order' \in Seq(Cells)
    BY <1>1 DEF Whole, list
  <1> QED BY <1>5, <1>7, <1>8, <1>9, <1>10, <1>11 DEF Whole

(* A reset moves one message to the free list.                             *)
LEMMA ResetCellWhole ==
  ASSUME Whole, Waiting, ResetCell
  PROVE  Whole'
  <1> DEFINE c == msg_queue_head
  <1>1. /\ resetting /\ UNCHANGED <<entry, pc, msg, urgent, resetting>> /\ c # NULL
        /\ msg_queue_head' = next[c]
        /\ msg_queue_tail' = IF msg_queue_tail = c THEN NULL ELSE msg_queue_tail
        /\ next' = [next EXCEPT ![c] = msg_queue_free]
        /\ msg_queue_free' = c /\ order' = Tail(order) /\ pool' = <<c>> \o pool
    BY DEF ResetCell, TailWithout, args
  <1>2. /\ next \in Pointers /\ order \in Seq(Cells) /\ Linked(next, order) /\ Distinct(order)
        /\ pool \in Seq(Cells) /\ Linked(next, pool) /\ Distinct(pool)
        /\ c = FirstOf(order) /\ msg_queue_tail = LastOf(order) /\ msg_queue_free = FirstOf(pool)
    BY DEF Whole, ListsIntact, CellsAccounted
  <1>3. order # <<>> /\ c \in Cells /\ In(c, order) /\ ~In(c, pool)
    <2>1. order # <<>> /\ c \in Cells /\ In(c, order)
      BY <1>1, <1>2, EmptyList DEF In
    <2> QED BY <2>1, AccountParts
  <1>4. /\ order' \in Seq(Cells) /\ Linked(next, order') /\ Distinct(order')
        /\ msg_queue_head' = FirstOf(order') /\ msg_queue_tail' = LastOf(order')
        /\ \A d \in Cells : In(d, order') <=> In(d, order) /\ d # c
    BY <1>1, <1>2, <1>3, TailList
  <1>5. /\ next' \in Pointers /\ next'[c] = FirstOf(pool)
        /\ \A d \in Cells \ {c} : next'[d] = next[d]
    BY <1>1, <1>2, <1>3, EmptyList DEF Pointers
  <1>6. Linked(next', order') /\ Linked(next', pool)
    <2>1. \A d \in Cells : In(d, order') => next'[d] = next[d]
      BY <1>4, <1>5
    <2>2. \A d \in Cells : In(d, pool) => next'[d] = next[d]
      BY <1>3, <1>5
    <2>3. Linked(next', order')
      BY <1>4, <2>1, LinkedFrame
    <2> QED BY <1>2, <2>2, <2>3, LinkedFrame
  <1>7. /\ pool' \in Seq(Cells) /\ Linked(next', pool') /\ Distinct(pool')
        /\ FirstOf(pool') = c
        /\ \A d \in Cells : In(d, pool') <=> In(d, pool) \/ d = c
    <2>1. pool' = <<c>> \o pool
      BY <1>1
    <2>2. c \in Cells /\ ~In(c, pool) /\ pool \in Seq(Cells) /\ Distinct(pool)
      BY <1>2, <1>3
    <2> HIDE DEF c
    <2> QED BY <1>5, <1>6, <2>1, <2>2, PushList
  <1>8. ListsIntact'
    BY <1>1, <1>4, <1>6, <1>7 DEF ListsIntact
  <1>9. \A u \in Threads : Holds(u)' <=> Holds(u)
    BY <1>1 DEF Holds
  <1>10. CellsAccounted' /\ HeldCells'
    <2>1. \A u \in Threads : Holds(u)' =>
            msg'[u] \in Cells /\ ~In(msg'[u], order') /\ ~In(msg'[u], pool')
      BY <1>1, <1>3, <1>4, <1>7, <1>9, AccountParts
    <2>2. \A u, v \in Threads : Holds(u)' /\ Holds(v)' /\ msg'[u] = msg'[v] => u = v
      BY <1>1, <1>9, AccountParts
    <2>3. \A d \in Cells : \/ In(d, order') \/ In(d, pool')
                           \/ \E u \in Threads : Holds(u)' /\ msg'[u] = d
      BY <1>1, <1>4, <1>7, <1>9, AccountParts
    <2>4. \A d \in Cells : ~(In(d, order') /\ In(d, pool'))
      BY <1>4, <1>7, AccountParts
    <2> QED BY <1>4, <1>7, <2>1, <2>2, <2>3, <2>4 DEF CellsAccounted, HeldCells
  <1>11. TailReady'
    <2> SUFFICES ASSUME NEW u \in Threads, pc[u] = "send_link", ~urgent[u]
                 PROVE  next'[msg[u]] = NULL
      BY <1>1 DEF TailReady
    <2>1. Holds(u)
      BY DEF Holds
    <2>2. msg[u] \in Cells /\ msg[u] # c
      BY <1>3, <2>1, AccountParts
    <2> QED BY <1>5, <2>2 DEF Whole, TailReady
  <1> QED BY <1>1, <1>4, <1>5, <1>7, <1>8, <1>10, <1>11 DEF Whole

(* A reset is over.                                                        *)
LEMMA ResetEndWhole ==
  ASSUME Whole, Waiting, ResetEnd
  PROVE  Whole'
  <1>1. /\ msg_queue_head = NULL /\ entry' = 0
        /\ UNCHANGED <<msg_queue_head, msg_queue_tail, order, free, next, pc, msg, urgent>>
    BY DEF ResetEnd, args
  <1>2. Len(order) = 0
    <2>1. order = <<>>
      BY <1>1, EmptyList DEF Whole, ListsIntact
    <2> QED BY <2>1, EmptySeq
  <1>3. ListsIntact'
    BY <1>1, <1>2 DEF Whole, ListsIntact, free
  <1>4. CellsAccounted' /\ HeldCells' /\ TailReady'
    BY <1>1 DEF Whole, CellsAccounted, HeldCells, TailReady, Holds, free
  <1> QED BY <1>1, <1>3, <1>4 DEF Whole, free
-----------------------------------------------------------------------------
(* Local: the variables of the threads have their types, and a thread that *)
(* sleeps has not failed yet.                                              *)
Local ==
  /\ data \in [Cells -> Msgs \cup {NoMsg}]
  /\ buffer \in [Threads -> Msgs \cup {NoMsg}]
  /\ timeout \in [Threads -> Timeouts]
  /\ urgent \in [Threads -> BOOLEAN]
  /\ error \in [Threads -> {RT_EOK, RT_ETIMEOUT, RT_ERROR}]
  /\ resetting \in BOOLEAN
  /\ \A t \in Threads : pc[t] \in {"send_wait", "recv_wait"} => error[t] = RT_EOK

(* A thread looks for a free cell, or for a message.                       *)
Sending(t)   == pc[t] = "send" \/ (pc[t] = "send_resumed" /\ error[t] = RT_EOK)
Receiving(t) == pc[t] = "recv" \/ (pc[t] = "recv_resumed" /\ error[t] = RT_EOK)

(* The steps of a thread, its loops unfolded.                              *)
ThreadStep(t) ==
  \/ \E m \in Msgs, to \in Timeouts, u \in BOOLEAN : CallSend(t, m, to, u)
  \/ \E to \in Timeouts : CallRecv(t, to)
  \/ ResetBegin(t) \/ WaitTimeout(t)
  \/ Sending(t) /\ (TakeCell(t) \/ \E to \in Timeouts : SendFull(t, to) \/ SendSuspend(t, to))
  \/ SendError(t) \/ SendCopy(t) \/ SendLink(t)
  \/ Receiving(t) /\ (Unlink(t) \/ \E to \in Timeouts : RecvEmpty(t, to) \/ RecvSuspend(t, to))
  \/ RecvError(t) \/ RecvCopy(t) \/ RecvFree(t)

(* Every step is one of these.                                             *)
LEMMA Steps ==
  ASSUME [Next]_vars, timeout \in [Threads -> Timeouts]
  PROVE  \/ ~resetting /\ \E t \in Threads : ThreadStep(t)
         \/ ~resetting /\ \E m \in Msgs : IsrSend(m)
         \/ ResetCell \/ ResetEnd \/ UNCHANGED vars
  <1>1. ASSUME NEW t \in Threads, Run(t) PROVE ~resetting /\ ThreadStep(t)
    <2>1. \A to \in Left(timeout[t]) : to \in Timeouts
      BY DEF Left, Timeouts
    <2>2. CASE Send(t) \/ SendResumed(t)
      <3>1. PICK to \in Timeouts : SendLoop(t, to)
        BY <2>1, <2>2 DEF Send, SendResumed
      <3>2. Sending(t)
        BY <2>2 DEF Send, SendResumed, Sending
      <3> QED BY <1>1, <3>1, <3>2 DEF SendLoop, ThreadStep, Run
    <2>3. CASE Recv(t) \/ RecvResumed(t)
      <3>1. PICK to \in Timeouts : RecvLoop(t, to)
        BY <2>1, <2>3 DEF Recv, RecvResumed
      <3>2. Receiving(t)
        BY <2>3 DEF Recv, RecvResumed, Receiving
      <3> QED BY <1>1, <3>1, <3>2 DEF RecvLoop, ThreadStep, Run
    <2> QED BY <1>1, <2>2, <2>3 DEF Run, ThreadStep
  <1>2. ASSUME NEW t \in Threads, Call(t) PROVE ~resetting /\ ThreadStep(t)
    BY <1>2 DEF Call, ThreadStep
  <1>3. ASSUME Interrupt
        PROVE  ~resetting /\ ((\E m \in Msgs : IsrSend(m)) \/ \E t \in Threads : ThreadStep(t))
    BY <1>3 DEF Interrupt, ThreadStep
  <1> QED BY <1>1, <1>2, <1>3 DEF Next, Reset

(* The types of the threads' variables.                                    *)
LEMMA LocalStep == Local /\ Whole /\ Waiting /\ [Next]_vars => Local'
  <1> SUFFICES ASSUME Local, Whole, Waiting, [Next]_vars PROVE Local'
    OBVIOUS
  <1> DEFINE Type ==
               /\ data \in [Cells -> Msgs \cup {NoMsg}] /\ buffer \in [Threads -> Msgs \cup {NoMsg}]
               /\ timeout \in [Threads -> Timeouts] /\ urgent \in [Threads -> BOOLEAN]
               /\ error \in [Threads -> {RT_EOK, RT_ETIMEOUT, RT_ERROR}]
               /\ pc \in [Threads -> Stages] /\ resetting \in BOOLEAN
  <1>0. Type /\ \A t \in Threads : pc[t] \in {"send_wait", "recv_wait"} => error[t] = RT_EOK
    BY DEF Local, Waiting
  <1>1. ASSUME NEW t \in Threads, \E m \in Msgs, to \in Timeouts, u \in BOOLEAN : CallSend(t, m, to, u)
        PROVE  Local'
    BY <1>0, <1>1 DEF CallSend, Local, Stages
  <1>2. ASSUME NEW t \in Threads, \E to \in Timeouts : CallRecv(t, to) PROVE Local'
    BY <1>0, <1>2 DEF CallRecv, Local, Stages
  <1>3. ASSUME NEW t \in Threads, ResetBegin(t) PROVE Local'
    BY <1>0, <1>3 DEF ResetBegin, args, Local, Stages
  <1>4. ASSUME NEW t \in Threads, WaitTimeout(t) PROVE Local'
    BY <1>0, <1>4 DEF WaitTimeout, args, Local, Stages
  <1>5. ASSUME NEW t \in Threads, TakeCell(t) PROVE Local'
    BY <1>0, <1>5 DEF TakeCell, args, Local, Stages
  <1>6. ASSUME NEW t \in Threads, NEW to \in Timeouts, SendFull(t, to) PROVE Local'
    BY <1>0, <1>6 DEF SendFull, ForgetArgs, Local, Stages, Timeouts
  <1>7. ASSUME NEW t \in Threads, NEW to \in Timeouts, SendSuspend(t, to) PROVE Local'
    BY <1>0, <1>7 DEF SendSuspend, Local, Stages
  <1>8. ASSUME NEW t \in Threads, SendError(t) PROVE Local'
    BY <1>0, <1>8 DEF SendError, ForgetArgs, Local, Stages, Timeouts
  <1>9. ASSUME NEW t \in Threads, SendCopy(t) PROVE Local'
    BY <1>0, <1>9 DEF SendCopy, args, Local, Stages
  <1>10. ASSUME NEW t \in Threads, SendLink(t) PROVE Local'
    <2>1. [pc EXCEPT ![t] = "idle"] \in [Threads -> Stages] /\ ResumeReceiver([pc EXCEPT ![t] = "idle"])
      BY <1>0, <1>10 DEF SendLink, Stages
    <2>2. \A u \in Threads : pc'[u] \in {"send_wait", "recv_wait"} => pc[u] = pc'[u]
      BY <1>0, <2>1, ResumeReceiverStages
    <2>3. UNCHANGED <<data, error, resetting>> /\ ForgetArgs(t)
      BY <1>10 DEF SendLink
    <2> QED BY <1>0, <2>2, <2>3 DEF ForgetArgs, Local, Timeouts
  <1>11. ASSUME NEW t \in Threads, Unlink(t) PROVE Local'
    BY <1>0, <1>11 DEF Unlink, args, Local, Stages
  <1>12. ASSUME NEW t \in Threads, NEW to \in Timeouts, RecvEmpty(t, to) PROVE Local'
    BY <1>0, <1>12 DEF RecvEmpty, ForgetArgs, Local, Stages, Timeouts
  <1>13. ASSUME NEW t \in Threads, NEW to \in Timeouts, RecvSuspend(t, to) PROVE Local'
    BY <1>0, <1>13 DEF RecvSuspend, Local, Stages
  <1>14. ASSUME NEW t \in Threads, RecvError(t) PROVE Local'
    BY <1>0, <1>14 DEF RecvError, ForgetArgs, Local, Stages, Timeouts
  <1>15. ASSUME NEW t \in Threads, RecvCopy(t) PROVE Local'
    <2>1. msg[t] \in Cells
      BY <1>15 DEF RecvCopy, Whole, HeldCells, Holds
    <2> QED BY <1>0, <1>15, <2>1 DEF RecvCopy, Local, Stages
  <1>16. ASSUME NEW t \in Threads, RecvFree(t) PROVE Local'
    <2>1. [pc EXCEPT ![t] = "idle"] \in [Threads -> Stages] /\ ResumeSender([pc EXCEPT ![t] = "idle"])
      BY <1>0, <1>16 DEF RecvFree, Stages
    <2>2. \A u \in Threads : pc'[u] \in {"send_wait", "recv_wait"} => pc[u] = pc'[u]
      BY <1>0, <2>1, ResumeSenderStages
    <2>3. UNCHANGED <<data, error, resetting>> /\ ForgetArgs(t)
      BY <1>16 DEF RecvFree
    <2> QED BY <1>0, <2>2, <2>3 DEF ForgetArgs, Local, Timeouts
  <1>17. ASSUME NEW m \in Msgs, IsrSend(m) PROVE Local'
    <2>1. \A u \in Threads : pc'[u] \in {"send_wait", "recv_wait"} => pc[u] = pc'[u]
      BY <1>0, <1>17, ResumeReceiverStages DEF IsrSend
    <2>2. data' = [data EXCEPT ![msg_queue_free] = m] /\ UNCHANGED <<args, error, resetting>>
      BY <1>17 DEF IsrSend
    <2> QED BY <1>0, <2>1, <2>2 DEF Local, args
  <1>18. ASSUME ResetCell \/ ResetEnd \/ UNCHANGED vars PROVE Local'
    BY <1>0, <1>18 DEF ResetCell, ResetEnd, vars, args, Local
  <1> QED BY <1>0, <1>1, <1>2, <1>3, <1>4, <1>5, <1>6, <1>7, <1>8, <1>9, <1>10, <1>11, <1>12,
             <1>13, <1>14, <1>15, <1>16, <1>17, <1>18, Steps DEF ThreadStep

(* The lists stay whole in every step.                                     *)
LEMMA WholeStep == Whole /\ Waiting /\ Local /\ [Next]_vars => Whole'
  <1> SUFFICES ASSUME Whole, Waiting, Local, [Next]_vars PROVE Whole'
    OBVIOUS
  <1>1. ASSUME NEW t \in Threads,
               \/ \E m, to, u : CallSend(t, m, to, u)
               \/ \E to : CallRecv(t, to)
               \/ WaitTimeout(t)
               \/ Sending(t) /\ \E to : SendFull(t, to) \/ SendSuspend(t, to)
               \/ SendError(t)
               \/ Receiving(t) /\ \E to : RecvEmpty(t, to) \/ RecvSuspend(t, to)
               \/ RecvError(t) \/ RecvCopy(t)
        PROVE  Whole'
    <2>1. UNCHANGED <<list, free, next, msg, resetting>>
      BY <1>1 DEF CallSend, CallRecv, WaitTimeout, SendFull, SendSuspend, SendError,
                  RecvEmpty, RecvSuspend, RecvError, RecvCopy
    <2>2. \A u \in Threads \ {t} : pc'[u] = pc[u] /\ urgent'[u] = urgent[u]
      BY <1>1 DEF CallSend, CallRecv, WaitTimeout, SendFull, SendSuspend, SendError,
                  RecvEmpty, RecvSuspend, RecvError, RecvCopy, ForgetArgs, args, Local, Waiting
    <2>3. (Holds(t)' <=> Holds(t)) /\ pc'[t] # "send_link"
      BY <1>1 DEF CallSend, CallRecv, WaitTimeout, SendFull, SendSuspend, SendError, RecvEmpty,
                  RecvSuspend, RecvError, RecvCopy, Waiting, Holds, Sending, Receiving
    <2>4. \A u \in Threads : Holds(u)' <=> Holds(u)
      BY <2>2, <2>3 DEF Holds
    <2> QED BY <2>1, <2>2, <2>3, <2>4, WholeFrame
  <1>2. ASSUME NEW t \in Threads, ResetBegin(t) PROVE Whole'
    <2>1. UNCHANGED <<list, free, next, msg, urgent>> /\ resetting'
      BY <1>2 DEF ResetBegin, args
    <2>2. \A u \in Threads : (Holds(u)' <=> Holds(u)) /\ (pc'[u] = "send_link" => pc[u] = "send_link")
      BY <1>2 DEF ResetBegin, Holds, Waiting
    <2> QED BY <2>1, <2>2, WholeFrame
  <1>3. ASSUME NEW t \in Threads, Sending(t), TakeCell(t) PROVE Whole'
    BY <1>3, TakeCellWhole DEF Sending
  <1>4. ASSUME NEW t \in Threads, Receiving(t), Unlink(t), ~resetting PROVE Whole'
    BY <1>4, UnlinkWhole DEF Receiving
  <1>5. ASSUME NEW t \in Threads, SendLink(t), ~resetting PROVE Whole'
    BY <1>5, SendLinkWhole DEF Local
  <1>6. ASSUME UNCHANGED vars PROVE Whole'
    BY <1>6, WholeFrame DEF vars, args, Holds
  <1> QED BY <1>1, <1>2, <1>3, <1>4, <1>5, <1>6, SendCopyWhole, RecvFreeWhole, IsrSendWhole,
             ResetCellWhole, ResetEndWhole, Steps DEF ThreadStep, Local

(* The initial state.                                                      *)
LEMMA InitHolds == Init => Waiting /\ Whole /\ Local
  <1> SUFFICES ASSUME Init PROVE Waiting /\ Whole /\ Local
    OBVIOUS
  <1>1. Waiting /\ Local
    <2>1. <<>> \in Seq(Threads) /\ Distinct(<<>>)
      BY EmptySeq DEF Distinct
    <2>2. Waiting
      BY <2>1, NobodyWaits DEF Init, Waiting, Stages
    <2> QED BY <2>2 DEF Init, Local, Timeouts
  <1>2. Cardinality(Cells) \in Nat
    BY FS_CardinalityType
  <1>3. pool \in Seq(Cells) /\ Len(pool) = Cardinality(Cells)
    <2> DEFINE n == Cardinality(Cells)
    <2>1. n \in Nat
      BY <1>2
    <2>2. pool \in [1 .. n -> Cells]
      BY DEF Init, IsFreeList
    <2> HIDE DEF n
    <2>3. pool \in Seq(Cells) /\ Len(pool) = n
      BY <2>1, <2>2
    <2> QED BY <2>3 DEF n
  <1>4. \A c \in Cells : In(c, pool)
    BY <1>3 DEF Init, IsFreeList, In
  <1>5. Distinct(pool)
    <2>1. pool \in Surjection(1 .. Cardinality(Cells), Cells)
      BY DEF Init, IsFreeList, Surjection
    <2>2. IsFiniteSet(1 .. Cardinality(Cells)) /\ Cardinality(1 .. Cardinality(Cells)) = Cardinality(Cells)
      BY <1>2, FS_Interval
    <2>3. pool \in Injection(1 .. Cardinality(Cells), Cells)
      BY <2>1, <2>2, FS_Surjection
    <2> QED BY <1>3, <2>3 DEF Injection, IsInjective, Distinct
  <1>6. ListsIntact
    BY EmptySeq DEF Init, ListsIntact, Linked, FirstOf, LastOf
  <1>7. CellsAccounted /\ HeldCells /\ TailReady
    BY <1>4, <1>5, EmptySeq, NobodyWaits DEF Init, CellsAccounted, HeldCells, TailReady, Distinct, Holds
  <1> QED BY <1>1, <1>3, <1>6, <1>7, EmptySeq DEF Init, Whole, Pointers

Inv == Waiting /\ Whole /\ Local

(* The inductive invariant.                                                *)
LEMMA Invariant == Spec => []Inv
  <1>1. Init => Inv
    BY InitHolds DEF Inv
  <1>2. Inv /\ [Next]_vars => Inv'
    BY WaitingStep, WholeStep, LocalStep DEF Inv
  <1> QED BY <1>1, <1>2, PTL DEF Spec

(* Type correctness of the message queue.                                  *)
THEOREM TypeCorrect == Spec => []TypeOK
  <1>1. Inv => TypeOK
    BY EmptyList DEF Inv, Waiting, Whole, Local, ListsIntact, TypeOK, Pointers
  <1> QED BY <1>1, Invariant, PTL

(* The lists are whole whatever happens while a message is copied.         *)
THEOREM ListsStayIntact == Spec => []ListsIntact
  <1>1. Inv => ListsIntact
    BY DEF Inv, Whole
  <1> QED BY <1>1, Invariant, PTL

(* No cell is lost and none is handed out twice.                           *)
THEOREM CellsConserved == Spec => []CellsAccounted
  <1>1. Inv => CellsAccounted
    BY DEF Inv, Whole
  <1> QED BY <1>1, Invariant, PTL
-----------------------------------------------------------------------------
(* Wake-ups.                                                               *)

ReceiverWoken == suspend_thread # <<>> => entry <= Cardinality(ResumedReceivers)
SenderWoken   == suspend_sender_thread # <<>> => Len(pool) <= Cardinality(ResumedSenders)

(* Adding a thread to a set of threads, and taking one out.                *)
LEMMA CountThreads ==
  ASSUME NEW S, S \subseteq Threads, NEW t \in Threads
  PROVE  /\ Cardinality(S) \in Nat
         /\ t \notin S => Cardinality(S \cup {t}) = Cardinality(S) + 1
         /\ Cardinality(S) <= Cardinality(S \ {t}) + 1
         /\ Cardinality(S \ {t}) \in Nat
         /\ t \notin S => S \ {t} = S
  <1>1. IsFiniteSet(S)
    BY FS_Subset
  <1>2. Cardinality(S) \in Nat
    BY <1>1, FS_CardinalityType
  <1>3. t \notin S => Cardinality(S \cup {t}) = Cardinality(S) + 1
    BY <1>1, FS_AddElement
  <1>4. /\ IsFiniteSet(S \ {t})
        /\ Cardinality(S \ {t}) = IF t \in S THEN Cardinality(S) - 1 ELSE Cardinality(S)
    BY <1>1, FS_RemoveElement
  <1>5. Cardinality(S \ {t}) \in Nat
    BY <1>4, FS_CardinalityType
  <1> QED BY <1>2, <1>3, <1>4, <1>5

(* A message resumes one more receiver.                                    *)
LEMMA OneMoreReceiver ==
  ASSUME Inv, ReceiverWoken, NEW base \in [Threads -> Stages], ResumeReceiver(base),
         \A u \in Threads : base[u] = "recv_resumed" <=> pc[u] = "recv_resumed",
         UNCHANGED error, entry' = entry + 1
  PROVE  ReceiverWoken'
  <1>1. CASE suspend_thread = <<>>
    BY <1>1 DEF ResumeReceiver, FirstWaiting, ReceiverWoken
  <1>2. CASE suspend_thread # <<>>
    <2> DEFINE h == Head(suspend_thread)
    <2>1. pc' = [t \in Threads |-> IF t = h THEN "recv_resumed" ELSE base[t]]
      BY <1>2 DEF ResumeReceiver, FirstWaiting
    <2>2. h \in Threads /\ pc[h] = "recv_wait"
      BY <1>2, WaitTail DEF Inv, Waiting
    <2>3. error[h] = RT_EOK
      BY <2>2 DEF Inv, Local
    <2> HIDE DEF h
    <2>4. ResumedReceivers' = ResumedReceivers \cup {h} /\ h \notin ResumedReceivers
      BY <2>1, <2>2, <2>3 DEF ResumedReceivers
    <2>5. /\ Cardinality(ResumedReceivers) \in Nat
          /\ Cardinality(ResumedReceivers') = Cardinality(ResumedReceivers) + 1
      <3>1. ResumedReceivers \subseteq Threads
        BY DEF ResumedReceivers
      <3> QED BY <2>2, <2>4, <3>1, CountThreads
    <2>6. entry \in Nat /\ entry <= Cardinality(ResumedReceivers)
      BY <1>2 DEF Inv, Whole, ReceiverWoken
    <2> QED BY <2>5, <2>6 DEF ReceiverWoken
  <1> QED BY <1>1, <1>2

(* A freed cell resumes one more sender.                                   *)
LEMMA OneMoreSender ==
  ASSUME Inv, SenderWoken, NEW base \in [Threads -> Stages], ResumeSender(base),
         \A u \in Threads : base[u] = "send_resumed" <=> pc[u] = "send_resumed",
         UNCHANGED error, Len(pool') = Len(pool) + 1
  PROVE  SenderWoken'
  <1>1. CASE suspend_sender_thread = <<>>
    BY <1>1 DEF ResumeSender, FirstWaiting, SenderWoken
  <1>2. CASE suspend_sender_thread # <<>>
    <2> DEFINE h == Head(suspend_sender_thread)
    <2>1. pc' = [t \in Threads |-> IF t = h THEN "send_resumed" ELSE base[t]]
      BY <1>2 DEF ResumeSender, FirstWaiting
    <2>2. h \in Threads /\ pc[h] = "send_wait"
      BY <1>2, WaitTail DEF Inv, Waiting
    <2>3. error[h] = RT_EOK
      BY <2>2 DEF Inv, Local
    <2> HIDE DEF h
    <2>4. ResumedSenders' = ResumedSenders \cup {h} /\ h \notin ResumedSenders
      BY <2>1, <2>2, <2>3 DEF ResumedSenders
    <2>5. /\ Cardinality(ResumedSenders) \in Nat
          /\ Cardinality(ResumedSenders') = Cardinality(ResumedSenders) + 1
      <3>1. ResumedSenders \subseteq Threads
        BY DEF ResumedSenders
      <3> QED BY <2>2, <2>4, <3>1, CountThreads
    <2>6. Len(pool) \in Nat /\ Len(pool) <= Cardinality(ResumedSenders)
      BY <1>2, LenProperties DEF Inv, Whole, SenderWoken
    <2> QED BY <2>5, <2>6 DEF SenderWoken
  <1> QED BY <1>1, <1>2

(* Receivers in every step.                                                *)
LEMMA ReceiverStep == Inv /\ ReceiverWoken /\ [Next]_vars => ReceiverWoken'
  <1> SUFFICES ASSUME Inv, ReceiverWoken, [Next]_vars PROVE ReceiverWoken'
    OBVIOUS
  <1>0. /\ pc \in [Threads -> Stages] /\ error \in [Threads -> {RT_EOK, RT_ETIMEOUT, RT_ERROR}]
        /\ entry \in Nat /\ timeout \in [Threads -> Timeouts]
        /\ suspend_thread \in Seq(Threads) /\ Distinct(suspend_thread)
        /\ ResumedReceivers \subseteq Threads
    BY DEF Inv, Waiting, Whole, Local, ResumedReceivers
  <1>1. ASSUME NEW t \in Threads,
               \/ \E m, to, u : CallSend(t, m, to, u)
               \/ \E to : CallRecv(t, to)
               \/ Sending(t) /\ (TakeCell(t) \/ \E to : SendFull(t, to) \/ SendSuspend(t, to))
               \/ SendError(t) \/ SendCopy(t) \/ RecvError(t) \/ RecvCopy(t)
        PROVE  ReceiverWoken'
    <2>1. /\ entry' = entry /\ suspend_thread' = suspend_thread
          /\ \A u \in Threads \ {t} : pc'[u] = pc[u] /\ error'[u] = error[u]
          /\ pc'[t] # "recv_resumed"
      BY <1>0, <1>1 DEF CallSend, CallRecv, TakeCell, SendFull, SendSuspend, SendError, SendCopy,
                        RecvError, RecvCopy, list, wait
    <2>2. t \notin ResumedReceivers
      BY <1>1 DEF ResumedReceivers, CallSend, CallRecv, Sending, SendError, SendCopy, RecvError, RecvCopy
    <2>3. ResumedReceivers' = ResumedReceivers
      BY <2>1, <2>2 DEF ResumedReceivers
    <2> QED BY <2>1, <2>3 DEF ReceiverWoken
  <1>2. ASSUME NEW t \in Threads, WaitTimeout(t) PROVE ReceiverWoken'
    <2>1. /\ entry' = entry /\ pc[t] \in {"send_wait", "recv_wait"}
          /\ pc'[t] \in {"send_resumed", "recv_resumed"} /\ error'[t] = RT_ETIMEOUT
          /\ \A u \in Threads \ {t} : pc'[u] = pc[u] /\ error'[u] = error[u]
      BY <1>0, <1>2 DEF WaitTimeout, list
    <2>2. ResumedReceivers' = ResumedReceivers
      BY <2>1 DEF ResumedReceivers, RT_EOK, RT_ETIMEOUT
    <2>3. suspend_thread' # <<>> => suspend_thread # <<>>
      <3>1. CASE pc[t] = "send_wait"
        BY <1>2, <3>1 DEF WaitTimeout
      <3>2. CASE pc[t] = "recv_wait"
        <4>1. In(t, suspend_thread) /\ suspend_thread' = Without(suspend_thread, t)
          BY <1>2, <3>2 DEF WaitTimeout, Inv, Waiting
        <4> QED BY <1>0, <4>1, WaitRemove
      <3> QED BY <2>1, <3>1, <3>2
    <2> QED BY <2>1, <2>2, <2>3 DEF ReceiverWoken
  <1>3. ASSUME NEW t \in Threads, ResetBegin(t) PROVE ReceiverWoken'
    BY <1>3 DEF ResetBegin, ReceiverWoken
  <1>4. ASSUME NEW t \in Threads, SendLink(t) PROVE ReceiverWoken'
    <2> DEFINE base == [pc EXCEPT ![t] = "idle"]
    <2>1. base \in [Threads -> Stages] /\ \A u \in Threads : base[u] = "recv_resumed" <=> pc[u] = "recv_resumed"
      BY <1>0, <1>4 DEF SendLink, Stages
    <2>2. ResumeReceiver(base) /\ UNCHANGED error /\ entry' = entry + 1
      BY <1>4 DEF SendLink
    <2> QED BY <2>1, <2>2, OneMoreReceiver
  <1>5. ASSUME NEW m, IsrSend(m) PROVE ReceiverWoken'
    <2>1. ResumeReceiver(pc) /\ UNCHANGED error /\ entry' = entry + 1
      BY <1>5 DEF IsrSend
    <2> QED BY <1>0, <2>1, OneMoreReceiver
  <1>6. ASSUME NEW t \in Threads, Unlink(t) PROVE ReceiverWoken'
    <2>1. /\ entry' = entry - 1 /\ entry > 0 /\ suspend_thread' = suspend_thread
          /\ pc' = [pc EXCEPT ![t] = "recv_copy"] /\ error' = error
      BY <1>6 DEF Unlink, wait
    <2>2. ResumedReceivers' = ResumedReceivers \ {t}
      BY <1>0, <2>1 DEF ResumedReceivers
    <2>3. /\ Cardinality(ResumedReceivers) \in Nat /\ Cardinality(ResumedReceivers') \in Nat
          /\ Cardinality(ResumedReceivers) <= Cardinality(ResumedReceivers') + 1
      BY <1>0, <2>2, CountThreads
    <2> QED BY <1>0, <2>1, <2>3 DEF ReceiverWoken
  <1>7. ASSUME NEW t \in Threads, NEW to, RecvEmpty(t, to) \/ RecvSuspend(t, to) PROVE ReceiverWoken'
    <2>1. entry' = 0
      BY <1>7 DEF RecvEmpty, RecvSuspend, list
    <2>2. ResumedReceivers' \subseteq Threads
      BY DEF ResumedReceivers
    <2>3. Cardinality(ResumedReceivers') \in Nat
      BY <2>2, CountThreads
    <2> QED BY <2>1, <2>3 DEF ReceiverWoken
  <1>8. ASSUME NEW t \in Threads, RecvFree(t) PROVE ReceiverWoken'
    <2>1. [pc EXCEPT ![t] = "idle"] \in [Threads -> Stages] /\ pc[t] = "recv_free"
      BY <1>0, <1>8 DEF RecvFree, Stages
    <2>2. \A u \in Threads : \/ pc'[u] = [pc EXCEPT ![t] = "idle"][u]
                             \/ pc[u] = "send_wait" /\ pc'[u] = "send_resumed"
      BY <1>8, <2>1, ResumeSenderStages DEF RecvFree, Inv
    <2>3. entry' = entry /\ error' = error /\ suspend_thread' = suspend_thread
      BY <1>8 DEF RecvFree, list
    <2>4. ResumedReceivers' = ResumedReceivers
      BY <1>0, <2>1, <2>2, <2>3 DEF ResumedReceivers
    <2> QED BY <2>3, <2>4 DEF ReceiverWoken
  <1>9. ASSUME ResetCell \/ ResetEnd PROVE ReceiverWoken'
    BY <1>9 DEF ResetCell, ResetEnd, wait, ReceiverWoken, Inv, Waiting
  <1>10. ASSUME UNCHANGED vars PROVE ReceiverWoken'
    BY <1>10 DEF vars, list, wait, ReceiverWoken, ResumedReceivers
  <1> QED BY <1>0, <1>1, <1>2, <1>3, <1>4, <1>5, <1>6, <1>7, <1>8, <1>9, <1>10, Steps DEF ThreadStep

(* Senders in every step.                                                  *)
LEMMA SenderStep == Inv /\ SenderWoken /\ [Next]_vars => SenderWoken'
  <1> SUFFICES ASSUME Inv, SenderWoken, [Next]_vars PROVE SenderWoken'
    OBVIOUS
  <1>0. /\ pc \in [Threads -> Stages] /\ error \in [Threads -> {RT_EOK, RT_ETIMEOUT, RT_ERROR}]
        /\ pool \in Seq(Cells) /\ Len(pool) \in Nat /\ timeout \in [Threads -> Timeouts]
        /\ suspend_sender_thread \in Seq(Threads) /\ Distinct(suspend_sender_thread)
        /\ ResumedSenders \subseteq Threads /\ msg_queue_free = FirstOf(pool)
    BY LenProperties DEF Inv, Waiting, Whole, Local, ResumedSenders, ListsIntact
  <1>1. ASSUME NEW t \in Threads,
               \/ \E m, to, u : CallSend(t, m, to, u)
               \/ \E to : CallRecv(t, to)
               \/ Receiving(t) /\ (Unlink(t) \/ \E to : RecvEmpty(t, to) \/ RecvSuspend(t, to))
               \/ SendError(t) \/ SendCopy(t) \/ RecvError(t) \/ RecvCopy(t)
        PROVE  SenderWoken'
    <2>1. /\ pool' = pool /\ suspend_sender_thread' = suspend_sender_thread
          /\ \A u \in Threads \ {t} : pc'[u] = pc[u] /\ error'[u] = error[u]
          /\ pc'[t] # "send_resumed"
      BY <1>0, <1>1 DEF CallSend, CallRecv, Unlink, RecvEmpty, RecvSuspend, SendError, SendCopy,
                        RecvError, RecvCopy, free, wait
    <2>2. t \notin ResumedSenders
      BY <1>1 DEF ResumedSenders, CallSend, CallRecv, Receiving, SendError, SendCopy, RecvError, RecvCopy
    <2>3. ResumedSenders' = ResumedSenders
      BY <2>1, <2>2 DEF ResumedSenders
    <2> QED BY <2>1, <2>3 DEF SenderWoken
  <1>2. ASSUME NEW t \in Threads, WaitTimeout(t) PROVE SenderWoken'
    <2>1. /\ pool' = pool /\ pc[t] \in {"send_wait", "recv_wait"}
          /\ pc'[t] \in {"send_resumed", "recv_resumed"} /\ error'[t] = RT_ETIMEOUT
          /\ \A u \in Threads \ {t} : pc'[u] = pc[u] /\ error'[u] = error[u]
      BY <1>0, <1>2 DEF WaitTimeout, free
    <2>2. ResumedSenders' = ResumedSenders
      BY <2>1 DEF ResumedSenders, RT_EOK, RT_ETIMEOUT
    <2>3. suspend_sender_thread' # <<>> => suspend_sender_thread # <<>>
      <3>1. CASE pc[t] = "recv_wait"
        BY <1>2, <3>1 DEF WaitTimeout
      <3>2. CASE pc[t] = "send_wait"
        <4>1. /\ In(t, suspend_sender_thread)
              /\ suspend_sender_thread' = Without(suspend_sender_thread, t)
          BY <1>2, <3>2 DEF WaitTimeout, Inv, Waiting
        <4> QED BY <1>0, <4>1, WaitRemove
      <3> QED BY <2>1, <3>1, <3>2
    <2> QED BY <2>1, <2>2, <2>3 DEF SenderWoken
  <1>3. ASSUME NEW t \in Threads, ResetBegin(t) PROVE SenderWoken'
    BY <1>3 DEF ResetBegin, SenderWoken
  <1>4. ASSUME NEW t \in Threads, RecvFree(t) PROVE SenderWoken'
    <2> DEFINE base == [pc EXCEPT ![t] = "idle"]
    <2>1. base \in [Threads -> Stages] /\ \A u \in Threads : base[u] = "send_resumed" <=> pc[u] = "send_resumed"
      BY <1>0, <1>4 DEF RecvFree, Stages
    <2>2. ResumeSender(base) /\ UNCHANGED error /\ pool' = <<msg[t]>> \o pool /\ msg[t] \in Cells
      BY <1>4 DEF RecvFree, Inv, Whole, HeldCells, Holds
    <2>3. Len(pool') = Len(pool) + 1
      <3>1. <<msg[t]>> \in Seq(Cells) /\ Len(<<msg[t]>>) = 1
        BY <2>2
      <3>2. Len(<<msg[t]>> \o pool) = Len(<<msg[t]>>) + Len(pool)
        BY <1>0, <3>1, ConcatProperties
      <3> QED BY <1>0, <2>2, <3>1, <3>2
    <2> QED BY <2>1, <2>2, <2>3, OneMoreSender
  <1>5. ASSUME msg_queue_free # NULL, pool' = Tail(pool) PROVE Len(pool') = Len(pool) - 1 /\ Len(pool) > 0
    <2>1. pool # <<>>
      BY <1>0, <1>5, EmptyList
    <2> QED BY <1>0, <1>5, <2>1, HeadTailProperties, EmptyList
  <1>6. ASSUME NEW t \in Threads, TakeCell(t) PROVE SenderWoken'
    <2>1. /\ Len(pool') = Len(pool) - 1 /\ Len(pool) > 0
          /\ suspend_sender_thread' = suspend_sender_thread
          /\ pc' = [pc EXCEPT ![t] = "send_copy"] /\ error' = error
      BY <1>5, <1>6 DEF TakeCell, wait
    <2>2. ResumedSenders' = ResumedSenders \ {t}
      BY <1>0, <2>1 DEF ResumedSenders
    <2>3. /\ Cardinality(ResumedSenders) \in Nat /\ Cardinality(ResumedSenders') \in Nat
          /\ Cardinality(ResumedSenders) <= Cardinality(ResumedSenders') + 1
      BY <1>0, <2>2, CountThreads
    <2> QED BY <1>0, <2>1, <2>3 DEF SenderWoken
  <1>7. ASSUME NEW t \in Threads, NEW to, SendFull(t, to) \/ SendSuspend(t, to) PROVE SenderWoken'
    <2>1. Len(pool') = 0
      <3>1. pool' = pool /\ msg_queue_free = NULL
        BY <1>7 DEF SendFull, SendSuspend, free
      <3>2. pool = <<>>
        BY <1>0, <3>1, EmptyList
      <3> QED BY <3>1, <3>2, EmptySeq
    <2>2. ResumedSenders' \subseteq Threads
      BY DEF ResumedSenders
    <2>3. Cardinality(ResumedSenders') \in Nat
      BY <2>2, CountThreads
    <2> QED BY <2>1, <2>3 DEF SenderWoken
  <1>8. ASSUME NEW base \in [Threads -> Stages], ResumeReceiver(base), UNCHANGED error,
               \A u \in Threads : base[u] = "send_resumed" <=> pc[u] = "send_resumed"
        PROVE  ResumedSenders' = ResumedSenders
    <2>1. \A u \in Threads : pc'[u] = base[u] \/ (pc[u] = "recv_wait" /\ pc'[u] = "recv_resumed")
      BY <1>8, ResumeReceiverStages DEF Inv
    <2> QED BY <1>8, <2>1 DEF ResumedSenders
  <1>9. ASSUME NEW t \in Threads, SendLink(t) PROVE SenderWoken'
    <2>1. /\ [pc EXCEPT ![t] = "idle"] \in [Threads -> Stages]
          /\ \A u \in Threads : [pc EXCEPT ![t] = "idle"][u] = "send_resumed" <=> pc[u] = "send_resumed"
      BY <1>0, <1>9 DEF SendLink, Stages
    <2>2. /\ ResumeReceiver([pc EXCEPT ![t] = "idle"]) /\ error' = error
          /\ pool' = pool /\ suspend_sender_thread' = suspend_sender_thread
      BY <1>9 DEF SendLink, free
    <2>3. ResumedSenders' = ResumedSenders
      BY <1>8, <2>1, <2>2
    <2> QED BY <2>2, <2>3 DEF SenderWoken
  <1>10. ASSUME NEW m, IsrSend(m) PROVE SenderWoken'
    <2>1. /\ ResumeReceiver(pc) /\ error' = error /\ suspend_sender_thread' = suspend_sender_thread
          /\ msg_queue_free # NULL /\ pool' = Tail(pool)
      BY <1>10 DEF IsrSend
    <2>2. ResumedSenders' = ResumedSenders
      BY <1>0, <1>8, <2>1
    <2>3. Len(pool') = Len(pool) - 1
      BY <1>5, <2>1
    <2>4. Cardinality(ResumedSenders) \in Nat
      <3>1. IsFiniteSet(ResumedSenders)
        BY <1>0, FS_Subset
      <3> QED BY <3>1, FS_CardinalityType
    <2> QED BY <1>0, <2>1, <2>2, <2>3, <2>4 DEF SenderWoken
  <1>11. ASSUME ResetCell \/ ResetEnd PROVE SenderWoken'
    BY <1>11 DEF ResetCell, ResetEnd, wait, SenderWoken, Inv, Waiting
  <1>12. ASSUME UNCHANGED vars PROVE SenderWoken'
    BY <1>12 DEF vars, free, wait, SenderWoken, ResumedSenders
  <1> QED BY <1>0, <1>1, <1>2, <1>3, <1>4, <1>6, <1>7, <1>9, <1>10, <1>11, <1>12, Steps DEF ThreadStep

(* No wake-up is lost: for every message (free cell) there is a receiver   *)
(* (sender) on its way as long as another one sleeps.                      *)
THEOREM WakeupsKept == Spec => []NoLostWakeup
  <1>1. Init => ReceiverWoken /\ SenderWoken
    BY DEF Init, ReceiverWoken, SenderWoken
  <1>2. Inv /\ ReceiverWoken /\ SenderWoken /\ [Next]_vars => (ReceiverWoken /\ SenderWoken)'
    BY ReceiverStep, SenderStep
  <1>3. ReceiverWoken /\ SenderWoken => NoLostWakeup
    BY DEF ReceiverWoken, SenderWoken, NoLostWakeup
  <1> QED BY <1>1, <1>2, <1>3, Invariant, PTL DEF Spec
-----------------------------------------------------------------------------
(* The queue the threads see.                                              *)

Data == Msgs \cup {NoMsg}

(* The messages of a list of cells.                                        *)
LEMMA ContentsList ==
  ASSUME NEW s \in Seq(Cells), NEW d \in [Cells -> Data]
  PROVE  /\ Contents(s, d) \in Seq(Data) /\ Len(Contents(s, d)) = Len(s) /\ Len(s) \in Nat
         /\ \A i \in 1 .. Len(s) : Contents(s, d)[i] = d[s[i]]
         /\ Contents(s, d) = <<>> <=> s = <<>>
  <1> DEFINE n == Len(s)
             q == Contents(s, d)
  <1>1. n \in Nat /\ \A i \in 1 .. n : s[i] \in Cells
    BY LenProperties
  <1>2. q \in [1 .. n -> Data] /\ \A i \in 1 .. n : q[i] = d[s[i]]
    BY <1>1 DEF Contents
  <1> HIDE DEF n, q
  <1>3. q \in Seq(Data) /\ Len(q) = n
    BY <1>1, <1>2
  <1>4. q = <<>> <=> n = 0
    BY <1>3, EmptySeq
  <1>5. s = <<>> <=> n = 0
    BY <1>1, EmptySeq DEF n
  <1> QED BY <1>1, <1>2, <1>3, <1>4, <1>5 DEF n, q

(* Data outside the list does not matter.                                  *)
LEMMA ContentsFrame ==
  ASSUME NEW s \in Seq(Cells), NEW d, NEW e, \A c \in Cells : In(c, s) => e[c] = d[c]
  PROVE  Contents(s, e) = Contents(s, d)
  <1>1. ASSUME NEW i \in 1 .. Len(s) PROVE s[i] \in Cells /\ In(s[i], s)
    BY ElementOfSeq DEF In
  <1> QED BY <1>1 DEF Contents

(* A cell behind the last one.                                             *)
LEMMA ContentsAppend ==
  ASSUME NEW s \in Seq(Cells), NEW d \in [Cells -> Data], NEW c \in Cells
  PROVE  Contents(Append(s, c), d) = Append(Contents(s, d), d[c])
  <1> DEFINE r == Append(s, c)
             q == Contents(s, d)
  <1>1. /\ r \in Seq(Cells) /\ Len(r) = Len(s) + 1 /\ Len(s) \in Nat
        /\ \A i \in 1 .. Len(s) : r[i] = s[i]
        /\ r[Len(s) + 1] = c
    BY LenProperties
  <1>2. q \in Seq(Data) /\ Len(q) = Len(s) /\ \A i \in 1 .. Len(s) : q[i] = d[s[i]]
    BY ContentsList
  <1> HIDE DEF r, q
  <1>3. /\ Append(q, d[c]) \in Seq(Data) /\ Len(Append(q, d[c])) = Len(s) + 1
        /\ \A i \in 1 .. Len(s) : Append(q, d[c])[i] = q[i]
        /\ Append(q, d[c])[Len(s) + 1] = d[c]
    BY <1>1, <1>2
  <1>4. /\ Contents(r, d) \in Seq(Data) /\ Len(Contents(r, d)) = Len(s) + 1
        /\ \A i \in 1 .. Len(s) + 1 : Contents(r, d)[i] = d[r[i]]
    BY <1>1, ContentsList
  <1>5. \A i \in 1 .. Len(s) + 1 : Contents(r, d)[i] = Append(q, d[c])[i]
    BY <1>1, <1>2, <1>3, <1>4
  <1> QED BY <1>3, <1>4, <1>5, SeqEqual DEF r, q

(* A cell before the first one.                                            *)
LEMMA ContentsPush ==
  ASSUME NEW s \in Seq(Cells), NEW d \in [Cells -> Data], NEW c \in Cells
  PROVE  Contents(<<c>> \o s, d) = <<d[c]>> \o Contents(s, d)
  <1> DEFINE r == <<c>> \o s
             q == Contents(s, d)
             p == <<d[c]>> \o q
  <1>1. <<c>> \in Seq(Cells) /\ Len(<<c>>) = 1 /\ <<c>>[1] = c /\ Len(s) \in Nat
    BY LenProperties
  <1>2. q \in Seq(Data) /\ Len(q) = Len(s) /\ \A i \in 1 .. Len(s) : q[i] = d[s[i]]
    BY ContentsList
  <1>3. <<d[c]>> \in Seq(Data) /\ Len(<<d[c]>>) = 1 /\ <<d[c]>>[1] = d[c]
    OBVIOUS
  <1>4. /\ r \in Seq(Cells) /\ Len(r) = Len(s) + 1
        /\ \A i \in 1 .. Len(s) + 1 : r[i] = IF i <= 1 THEN c ELSE s[i - 1]
    <2>1. /\ r \in Seq(Cells) /\ Len(r) = Len(<<c>>) + Len(s)
          /\ \A i \in 1 .. Len(<<c>>) + Len(s) :
               r[i] = IF i <= Len(<<c>>) THEN <<c>>[i] ELSE s[i - Len(<<c>>)]
      BY <1>1, ConcatProperties
    <2> QED BY <1>1, <2>1
  <1> HIDE DEF q
  <1>5. /\ p \in Seq(Data) /\ Len(p) = Len(s) + 1
        /\ \A i \in 1 .. Len(s) + 1 : p[i] = IF i <= 1 THEN d[c] ELSE q[i - 1]
    <2>1. /\ p \in Seq(Data) /\ Len(p) = Len(<<d[c]>>) + Len(q)
          /\ \A i \in 1 .. Len(<<d[c]>>) + Len(q) :
               p[i] = IF i <= Len(<<d[c]>>) THEN <<d[c]>>[i] ELSE q[i - Len(<<d[c]>>)]
      BY <1>2, <1>3, ConcatProperties
    <2> QED BY <1>1, <1>2, <1>3, <2>1
  <1> HIDE DEF r, p
  <1>6. /\ Contents(r, d) \in Seq(Data) /\ Len(Contents(r, d)) = Len(s) + 1
        /\ \A i \in 1 .. Len(s) + 1 : Contents(r, d)[i] = d[r[i]]
    BY <1>4, ContentsList
  <1>7. \A i \in 1 .. Len(s) + 1 : Contents(r, d)[i] = p[i]
    <2>1. ASSUME NEW i \in 1 .. Len(s) + 1 PROVE Contents(r, d)[i] = p[i]
      <3>1. CASE i = 1
        BY <1>4, <1>5, <1>6, <3>1
      <3>2. CASE i > 1
        <4>1. i - 1 \in 1 .. Len(s)
          BY <1>1, <3>2
        <4>2. Contents(r, d)[i] = d[r[i]]
          BY <1>6
        <4>3. r[i] = s[i - 1]
          BY <1>1, <1>4, <3>2
        <4>4. p[i] = q[i - 1]
          BY <1>1, <1>5, <3>2
        <4>5. q[i - 1] = d[s[i - 1]]
          BY <1>2, <4>1
        <4> QED BY <4>2, <4>3, <4>4, <4>5
      <3> QED BY <3>1, <3>2
    <2> QED BY <2>1
  <1>8. Contents(r, d) = p
    BY <1>5, <1>6, <1>7, SeqEqual
  <1> QED BY <1>8 DEF r, p, q

(* The list without its first cell.                                        *)
LEMMA ContentsTail ==
  ASSUME NEW s \in Seq(Cells), NEW d \in [Cells -> Data], s # <<>>
  PROVE  /\ Contents(Tail(s), d) = Tail(Contents(s, d))
         /\ Contents(s, d) # <<>> /\ Head(Contents(s, d)) = d[FirstOf(s)]
  <1> DEFINE r == Tail(s)
             q == Contents(s, d)
  <1>1. /\ r \in Seq(Cells) /\ Len(r) = Len(s) - 1
        /\ \A i \in 1 .. Len(r) : r[i] = s[i + 1]
    BY HeadTailProperties
  <1>2. /\ q \in Seq(Data) /\ Len(q) = Len(s) /\ Len(s) \in Nat /\ q # <<>>
        /\ \A i \in 1 .. Len(s) : q[i] = d[s[i]]
    BY ContentsList
  <1>3. Len(s) > 0 /\ FirstOf(s) = s[1]
    BY EmptyList
  <1> HIDE DEF r, q
  <1>4. /\ Tail(q) \in Seq(Data) /\ Len(Tail(q)) = Len(s) - 1
        /\ \A i \in 1 .. Len(s) - 1 : Tail(q)[i] = q[i + 1]
    BY <1>2, HeadTailProperties
  <1>5. /\ Contents(r, d) \in Seq(Data) /\ Len(Contents(r, d)) = Len(s) - 1
        /\ \A i \in 1 .. Len(s) - 1 : Contents(r, d)[i] = d[r[i]]
    BY <1>1, ContentsList
  <1>6. ASSUME NEW i \in 1 .. Len(s) - 1 PROVE Contents(r, d)[i] = Tail(q)[i]
    <2>1. i \in 1 .. Len(r) /\ i + 1 \in 1 .. Len(s)
      BY <1>1, <1>2
    <2>2. Contents(r, d)[i] = d[r[i]] /\ Tail(q)[i] = q[i + 1]
      BY <1>4, <1>5
    <2>3. r[i] = s[i + 1] /\ q[i + 1] = d[s[i + 1]]
      BY <1>1, <1>2, <2>1
    <2> QED BY <2>2, <2>3
  <1>7. Contents(r, d) = Tail(q)
    BY <1>4, <1>5, <1>6, SeqEqual
  <1>8. Head(q) = q[1]
    BY <1>2
  <1>9. q[1] = d[s[1]]
    BY <1>2, <1>3
  <1> QED BY <1>2, <1>3, <1>7, <1>8, <1>9 DEF r, q

(* The cells of a longer list.                                             *)
LEMMA InAppend ==
  ASSUME NEW s \in Seq(Cells), NEW c \in Cells, NEW d \in Cells, In(d, Append(s, c))
  PROVE  In(d, s) \/ d = c
  <1> DEFINE r == Append(s, c)
  <1>1. /\ Len(r) = Len(s) + 1 /\ Len(s) \in Nat
        /\ \A i \in 1 .. Len(s) : r[i] = s[i]
        /\ r[Len(s) + 1] = c
    BY LenProperties
  <1> HIDE DEF r
  <1>2. In(d, r)
    BY DEF r
  <1> QED BY <1>1, <1>2 DEF In

LEMMA InPush ==
  ASSUME NEW s \in Seq(Cells), NEW c \in Cells, NEW d \in Cells, In(d, <<c>> \o s)
  PROVE  In(d, s) \/ d = c
  <1> DEFINE r == <<c>> \o s
  <1>1. <<c>> \in Seq(Cells) /\ Len(<<c>>) = 1 /\ <<c>>[1] = c /\ Len(s) \in Nat
    BY LenProperties
  <1>2. /\ Len(r) = Len(<<c>>) + Len(s)
        /\ \A i \in 1 .. Len(<<c>>) + Len(s) :
             r[i] = IF i <= Len(<<c>>) THEN <<c>>[i] ELSE s[i - Len(<<c>>)]
    BY <1>1, ConcatProperties
  <1>3. In(d, r)
    OBVIOUS
  <1> HIDE DEF r
  <1>4. PICK i \in 1 .. Len(r) : r[i] = d
    BY <1>3 DEF In
  <1>5. CASE i <= 1
    BY <1>1, <1>2, <1>4, <1>5
  <1>6. CASE i > 1
    <2>1. i - 1 \in 1 .. Len(s) /\ s[i - 1] = d
      BY <1>1, <1>2, <1>4, <1>6
    <2> QED BY <2>1 DEF In
  <1> QED BY <1>1, <1>2, <1>5, <1>6

(* Less cells are stored than there are as long as one is not.             *)
LEMMA RoomLeft ==
  ASSUME NEW s \in Seq(Cells), Distinct(s), NEW n \in Nat, Len(s) = n + 1
  PROVE  n < Cardinality(Cells)
  <1>1. s \in [1 .. n + 1 -> Cells]
    BY LenProperties
  <1>2. s \in Injection(1 .. n + 1, Cells)
    BY <1>1 DEF Injection, IsInjective, Distinct
  <1>3. Cardinality(1 .. n + 1) <= Cardinality(Cells)
    BY <1>2, FS_Injection
  <1>4. Cardinality(1 .. n + 1) = n + 1
    BY FS_Interval
  <1>5. Cardinality(Cells) \in Nat
    BY FS_CardinalityType
  <1> QED BY <1>3, <1>4, <1>5

(* Filled: a stored cell, and a cell that is about to be stored or copied, *)
(* holds a message, and so does the buffer of a sender.                    *)
Filled ==
  /\ \A c \in Cells : In(c, order) => data[c] \in Msgs
  /\ \A t \in Threads : pc[t] \in {"send_link", "recv_copy"} => data[msg[t]] \in Msgs
  /\ \A t \in Threads : pc[t] \in {"send", "send_wait", "send_resumed", "send_copy", "recv_free"}
                          => buffer[t] \in Msgs

LEMMA FilledStep == Inv /\ Filled /\ [Next]_vars => Filled'
  <1> SUFFICES ASSUME Inv, Filled, [Next]_vars PROVE Filled'
    OBVIOUS
  <1>0. /\ pc \in [Threads -> Stages] /\ data \in [Cells -> Data] /\ buffer \in [Threads -> Data]
        /\ timeout \in [Threads -> Timeouts] /\ msg \in [Threads -> Cells \cup {NULL}]
        /\ order \in Seq(Cells) /\ Whole /\ Waiting
    BY DEF Inv, Waiting, Whole, Local, Data
  <1>1. ASSUME NEW t \in Threads,
               \/ \E m \in Msgs : \E to, u : CallSend(t, m, to, u)
               \/ \E to : CallRecv(t, to)
               \/ WaitTimeout(t)
               \/ Sending(t) /\ (TakeCell(t) \/ \E to : SendFull(t, to) \/ SendSuspend(t, to))
               \/ SendError(t)
               \/ Receiving(t) /\ \E to : RecvEmpty(t, to) \/ RecvSuspend(t, to)
               \/ RecvError(t)
        PROVE  Filled'
    <2>1. data' = data /\ order' = order /\ pc'[t] \notin {"send_link", "recv_copy", "recv_free"}
      BY <1>0, <1>1 DEF CallSend, CallRecv, WaitTimeout, TakeCell, SendFull, SendSuspend, SendError,
                        RecvEmpty, RecvSuspend, RecvError, list
    <2>2. \A u \in Threads \ {t} : pc'[u] = pc[u] /\ buffer'[u] = buffer[u] /\ msg'[u] = msg[u]
      BY <1>0, <1>1 DEF CallSend, CallRecv, WaitTimeout, TakeCell, SendFull, SendSuspend, SendError,
                        RecvEmpty, RecvSuspend, RecvError, ForgetArgs, args
    <2>3. pc'[t] \in {"send", "send_wait", "send_resumed", "send_copy"} => buffer'[t] \in Msgs
      BY <1>0, <1>1 DEF CallSend, CallRecv, WaitTimeout, TakeCell, SendFull, SendSuspend, SendError,
                        RecvEmpty, RecvSuspend, RecvError, args, Filled, Sending
    <2> QED BY <2>1, <2>2, <2>3 DEF Filled
  <1>2. ASSUME NEW t \in Threads, ResetBegin(t) PROVE Filled'
    <2>1. UNCHANGED <<data, order, msg, buffer>>
      BY <1>2 DEF ResetBegin, list, args
    <2>2. \A u \in Threads : pc'[u] = pc[u] \/ (pc[u] = "send_wait" /\ pc'[u] = "send_resumed")
                                            \/ pc'[u] = "recv_resumed"
      BY <1>0, <1>2 DEF ResetBegin
    <2> QED BY <2>1, <2>2 DEF Filled
  <1>3. ASSUME NEW t \in Threads, SendCopy(t) PROVE Filled'
    <2>1. /\ pc[t] = "send_copy" /\ Holds(t) /\ pc' = [pc EXCEPT ![t] = "send_link"]
          /\ UNCHANGED <<order, msg, buffer>> /\ data' = [data EXCEPT ![msg[t]] = buffer[t]]
      BY <1>3 DEF SendCopy, args, list, Holds
    <2>2. msg[t] \in Cells /\ ~In(msg[t], order)
      BY <1>0, <2>1, AccountParts
    <2>3. data'[msg[t]] \in Msgs /\ \A c \in Cells \ {msg[t]} : data'[c] = data[c]
      BY <1>0, <2>1, <2>2 DEF Filled
    <2>4. ASSUME NEW u \in Threads, u # t, pc[u] \in {"send_link", "recv_copy"}
          PROVE  data'[msg[u]] \in Msgs
      <3>1. Holds(u)
        BY <2>4 DEF Holds
      <3>2. msg[u] \in Cells /\ msg[u] # msg[t]
        BY <1>0, <2>1, <2>4, <3>1, AccountParts
      <3> QED BY <2>3, <2>4, <3>2 DEF Filled
    <2>5. \A u \in Threads \ {t} : pc'[u] = pc[u]
      BY <2>1
    <2>6. \A c \in Cells : In(c, order') => data'[c] \in Msgs
      BY <2>1, <2>2, <2>3 DEF Filled
    <2> QED BY <1>0, <2>1, <2>3, <2>4, <2>5, <2>6 DEF Filled
  <1>4. ASSUME NEW t \in Threads, SendLink(t), ~resetting PROVE Filled'
    <2>1. /\ pc[t] = "send_link" /\ Holds(t) /\ data' = data
          /\ msg' = [msg EXCEPT ![t] = NULL] /\ buffer' = [buffer EXCEPT ![t] = NoMsg]
          /\ order' = Append(order, msg[t]) \/ order' = <<msg[t]>> \o order
      <3>1. pc[t] = "send_link" /\ Holds(t)
        BY <1>4 DEF SendLink, Holds
      <3>2. data' = data /\ msg' = [msg EXCEPT ![t] = NULL]
        BY <1>4 DEF SendLink
      <3>3. buffer' = [buffer EXCEPT ![t] = NoMsg]
        BY <1>4, Zenon DEF SendLink, ForgetArgs
      <3>4. order' = Append(order, msg[t]) \/ order' = <<msg[t]>> \o order
        BY <1>4 DEF SendLink, LinkHead, LinkTail
      <3> QED BY <3>1, <3>2, <3>3, <3>4
    <2>2. msg[t] \in Cells
      BY <1>0, <2>1, AccountParts
    <2>3. ASSUME NEW c \in Cells, In(c, order') PROVE In(c, order) \/ c = msg[t]
      <3>1. CASE order' = Append(order, msg[t])
        BY <1>0, <2>2, <2>3, <3>1, InAppend
      <3>2. CASE order' = <<msg[t]>> \o order
        BY <1>0, <2>2, <2>3, <3>2, InPush
      <3> QED BY <2>1, <3>1, <3>2
    <2>4. pc'[t] = "idle" /\ \A u \in Threads \ {t} : pc'[u] = pc[u] \/ pc'[u] = "recv_resumed"
      <3>1. [pc EXCEPT ![t] = "idle"] \in [Threads -> Stages] /\ ResumeReceiver([pc EXCEPT ![t] = "idle"])
        BY <1>0, <1>4 DEF SendLink, Stages
      <3>2. \A u \in Threads : \/ pc'[u] = [pc EXCEPT ![t] = "idle"][u]
                               \/ pc[u] = "recv_wait" /\ pc'[u] = "recv_resumed"
        BY <1>0, <3>1, ResumeReceiverStages
      <3> QED BY <1>0, <2>1, <3>2
    <2>5. data[msg[t]] \in Msgs
      BY <2>1 DEF Filled
    <2>6. \A u \in Threads \ {t} : msg'[u] = msg[u] /\ buffer'[u] = buffer[u]
      BY <1>0, <2>1
    <2> QED BY <2>1, <2>3, <2>4, <2>5, <2>6 DEF Filled
  <1>5. ASSUME NEW m \in Msgs, IsrSend(m), ~resetting PROVE Filled'
    <2> DEFINE c == msg_queue_free
    <2>1. /\ c # NULL /\ data' = [data EXCEPT ![c] = m] /\ order' = Append(order, c)
          /\ UNCHANGED <<msg, buffer>> /\ ResumeReceiver(pc)
      BY <1>5 DEF IsrSend, LinkTail, args
    <2>2. c \in Cells /\ In(c, pool)
      BY <1>0, <2>1, EmptyList DEF Whole, ListsIntact, In
    <2>3. \A d \in Cells : In(d, order') => In(d, order) \/ d = c
      BY <1>0, <2>1, <2>2, InAppend
    <2>4. \A u \in Threads : pc'[u] = pc[u] \/ (pc[u] = "recv_wait" /\ pc'[u] = "recv_resumed")
      BY <1>0, <2>1, ResumeReceiverStages
    <2>5. data'[c] = m /\ \A d \in Cells \ {c} : data'[d] = data[d]
      BY <1>0, <2>1, <2>2
    <2>6. ASSUME NEW u \in Threads, pc[u] \in {"send_link", "recv_copy"}
          PROVE  data'[msg[u]] \in Msgs
      <3>1. Holds(u)
        BY <2>6 DEF Holds
      <3>2. msg[u] \in Cells /\ msg[u] # c
        BY <1>0, <2>2, <3>1, AccountParts
      <3> QED BY <2>5, <2>6, <3>2 DEF Filled
    <2>7. \A d \in Cells : In(d, order') => data'[d] \in Msgs
      BY <2>3, <2>5 DEF Filled
    <2> QED BY <2>1, <2>4, <2>6, <2>7 DEF Filled
  <1>6. ASSUME NEW t \in Threads, Unlink(t), ~resetting PROVE Filled'
    <2>1. /\ order # <<>> /\ msg_queue_head = FirstOf(order) /\ msg_queue_head \in Cells
          /\ In(msg_queue_head, order) /\ \A d \in Cells : In(d, Tail(order)) => In(d, order)
      <3>1. order # <<>> /\ msg_queue_head = FirstOf(order) /\ Linked(next, order) /\ Distinct(order)
        BY <1>0, <1>6, EmptyList DEF Unlink, Whole, ListsIntact, CellsAccounted
      <3>2. \A d \in Cells : In(d, Tail(order)) => In(d, order)
        BY <1>0, <3>1, TailList
      <3> QED BY <1>0, <3>1, <3>2, EmptyList DEF In
    <2>2. /\ data' = data /\ order' = Tail(order) /\ buffer' = buffer
          /\ msg' = [msg EXCEPT ![t] = msg_queue_head] /\ pc' = [pc EXCEPT ![t] = "recv_copy"]
      BY <1>6 DEF Unlink, args
    <2> QED BY <1>0, <2>1, <2>2 DEF Filled
  <1>7. ASSUME NEW t \in Threads, RecvCopy(t) PROVE Filled'
    BY <1>0, <1>7 DEF RecvCopy, list, Filled
  <1>8. ASSUME NEW t \in Threads, RecvFree(t) PROVE Filled'
    <2>1. /\ pc[t] = "recv_free" /\ UNCHANGED <<data, order>> /\ msg' = [msg EXCEPT ![t] = NULL]
          /\ buffer' = [buffer EXCEPT ![t] = NoMsg]
      BY <1>8 DEF RecvFree, ForgetArgs, list
    <2>2. /\ pc'[t] = "idle"
          /\ \A u \in Threads \ {t} : pc'[u] = pc[u] \/ (pc[u] = "send_wait" /\ pc'[u] = "send_resumed")
      <3>1. [pc EXCEPT ![t] = "idle"] \in [Threads -> Stages] /\ ResumeSender([pc EXCEPT ![t] = "idle"])
        BY <1>0, <1>8 DEF RecvFree, Stages
      <3>2. \A u \in Threads : \/ pc'[u] = [pc EXCEPT ![t] = "idle"][u]
                               \/ pc[u] = "send_wait" /\ pc'[u] = "send_resumed"
        BY <1>0, <3>1, ResumeSenderStages
      <3> QED BY <1>0, <2>1, <3>2
    <2>3. \A u \in Threads \ {t} : msg'[u] = msg[u] /\ buffer'[u] = buffer[u]
      BY <1>0, <2>1
    <2> QED BY <2>1, <2>2, <2>3 DEF Filled
  <1>9. ASSUME ResetCell PROVE Filled'
    <2>1. UNCHANGED <<data, pc, msg, buffer>> /\ order' = Tail(order) /\ msg_queue_head # NULL
      BY <1>9 DEF ResetCell, args
    <2>2. order # <<>> /\ Linked(next, order) /\ Distinct(order)
      BY <1>0, <2>1, EmptyList DEF Whole, ListsIntact, CellsAccounted
    <2>3. \A d \in Cells : In(d, order') => In(d, order)
      BY <1>0, <2>1, <2>2, TailList
    <2> QED BY <2>1, <2>3 DEF Filled
  <1>10. ASSUME ResetEnd \/ UNCHANGED vars PROVE Filled'
    BY <1>10 DEF ResetEnd, vars, args, list, Filled
  <1> QED BY <1>0, <1>1, <1>2, <1>3, <1>4, <1>5, <1>6, <1>7, <1>8, <1>9, <1>10, Steps DEF ThreadStep
(* Every step of the code is a step of the queue the threads see.          *)
LEMMA QueueStep ==
  Inv /\ Inv' /\ Filled /\ [Next]_vars
    => [Queue!Next]_<<Contents(order, data), [t \in Threads |-> Taken(t)]>>
  <1> DEFINE queue == Contents(order, data)
             got   == [t \in Threads |-> Taken(t)]
  <1> SUFFICES ASSUME Inv, Inv', Filled, [Next]_vars PROVE [Queue!Next]_<<queue, got>>
    OBVIOUS
  <1>0. /\ pc \in [Threads -> Stages] /\ data \in [Cells -> Data] /\ buffer \in [Threads -> Data]
        /\ timeout \in [Threads -> Timeouts] /\ msg \in [Threads -> Cells \cup {NULL}]
        /\ order \in Seq(Cells) /\ Whole /\ Waiting
        /\ order' \in Seq(Cells) /\ Distinct(order') /\ data' \in [Cells -> Data]
    BY DEF Inv, Waiting, Whole, Local, Data, CellsAccounted
  <1>1. ASSUME NEW t \in Threads,
               \/ \E m, to, u : CallSend(t, m, to, u)
               \/ \E to : CallRecv(t, to)
               \/ WaitTimeout(t)
               \/ Sending(t) /\ (TakeCell(t) \/ \E to : SendFull(t, to) \/ SendSuspend(t, to))
               \/ SendError(t)
               \/ Receiving(t) /\ \E to : RecvEmpty(t, to) \/ RecvSuspend(t, to)
               \/ RecvError(t) \/ RecvCopy(t)
        PROVE  UNCHANGED <<queue, got>>
    <2>1. data' = data /\ order' = order
      BY <1>0, <1>1 DEF CallSend, CallRecv, WaitTimeout, TakeCell, SendFull, SendSuspend, SendError,
                        RecvEmpty, RecvSuspend, RecvError, RecvCopy, list
    <2>2. \A u \in Threads \ {t} : pc'[u] = pc[u] /\ buffer'[u] = buffer[u] /\ msg'[u] = msg[u]
      BY <1>0, <1>1 DEF CallSend, CallRecv, WaitTimeout, TakeCell, SendFull, SendSuspend, SendError,
                        RecvEmpty, RecvSuspend, RecvError, RecvCopy, ForgetArgs, args
    <2>3. \/ pc[t] \notin {"recv_copy", "recv_free"} /\ pc'[t] \notin {"recv_copy", "recv_free"}
          \/ pc[t] = "recv_copy" /\ pc'[t] = "recv_free" /\ buffer'[t] = data[msg[t]]
      BY <1>0, <1>1 DEF CallSend, CallRecv, WaitTimeout, TakeCell, SendFull, SendSuspend, SendError,
                        RecvEmpty, RecvSuspend, RecvError, RecvCopy, Sending, Receiving
    <2>4. \A u \in Threads : Taken(u)' = Taken(u)
      BY <2>1, <2>2, <2>3 DEF Taken
    <2> QED BY <2>1, <2>4
  <1>2. ASSUME NEW t \in Threads, ResetBegin(t) PROVE UNCHANGED <<queue, got>>
    <2>1. UNCHANGED <<data, order, msg, buffer>>
      BY <1>2 DEF ResetBegin, list, args
    <2>2. \A u \in Threads : \/ pc'[u] = pc[u]
                             \/ /\ pc[u] \notin {"recv_copy", "recv_free"}
                                /\ pc'[u] \notin {"recv_copy", "recv_free"}
      BY <1>0, <1>2 DEF ResetBegin
    <2>3. \A u \in Threads : Taken(u)' = Taken(u)
      BY <2>1, <2>2 DEF Taken
    <2> QED BY <2>1, <2>3
  <1>3. ASSUME NEW t \in Threads, SendCopy(t) PROVE UNCHANGED <<queue, got>>
    <2>1. /\ pc[t] = "send_copy" /\ Holds(t) /\ pc' = [pc EXCEPT ![t] = "send_link"]
          /\ UNCHANGED <<order, msg, buffer>> /\ data' = [data EXCEPT ![msg[t]] = buffer[t]]
      BY <1>3 DEF SendCopy, args, list, Holds
    <2>2. msg[t] \in Cells /\ ~In(msg[t], order)
      BY <1>0, <2>1, AccountParts
    <2>3. \A c \in Cells \ {msg[t]} : data'[c] = data[c]
      BY <1>0, <2>1, <2>2
    <2>4. queue' = queue
      <3>1. \A c \in Cells : In(c, order) => data'[c] = data[c]
        BY <2>2, <2>3
      <3>2. Contents(order, data') = Contents(order, data)
        BY <1>0, <3>1, ContentsFrame
      <3> QED BY <2>1, <3>2
    <2>5. ASSUME NEW u \in Threads PROVE Taken(u)' = Taken(u)
      <3>1. CASE pc[u] = "recv_copy"
        <4>1. Holds(u) /\ u # t /\ pc'[u] = pc[u]
          BY <1>0, <2>1, <3>1 DEF Holds
        <4>2. msg[u] \in Cells /\ msg[u] # msg[t]
          BY <1>0, <2>1, <4>1, AccountParts
        <4> QED BY <2>1, <2>3, <3>1, <4>1, <4>2 DEF Taken
      <3>2. CASE pc[u] # "recv_copy"
        <4>1. pc'[u] # "recv_copy" /\ (pc'[u] = "recv_free" <=> pc[u] = "recv_free")
          BY <1>0, <2>1, <3>2
        <4> QED BY <2>1, <3>2, <4>1 DEF Taken
      <3> QED BY <3>1, <3>2
    <2>6. got' = got
      BY <2>5
    <2> QED BY <2>4, <2>6
  <1>4. ASSUME NEW t \in Threads, SendLink(t), ~resetting PROVE Queue!Next
    <2> DEFINE c == msg[t]
    <2>1. /\ pc[t] = "send_link" /\ Holds(t) /\ data' = data
          /\ msg' = [msg EXCEPT ![t] = NULL] /\ buffer' = [buffer EXCEPT ![t] = NoMsg]
          /\ order' = Append(order, c) \/ order' = <<c>> \o order
      BY <1>4 DEF SendLink, Holds, ForgetArgs, LinkHead, LinkTail
    <2>2. c \in Cells /\ data[c] \in Msgs
      BY <1>0, <2>1, AccountParts DEF Filled
    <2>3. got' = got
      <3>1. [pc EXCEPT ![t] = "idle"] \in [Threads -> Stages] /\ ResumeReceiver([pc EXCEPT ![t] = "idle"])
        BY <1>0, <1>4 DEF SendLink, Stages
      <3>2. \A u \in Threads : \/ pc'[u] = [pc EXCEPT ![t] = "idle"][u]
                               \/ pc[u] = "recv_wait" /\ pc'[u] = "recv_resumed"
        BY <1>0, <3>1, ResumeReceiverStages
      <3>3. \A u \in Threads : Taken(u)' = Taken(u)
        BY <1>0, <2>1, <3>2 DEF Taken
      <3> QED BY <3>3
    <2>4. Len(queue) < Cardinality(Cells)
      <3>1. Len(order) \in Nat /\ Len(order') = Len(order) + 1
        <4>1. Len(order) \in Nat
          BY <1>0, LenProperties
        <4>2. Len(order') = entry' /\ entry' = entry + 1 /\ Len(order) = entry
          BY <1>0, <1>4 DEF SendLink, Inv, Whole, ListsIntact
        <4> QED BY <4>1, <4>2
      <3>2. Len(order) < Cardinality(Cells)
        BY <1>0, <3>1, RoomLeft
      <3> QED BY <1>0, <3>2, ContentsList
    <2>5. CASE order' = Append(order, c)
      <3>1. queue' = Append(queue, data[c])
        BY <1>0, <2>1, <2>2, <2>5, ContentsAppend
      <3>2. Queue!Put(data[c])
        BY <2>3, <2>4, <3>1 DEF Queue!Put
      <3> QED BY <2>2, <3>2 DEF Queue!Next
    <2>6. CASE order' = <<c>> \o order
      <3>1. queue' = <<data[c]>> \o queue
        BY <1>0, <2>1, <2>2, <2>6, ContentsPush
      <3>2. Queue!PutUrgent(data[c])
        BY <2>3, <2>4, <3>1 DEF Queue!PutUrgent
      <3> QED BY <2>2, <3>2 DEF Queue!Next
    <2> QED BY <2>1, <2>5, <2>6
  <1>5. ASSUME NEW m \in Msgs, IsrSend(m), ~resetting PROVE Queue!Next
    <2> DEFINE c == msg_queue_free
    <2>1. /\ c # NULL /\ data' = [data EXCEPT ![c] = m] /\ order' = Append(order, c)
          /\ UNCHANGED <<msg, buffer>> /\ ResumeReceiver(pc)
      BY <1>5 DEF IsrSend, LinkTail, args
    <2>2. c \in Cells /\ In(c, pool) /\ ~In(c, order)
      <3>1. c \in Cells /\ In(c, pool)
        BY <1>0, <2>1, EmptyList DEF Whole, ListsIntact, In
      <3> QED BY <1>0, <3>1, AccountParts
    <2>3. data'[c] = m /\ \A d \in Cells \ {c} : data'[d] = data[d]
      BY <1>0, <2>1, <2>2
    <2>4. got' = got
      <3>1. \A u \in Threads : pc'[u] = pc[u] \/ (pc[u] = "recv_wait" /\ pc'[u] = "recv_resumed")
        BY <1>0, <2>1, ResumeReceiverStages
      <3>2. ASSUME NEW u \in Threads, pc[u] = "recv_copy" PROVE data'[msg[u]] = data[msg[u]]
        <4>1. Holds(u)
          BY <3>2 DEF Holds
        <4>2. msg[u] \in Cells /\ msg[u] # c
          BY <1>0, <2>2, <4>1, AccountParts
        <4> QED BY <2>3, <4>2
      <3>3. \A u \in Threads : Taken(u)' = Taken(u)
        BY <2>1, <3>1, <3>2 DEF Taken
      <3> QED BY <3>3
    <2>5. Len(queue) < Cardinality(Cells)
      <3>1. Len(order) \in Nat /\ Len(order') = Len(order) + 1
        <4>1. Len(order) \in Nat
          BY <1>0, LenProperties
        <4>2. Len(order') = entry' /\ entry' = entry + 1 /\ Len(order) = entry
          BY <1>0, <1>5 DEF IsrSend, Inv, Whole, ListsIntact
        <4> QED BY <4>1, <4>2
      <3>2. Len(order) < Cardinality(Cells)
        BY <1>0, <3>1, RoomLeft
      <3> QED BY <1>0, <3>2, ContentsList
    <2>6. queue' = Append(queue, m)
      <3>1. Contents(order', data') = Append(Contents(order, data'), data'[c])
        BY <1>0, <2>1, <2>2, ContentsAppend
      <3>2. \A d \in Cells : In(d, order) => data'[d] = data[d]
        BY <2>2, <2>3
      <3>3. Contents(order, data') = Contents(order, data)
        BY <1>0, <3>2, ContentsFrame
      <3> QED BY <2>3, <3>1, <3>3
    <2>7. Queue!Put(m)
      BY <2>4, <2>5, <2>6 DEF Queue!Put
    <2> QED BY <2>7 DEF Queue!Next
  <1>6. ASSUME NEW t \in Threads, Receiving(t), Unlink(t), ~resetting PROVE Queue!Next
    <2>1. /\ data' = data /\ order' = Tail(order) /\ buffer' = buffer
          /\ msg' = [msg EXCEPT ![t] = msg_queue_head] /\ pc' = [pc EXCEPT ![t] = "recv_copy"]
      BY <1>6 DEF Unlink, args
    <2>2. order # <<>> /\ msg_queue_head = FirstOf(order)
      BY <1>0, <1>6, EmptyList DEF Unlink, Whole, ListsIntact
    <2>3. queue' = Tail(queue) /\ queue # <<>> /\ Head(queue) = data[msg_queue_head]
      BY <1>0, <2>1, <2>2, ContentsTail
    <2>4. Taken(t) = NoMsg /\ Taken(t)' = data[msg_queue_head]
      BY <1>0, <1>6, <2>1 DEF Taken, Receiving
    <2>5. \A u \in Threads \ {t} : Taken(u)' = Taken(u)
      BY <1>0, <2>1 DEF Taken
    <2> HIDE DEF queue
    <2>6. got' = [got EXCEPT ![t] = Head(queue)] /\ got[t] = NoMsg
      BY <2>3, <2>4, <2>5
    <2> USE DEF queue
    <2>7. Queue!Take(t)
      BY <2>3, <2>6 DEF Queue!Take
    <2> QED BY <2>7 DEF Queue!Next
  <1>7. ASSUME NEW t \in Threads, RecvFree(t) PROVE Queue!Next
    <2>1. /\ pc[t] = "recv_free" /\ UNCHANGED <<data, order>> /\ msg' = [msg EXCEPT ![t] = NULL]
          /\ buffer' = [buffer EXCEPT ![t] = NoMsg]
      BY <1>7 DEF RecvFree, ForgetArgs, list
    <2>2. [pc EXCEPT ![t] = "idle"] \in [Threads -> Stages] /\ ResumeSender([pc EXCEPT ![t] = "idle"])
      BY <1>0, <1>7 DEF RecvFree, Stages
    <2>3. \A u \in Threads : \/ pc'[u] = [pc EXCEPT ![t] = "idle"][u]
                             \/ pc[u] = "send_wait" /\ pc'[u] = "send_resumed"
      BY <1>0, <2>2, ResumeSenderStages
    <2>4. Taken(t) \in Msgs /\ Taken(t)' = NoMsg
      BY <1>0, <2>1, <2>3 DEF Taken, Filled
    <2>5. \A u \in Threads \ {t} : Taken(u)' = Taken(u)
      BY <1>0, <2>1, <2>3 DEF Taken
    <2>6. got' = [got EXCEPT ![t] = NoMsg] /\ got[t] # NoMsg
      BY <2>4, <2>5
    <2>7. queue' = queue
      BY <2>1
    <2>8. Queue!Return(t)
      BY <2>6, <2>7 DEF Queue!Return
    <2> QED BY <2>8 DEF Queue!Next
  <1>8. ASSUME ResetCell PROVE Queue!Next
    <2>1. UNCHANGED <<data, pc, msg, buffer>> /\ order' = Tail(order) /\ msg_queue_head # NULL
      BY <1>8 DEF ResetCell, args
    <2>2. order # <<>>
      BY <1>0, <2>1, EmptyList DEF Whole, ListsIntact
    <2>3. queue' = Tail(queue) /\ queue # <<>>
      BY <1>0, <2>1, <2>2, ContentsTail
    <2>4. got' = got
      BY <2>1 DEF Taken
    <2>5. Queue!Drop
      BY <2>3, <2>4 DEF Queue!Drop
    <2> QED BY <2>5 DEF Queue!Next
  <1>9. ASSUME ResetEnd \/ UNCHANGED vars PROVE UNCHANGED <<queue, got>>
    BY <1>9 DEF ResetEnd, vars, args, list, Taken
  <1> HIDE DEF queue, got
  <1> QED BY <1>0, <1>1, <1>2, <1>3, <1>4, <1>5, <1>6, <1>7, <1>8, <1>9, Steps DEF ThreadStep

(* The message queue implements the bounded queue.                         *)
THEOREM ImplementsQueue == Spec => IsBoundedQueue
  <1>1. Init => Queue!Init
    <2> SUFFICES ASSUME Init PROVE Queue!Init
      OBVIOUS
    <2>1. Contents(order, data) = <<>>
      BY ContentsList, InitHolds DEF Init, Local, Data, Whole
    <2>2. \A t \in Threads : Taken(t) = NoMsg
      BY DEF Init, Taken
    <2> QED BY <2>1, <2>2 DEF Queue!Init
  <1>2. Init => Filled
    BY NobodyWaits DEF Init, Filled
  <1>3. Inv /\ Filled /\ [Next]_vars => Filled'
    BY FilledStep
  <1>4. Inv /\ Inv' /\ Filled /\ [Next]_vars => [Queue!Next]_<<Contents(order, data), [t \in Threads |-> Taken(t)]>>
    BY QueueStep
  <1> QED BY <1>1, <1>2, <1>3, <1>4, Invariant, PTL DEF Spec, IsBoundedQueue, Queue!Spec
=============================================================================
