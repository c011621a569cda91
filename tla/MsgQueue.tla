------------------------------ MODULE MsgQueue ------------------------------
(***************************************************************************)
(* The message queue of the kernel (rt_mq_* in ipc.c), which carries the   *)
(* messages of the tag reader (rx_mq).                                     *)
(*                                                                         *)
(* The cells of the pool are linked in two lists, the stored messages and  *)
(* the free cells.  The lists change with interrupts disabled, but a       *)
(* message is copied into its cell, and out of it, with interrupts         *)
(* enabled: a sender takes a free cell, copies, and links the cell in a    *)
(* second critical section; a receiver unlinks a cell, copies, and gives   *)
(* the cell back.  Any other thread and any interrupt may run in between.  *)
(* One action is one critical section or one copy.                         *)
(*                                                                         *)
(* A thread sleeps from the moment interrupts are enabled again after it   *)
(* was suspended.  Waiting times are not counted: a timed wait may end at  *)
(* any moment, and a thread that was resumed and finds nothing either has  *)
(* time left or has not.                                                   *)
(***************************************************************************)
EXTENDS Integers, Sequences, FiniteSets

CONSTANTS
  Threads,   \* threads that use the queue
  Calls,     \* the calls they make, with their waiting times
  Cells,     \* cells of the message pool
  Msgs,      \* contents of a message
  NoMsg,     \* a buffer without a message
  NULL       \* RT_NULL

ASSUME MsgQueueAssumption ==
  /\ NULL \notin Cells
  /\ NoMsg \notin Msgs
  /\ IsFiniteSet(Threads) /\ IsFiniteSet(Cells)

VARIABLES
  msg_queue_head, msg_queue_tail, msg_queue_free, \* fields of the queue,
  entry,                                          \* number of messages
  suspend_thread, suspend_sender_thread, \* threads waiting to receive, to send
  next,      \* rt_mq_message.next of every cell
  data,      \* what the memory behind the header of a cell holds
  pc,        \* where a thread is in rt_mq_send_wait, rt_mq_recv
  msg,       \* its local variable msg
  buffer,    \* the message it sends, or has received
  timeout,   \* its argument timeout: none left, some ticks, forever
  urgent,    \* it is in rt_mq_urgent
  error,     \* rt_thread.error
  resetting, \* rt_mq_control(RESET) is running, with interrupts disabled
  order,     \* auxiliary: the stored cells, oldest first
  pool       \* auxiliary: the free cells, in their order

list   == <<msg_queue_head, msg_queue_tail, entry, order>>
free   == <<msg_queue_free, pool>>
wait   == <<suspend_thread, suspend_sender_thread>>
args   == <<buffer, timeout, urgent>>
vars   == <<list, free, wait, next, data, pc, msg, args, error, resetting>>

RT_EOK      == "EOK"
RT_ETIMEOUT == "ETIMEOUT"
RT_ERROR    == "ERROR"

(* Values of timeout: zero, positive, RT_WAITING_FOREVER. *)
Timeouts == {"none", "ticks", "forever"}

(* A call: a thread, a function and a waiting time; rt_mq_send is          *)
(* rt_mq_send_wait without one, rt_mq_urgent and rt_mq_control have none.  *)
ASSUME CallsAssumption ==
  Calls \subseteq Threads \X {"send", "urgent", "recv", "reset"} \X Timeouts

(* A free list of all cells, as the loop of rt_mq_init builds it. *)
IsFreeList(s) ==
  /\ s \in [1 .. Cardinality(Cells) -> Cells]
  /\ \A c \in Cells : \E i \in 1 .. Cardinality(Cells) : s[i] = c

FirstOf(s) == IF s = <<>> THEN NULL ELSE s[1]
LastOf(s)  == IF s = <<>> THEN NULL ELSE s[Len(s)]

(* By the pointers nx a cell of s leads to the next, the last one nowhere. *)
Linked(nx, s) ==
  \A i \in 1 .. Len(s) : nx[s[i]] = IF i = Len(s) THEN NULL ELSE s[i + 1]

(* rt_mq_init *)
Init ==
  /\ msg_queue_head = NULL /\ msg_queue_tail = NULL /\ entry = 0
  /\ order = <<>>
  /\ IsFreeList(pool)
  /\ msg_queue_free = FirstOf(pool)
  /\ next \in [Cells -> Cells \cup {NULL}] /\ Linked(next, pool)
  /\ data = [c \in Cells |-> NoMsg]
  /\ suspend_thread = <<>> /\ suspend_sender_thread = <<>>
  /\ pc = [t \in Threads |-> "idle"]
  /\ msg = [t \in Threads |-> NULL]
  /\ buffer = [t \in Threads |-> NoMsg]
  /\ timeout = [t \in Threads |-> "none"]
  /\ urgent = [t \in Threads |-> FALSE]
  /\ error = [t \in Threads |-> RT_EOK]
  /\ resetting = FALSE

-----------------------------------------------------------------------------
(* The first thread of a list, or none (rt_ipc_list_resume). *)
FirstWaiting(s) == IF s = <<>> THEN {} ELSE {Head(s)}

(* Mutant: a message resumes a receiver only when it is the first one. *)
ResumeReceiverOnce(base) ==
  LET woken == IF entry = 0 THEN FirstWaiting(suspend_thread) ELSE {}
  IN  /\ pc' = [t \in Threads |-> IF t \in woken THEN "recv_resumed" ELSE base[t]]
      /\ suspend_thread' = IF woken = {} THEN suspend_thread ELSE Tail(suspend_thread)

(* A message was linked; base is pc otherwise. *)
ResumeReceiver(base) ==
  LET woken == FirstWaiting(suspend_thread)
  IN  /\ pc' = [t \in Threads |-> IF t \in woken THEN "recv_resumed" ELSE base[t]]
      /\ suspend_thread' = IF woken = {} THEN <<>> ELSE Tail(suspend_thread)

(* Mutant: a freed cell resumes a sender only when there was none. *)
ResumeSenderOnce(base) ==
  LET woken == IF msg_queue_free = NULL THEN FirstWaiting(suspend_sender_thread) ELSE {}
  IN  /\ pc' = [t \in Threads |-> IF t \in woken THEN "send_resumed" ELSE base[t]]
      /\ suspend_sender_thread' = IF woken = {} THEN suspend_sender_thread
                                  ELSE Tail(suspend_sender_thread)

(* A cell was freed. *)
ResumeSender(base) ==
  LET woken == FirstWaiting(suspend_sender_thread)
  IN  /\ pc' = [t \in Threads |-> IF t \in woken THEN "send_resumed" ELSE base[t]]
      /\ suspend_sender_thread' = IF woken = {} THEN <<>> ELSE Tail(suspend_sender_thread)

(* The local variables of a call are gone when it returns. *)
ForgetArgs(t) ==
  /\ buffer' = [buffer EXCEPT ![t] = NoMsg]
  /\ timeout' = [timeout EXCEPT ![t] = "none"]
  /\ urgent' = [urgent EXCEPT ![t] = FALSE]

(* What may be left of the waiting time when a thread has been resumed. *)
Left(to) == IF to = "ticks" THEN {"none", "ticks"} ELSE {to}

-----------------------------------------------------------------------------
(* rt_mq_send_wait, rt_mq_send and rt_mq_urgent                            *)

CallSend(t, m, to, u) ==
  /\ pc[t] = "idle"
  /\ IF u THEN <<t, "urgent", to>> \in Calls /\ to = "none" ELSE <<t, "send", to>> \in Calls
  /\ pc' = [pc EXCEPT ![t] = "send"]
  /\ buffer' = [buffer EXCEPT ![t] = m]
  /\ timeout' = [timeout EXCEPT ![t] = to]
  /\ urgent' = [urgent EXCEPT ![t] = u]
  /\ UNCHANGED <<list, free, wait, next, data, msg, error, resetting>>

(* Mutant: the pointer to the free list is not moved. *)
NextFreeKept == msg_queue_free

NextFree == next[msg_queue_free]

(* A free cell is taken off the free list. *)
TakeCell(t) ==
  /\ msg_queue_free # NULL
  /\ msg' = [msg EXCEPT ![t] = msg_queue_free]
  /\ msg_queue_free' = NextFree
  /\ pool' = Tail(pool)
  /\ pc' = [pc EXCEPT ![t] = "send_copy"]
  /\ UNCHANGED <<list, wait, next, data, args, error, resetting>>

(* There is none and no time to wait: -RT_EFULL. *)
SendFull(t, to) ==
  /\ msg_queue_free = NULL /\ to = "none"
  /\ pc' = [pc EXCEPT ![t] = "idle"]
  /\ ForgetArgs(t)
  /\ UNCHANGED <<list, free, wait, next, data, msg, error, resetting>>

(* There is none: the thread is suspended. *)
SendSuspend(t, to) ==
  /\ msg_queue_free = NULL /\ to # "none"
  /\ error' = [error EXCEPT ![t] = RT_EOK]
  /\ suspend_sender_thread' = Append(suspend_sender_thread, t)
  /\ timeout' = [timeout EXCEPT ![t] = to]
  /\ pc' = [pc EXCEPT ![t] = "send_wait"]
  /\ UNCHANGED <<list, free, suspend_thread, next, data, msg, buffer, urgent, resetting>>

SendLoop(t, to) == TakeCell(t) \/ SendFull(t, to) \/ SendSuspend(t, to)

Send(t) == pc[t] = "send" /\ SendLoop(t, timeout[t])

SendResumed(t) ==
  /\ pc[t] = "send_resumed" /\ error[t] = RT_EOK
  /\ \E to \in Left(timeout[t]) : SendLoop(t, to)

(* The wait has failed: the thread returns thread->error. *)
SendError(t) ==
  /\ pc[t] = "send_resumed" /\ error[t] # RT_EOK
  /\ pc' = [pc EXCEPT ![t] = "idle"]
  /\ ForgetArgs(t)
  /\ UNCHANGED <<list, free, wait, next, data, msg, error, resetting>>

(* The message is copied into the cell, with interrupts enabled. *)
SendCopy(t) ==
  /\ pc[t] = "send_copy"
  /\ data' = [data EXCEPT ![msg[t]] = buffer[t]]
  /\ next' = IF urgent[t] THEN next ELSE [next EXCEPT ![msg[t]] = NULL]
  /\ pc' = [pc EXCEPT ![t] = "send_link"]
  /\ UNCHANGED <<list, free, wait, msg, args, error, resetting>>

(* Mutant: the tail stays when the last message is unlinked. *)
TailKept(c) == msg_queue_tail

(* The tail once the head c is unlinked. *)
TailWithout(c) == IF msg_queue_tail = c THEN NULL ELSE msg_queue_tail

(* The cell c becomes the tail of the messages; nx are the pointers before. *)
LinkTail(c, nx) ==
  /\ next' = IF msg_queue_tail # NULL THEN [nx EXCEPT ![msg_queue_tail] = c] ELSE nx
  /\ msg_queue_tail' = c
  /\ msg_queue_head' = IF msg_queue_head = NULL THEN c ELSE msg_queue_head
  /\ order' = Append(order, c)

(* rt_mq_urgent: the cell c becomes their head. *)
LinkHead(c) ==
  /\ next' = [next EXCEPT ![c] = msg_queue_head]
  /\ msg_queue_head' = c
  /\ msg_queue_tail' = IF msg_queue_tail = NULL THEN c ELSE msg_queue_tail
  /\ order' = <<c>> \o order

SendLink(t) ==
  /\ pc[t] = "send_link"
  /\ IF urgent[t] THEN LinkHead(msg[t]) ELSE LinkTail(msg[t], next)
  /\ entry' = entry + 1
  /\ msg' = [msg EXCEPT ![t] = NULL]
  /\ ForgetArgs(t)
  /\ ResumeReceiver([pc EXCEPT ![t] = "idle"])
  /\ UNCHANGED <<suspend_sender_thread, free, data, error, resetting>>

(* rt_mq_send from an interrupt: no thread runs before it has returned.    *)
(* It fails without a trace when there is no free cell.                    *)
IsrSend(m) ==
  /\ msg_queue_free # NULL
  /\ msg_queue_free' = NextFree
  /\ pool' = Tail(pool)
  /\ data' = [data EXCEPT ![msg_queue_free] = m]
  /\ LinkTail(msg_queue_free, [next EXCEPT ![msg_queue_free] = NULL])
  /\ entry' = entry + 1
  /\ ResumeReceiver(pc)
  /\ UNCHANGED <<suspend_sender_thread, msg, args, error, resetting>>

-----------------------------------------------------------------------------
(* rt_mq_recv                                                              *)

CallRecv(t, to) ==
  /\ pc[t] = "idle" /\ <<t, "recv", to>> \in Calls
  /\ pc' = [pc EXCEPT ![t] = "recv"]
  /\ timeout' = [timeout EXCEPT ![t] = to]
  /\ UNCHANGED <<list, free, wait, next, data, msg, buffer, urgent, error, resetting>>

(* Mutant: the cell is given back before it has been copied. *)
UnlinkAndFree(t) ==
  /\ entry > 0
  /\ msg' = [msg EXCEPT ![t] = msg_queue_head]
  /\ msg_queue_head' = next[msg_queue_head]
  /\ msg_queue_tail' = TailWithout(msg_queue_head)
  /\ entry' = entry - 1
  /\ order' = Tail(order)
  /\ next' = [next EXCEPT ![msg_queue_head] = msg_queue_free]
  /\ msg_queue_free' = msg_queue_head /\ pool' = <<msg_queue_head>> \o pool
  /\ pc' = [pc EXCEPT ![t] = "recv_copy"]
  /\ UNCHANGED <<wait, data, args, error, resetting>>

(* The oldest message is unlinked. *)
Unlink(t) ==
  /\ entry > 0
  /\ msg' = [msg EXCEPT ![t] = msg_queue_head]
  /\ msg_queue_head' = next[msg_queue_head]
  /\ msg_queue_tail' = TailWithout(msg_queue_head)
  /\ entry' = entry - 1
  /\ order' = Tail(order)
  /\ pc' = [pc EXCEPT ![t] = "recv_copy"]
  /\ UNCHANGED <<free, wait, next, data, args, error, resetting>>

(* There is none and no time to wait: -RT_ETIMEOUT. *)
RecvEmpty(t, to) ==
  /\ entry = 0 /\ to = "none"
  /\ pc' = [pc EXCEPT ![t] = "idle"]
  /\ error' = [error EXCEPT ![t] = IF pc[t] = "recv" THEN @ ELSE RT_ETIMEOUT]
  /\ ForgetArgs(t)
  /\ UNCHANGED <<list, free, wait, next, data, msg, resetting>>

(* There is none: the thread is suspended. *)
RecvSuspend(t, to) ==
  /\ entry = 0 /\ to # "none"
  /\ error' = [error EXCEPT ![t] = RT_EOK]
  /\ suspend_thread' = Append(suspend_thread, t)
  /\ timeout' = [timeout EXCEPT ![t] = to]
  /\ pc' = [pc EXCEPT ![t] = "recv_wait"]
  /\ UNCHANGED <<list, free, suspend_sender_thread, next, data, msg, buffer, urgent, resetting>>

RecvLoop(t, to) == Unlink(t) \/ RecvEmpty(t, to) \/ RecvSuspend(t, to)

Recv(t) == pc[t] = "recv" /\ RecvLoop(t, timeout[t])

RecvResumed(t) ==
  /\ pc[t] = "recv_resumed" /\ error[t] = RT_EOK
  /\ \E to \in Left(timeout[t]) : RecvLoop(t, to)

RecvError(t) ==
  /\ pc[t] = "recv_resumed" /\ error[t] # RT_EOK
  /\ pc' = [pc EXCEPT ![t] = "idle"]
  /\ ForgetArgs(t)
  /\ UNCHANGED <<list, free, wait, next, data, msg, error, resetting>>

(* The message is copied out of the cell, with interrupts enabled. *)
RecvCopy(t) ==
  /\ pc[t] = "recv_copy"
  /\ buffer' = [buffer EXCEPT ![t] = data[msg[t]]]
  /\ pc' = [pc EXCEPT ![t] = "recv_free"]
  /\ UNCHANGED <<list, free, wait, next, data, msg, timeout, urgent, error, resetting>>

(* The cell goes back to the free list and the call returns. *)
RecvFree(t) ==
  /\ pc[t] = "recv_free"
  /\ next' = [next EXCEPT ![msg[t]] = msg_queue_free]
  /\ msg_queue_free' = msg[t]
  /\ pool' = <<msg[t]>> \o pool
  /\ msg' = [msg EXCEPT ![t] = NULL]
  /\ ForgetArgs(t)
  /\ ResumeSender([pc EXCEPT ![t] = "idle"])
  /\ UNCHANGED <<suspend_thread, list, data, error, resetting>>

-----------------------------------------------------------------------------
(* The sequence s without the thread t (rt_list_remove). *)
Without(s, t) ==
  LET i == CHOOSE j \in DOMAIN s : s[j] = t
  IN  [j \in 1 .. Len(s) - 1 |-> IF j < i THEN s[j] ELSE s[j + 1]]

(* rt_thread_timeout: the timer of a waiting thread runs out. *)
WaitTimeout(t) ==
  /\ timeout[t] = "ticks"
  /\ \/ /\ pc[t] = "send_wait"
        /\ pc' = [pc EXCEPT ![t] = "send_resumed"]
        /\ suspend_sender_thread' = Without(suspend_sender_thread, t)
        /\ UNCHANGED suspend_thread
     \/ /\ pc[t] = "recv_wait"
        /\ pc' = [pc EXCEPT ![t] = "recv_resumed"]
        /\ suspend_thread' = Without(suspend_thread, t)
        /\ UNCHANGED suspend_sender_thread
  /\ error' = [error EXCEPT ![t] = RT_ETIMEOUT]
  /\ UNCHANGED <<list, free, next, data, msg, args, resetting>>

(* rt_mq_control(RT_IPC_CMD_RESET): all waiting threads are resumed with   *)
(* an error, then the messages go back to the free list one by one.        *)
ResetBegin(t) ==
  /\ pc[t] = "idle" /\ <<t, "reset", "none">> \in Calls
  /\ resetting' = TRUE
  /\ pc' = [x \in Threads |-> IF pc[x] = "send_wait" THEN "send_resumed"
                              ELSE IF pc[x] = "recv_wait" THEN "recv_resumed" ELSE pc[x]]
  /\ error' = [x \in Threads |-> IF pc[x] \in {"send_wait", "recv_wait"} THEN RT_ERROR
                                 ELSE error[x]]
  /\ suspend_thread' = <<>> /\ suspend_sender_thread' = <<>>
  /\ UNCHANGED <<list, free, next, data, msg, args>>

ResetCell ==
  /\ resetting /\ msg_queue_head # NULL
  /\ msg_queue_head' = next[msg_queue_head]
  /\ msg_queue_tail' = TailWithout(msg_queue_head)
  /\ next' = [next EXCEPT ![msg_queue_head] = msg_queue_free]
  /\ msg_queue_free' = msg_queue_head
  /\ order' = Tail(order) /\ pool' = <<msg_queue_head>> \o pool
  /\ UNCHANGED <<entry, wait, data, pc, msg, args, error, resetting>>

ResetEnd ==
  /\ resetting /\ msg_queue_head = NULL
  /\ entry' = 0 /\ resetting' = FALSE
  /\ UNCHANGED <<msg_queue_head, msg_queue_tail, order, free, wait, next, data, pc, msg,
                 args, error>>

-----------------------------------------------------------------------------
(* The steps a call takes by itself once it has been made. *)
Run(t) ==
  ~resetting /\ ( \/ Send(t) \/ SendResumed(t) \/ SendError(t) \/ SendCopy(t) \/ SendLink(t)
                 \/ Recv(t) \/ RecvResumed(t) \/ RecvError(t) \/ RecvCopy(t) \/ RecvFree(t) )

Call(t) ==
  ~resetting /\ ( \/ \E m \in Msgs, to \in Timeouts, u \in BOOLEAN : CallSend(t, m, to, u)
                 \/ \E to \in Timeouts : CallRecv(t, to)
                 \/ ResetBegin(t) )

Interrupt ==
  ~resetting /\ ((\E m \in Msgs : IsrSend(m)) \/ (\E t \in Threads : WaitTimeout(t)))

Reset == ResetCell \/ ResetEnd

Next == (\E t \in Threads : Run(t) \/ Call(t)) \/ Interrupt \/ Reset

Spec == Init /\ [][Next]_vars

(* Every ready thread gets the processor: the threads of a queue have the  *)
(* same priority, or the higher ones sleep (see Sched).                    *)
FairSpec == Spec /\ WF_vars(Reset) /\ \A t \in Threads : WF_vars(Run(t))

-----------------------------------------------------------------------------
Stages ==
  {"idle", "send", "send_wait", "send_resumed", "send_copy", "send_link",
   "recv", "recv_wait", "recv_resumed", "recv_copy", "recv_free"}

(* A thread holds a cell from the moment it has taken it off a list. *)
Holds(t) == pc[t] \in {"send_copy", "send_link", "recv_copy", "recv_free"}

(* Type invariant. *)
TypeOK ==
  /\ msg_queue_head \in Cells \cup {NULL} /\ msg_queue_tail \in Cells \cup {NULL}
  /\ msg_queue_free \in Cells \cup {NULL}
  /\ entry \in Nat
  /\ suspend_thread \in Seq(Threads) /\ suspend_sender_thread \in Seq(Threads)
  /\ next \in [Cells -> Cells \cup {NULL}]
  /\ data \in [Cells -> Msgs \cup {NoMsg}]
  /\ pc \in [Threads -> Stages]
  /\ msg \in [Threads -> Cells \cup {NULL}]
  /\ buffer \in [Threads -> Msgs \cup {NoMsg}]
  /\ timeout \in [Threads -> Timeouts]
  /\ urgent \in [Threads -> BOOLEAN]
  /\ error \in [Threads -> {RT_EOK, RT_ETIMEOUT, RT_ERROR}]
  /\ resetting \in BOOLEAN
  /\ order \in Seq(Cells) /\ pool \in Seq(Cells)

Distinct(s) == \A i, j \in 1 .. Len(s) : s[i] = s[j] => i = j
In(c, s) == \E i \in 1 .. Len(s) : s[i] = c

(* Head, tail, next pointers and entry describe the same list of messages, *)
(* and the free list is whole, whatever is being copied meanwhile.         *)
ListsIntact ==
  /\ msg_queue_head = FirstOf(order) /\ msg_queue_tail = LastOf(order) /\ Linked(next, order)
  /\ msg_queue_free = FirstOf(pool) /\ Linked(next, pool)
  /\ ~resetting => entry = Len(order)

(* Every cell is in exactly one place: stored, free, or in the hands of    *)
(* one thread that copies; none is lost and none is handed out twice.      *)
CellsAccounted ==
  /\ Distinct(order) /\ Distinct(pool)
  /\ \A c \in Cells : ~(In(c, order) /\ In(c, pool))
  /\ \A t \in Threads : Holds(t) => ~In(msg[t], order) /\ ~In(msg[t], pool)
  /\ \A t, u \in Threads : Holds(t) /\ Holds(u) /\ msg[t] = msg[u] => t = u
  /\ \A c \in Cells : In(c, order) \/ In(c, pool) \/ \E t \in Threads : Holds(t) /\ msg[t] = c

(* Threads that were resumed because there is something for them. *)
ResumedReceivers == {t \in Threads : pc[t] = "recv_resumed" /\ error[t] = RT_EOK}
ResumedSenders   == {t \in Threads : pc[t] = "send_resumed" /\ error[t] = RT_EOK}

(* No lost wake-up: while a receiver sleeps, a resumed one is on its way   *)
(* for every message in the queue; while a sender sleeps, one is on its    *)
(* way for every free cell.                                                *)
NoLostWakeup ==
  /\ suspend_thread # <<>> => entry <= Cardinality(ResumedReceivers)
  /\ suspend_sender_thread # <<>> => Len(pool) <= Cardinality(ResumedSenders)

(* A receiver does not sleep for ever beside a message, nor a sender       *)
(* beside a free cell.                                                     *)
NoneOverslept ==
  /\ (entry > 0 /\ suspend_thread # <<>>) ~> (entry = 0 \/ suspend_thread = <<>>)
  /\ (msg_queue_free # NULL /\ suspend_sender_thread # <<>>)
       ~> (msg_queue_free = NULL \/ suspend_sender_thread = <<>>)

(* The messages in the cells of s. *)
Contents(s, d) == [i \in 1 .. Len(s) |-> d[s[i]]]

(* The message a receiver has taken. *)
Taken(t) == IF pc[t] = "recv_copy" THEN data[msg[t]]
            ELSE IF pc[t] = "recv_free" THEN buffer[t] ELSE NoMsg

(* What the threads see is a bounded queue: the stored messages are the    *)
(* contents of the linked cells, and a receiver has the message of the     *)
(* cell it has unlinked until it returns.                                  *)
Queue == INSTANCE BoundedQueue WITH
  queue    <- Contents(order, data),
  got      <- [t \in Threads |-> Taken(t)],
  max_msgs <- Cardinality(Cells)

IsBoundedQueue == Queue!Spec
=============================================================================
