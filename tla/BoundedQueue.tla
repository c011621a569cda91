---------------------------- MODULE BoundedQueue ----------------------------
(***************************************************************************)
(* What a message queue promises to the threads that share it: messages    *)
(* are taken in the order in which they were put, an urgent one before all *)
(* others, each by one thread only, and no more than max_msgs are stored.  *)
(* got[t] is the message thread t has taken and not yet returned to its    *)
(* caller.                                                                 *)
(***************************************************************************)
EXTENDS Naturals, Sequences

CONSTANTS Threads, Msgs, max_msgs, NoMsg

VARIABLES queue, got

Init ==
  /\ queue = <<>>
  /\ got = [t \in Threads |-> NoMsg]

Put(m) ==
  /\ Len(queue) < max_msgs
  /\ queue' = Append(queue, m)
  /\ UNCHANGED got

PutUrgent(m) ==
  /\ Len(queue) < max_msgs
  /\ queue' = <<m>> \o queue
  /\ UNCHANGED got

Take(t) ==
  /\ queue # <<>> /\ got[t] = NoMsg
  /\ got' = [got EXCEPT ![t] = Head(queue)]
  /\ queue' = Tail(queue)

Return(t) ==
  /\ got[t] # NoMsg
  /\ got' = [got EXCEPT ![t] = NoMsg]
  /\ UNCHANGED queue

(* rt_mq_control(RT_IPC_CMD_RESET) drops the stored messages one by one.   *)
Drop ==
  /\ queue # <<>>
  /\ queue' = Tail(queue)
  /\ UNCHANGED got

Next ==
  \/ \E m \in Msgs : Put(m) \/ PutUrgent(m)
  \/ \E t \in Threads : Take(t) \/ Return(t)
  \/ Drop

Spec == Init /\ [][Next]_<<queue, got>>
=============================================================================
