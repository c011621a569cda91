----------------------------- MODULE MCMsgQueue -----------------------------
(* Three threads share a queue of two cells: two of them may sleep for a   *)
(* free cell and two for a message, with and without a time limit.         *)
EXTENDS MsgQueue

CONSTANTS t1, t2, t3

MCCalls ==
  {<<t1, "send", "forever">>, <<t1, "urgent", "none">>,
   <<t2, "send", "ticks">>, <<t2, "recv", "ticks">>,
   <<t3, "recv", "forever">>, <<t3, "recv", "none">>, <<t3, "reset", "none">>}
=============================================================================
