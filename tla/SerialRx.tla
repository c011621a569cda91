------------------------------ MODULE SerialRx ------------------------------
(***************************************************************************)
(* The receive path of the tag reader: the circular DMA buffer of uart3,   *)
(* the idle-line interrupt that reports what has arrived (uart_isr in      *)
(* drv_usart.c, rt_hw_serial_isr in serial.c), the message queue that      *)
(* M606_rx fills, and rfid_get in the RFID thread that empties both.       *)
(*                                                                         *)
(* Only the idle line is reported: the callbacks of the half and the full  *)
(* buffer do nothing in this tree.  The interrupt never learns how often   *)
(* the DMA went around; it computes the received length from two positions *)
(* and it is negative when the buffer wrapped in between.                  *)
(*                                                                         *)
(* A byte is its number in the stream, so that the model can tell whether  *)
(* bytes are lost, repeated or out of order.                               *)
(***************************************************************************)
EXTENDS Integers, Sequences

CONSTANTS
  BUFSZ,     \* bytes of the DMA buffer, serial->config.bufsz (512)
  IDX_MOD,   \* put_index and get_index are 16-bit counters (65536)
  FRAME,     \* bytes of a frame of the tag reader (80)
  MaxLate,   \* bytes that may arrive while the interrupt is pending or runs
  MQ_SIZE,   \* messages that fit into rx_mq (333)
  MaxBytes   \* bound on the bytes the tag reader sends

ASSUME SerialRxAssumption ==
  /\ BUFSZ \in Nat \ {0} /\ IDX_MOD \in Nat /\ IDX_MOD >= 2 * BUFSZ
  /\ FRAME \in 1 .. BUFSZ - 1
  /\ MaxLate \in Nat
  /\ MQ_SIZE \in Nat \ {0}
  /\ MaxBytes \in Nat

VARIABLES
  buffer,      \* the DMA buffer: number of the byte last written to a place
  dma,         \* place the DMA writes next
  arrived,     \* bytes the DMA has written
  idle,        \* the idle flag of the UART: its interrupt is pending or runs
  isr,         \* uart_isr has read the DMA counter and not yet cleared the flag
  last_index,  \* uart->dma_rx.last_index
  put_index, get_index, is_full,   \* the receive fifo of serial.c
  reported,    \* bytes that had arrived at the last interrupt
  rx_mq,       \* sizes in the messages of the queue
  dropped,     \* the last message found the queue full
  rfid         \* RFID: waiting for a message, or about to read msg.size

vars == <<buffer, dma, arrived, idle, isr, last_index, put_index, get_index, is_full,
          reported, rx_mq, dropped, rfid>>

fifo == <<put_index, get_index, is_full>>

Places == 0 .. BUFSZ - 1
Waiting == [pc |-> "recv", size |-> 0]

Init ==
  /\ buffer = [j \in Places |-> 0]
  /\ dma = 0 /\ arrived = 0 /\ idle = FALSE /\ isr = FALSE
  /\ last_index = 0 /\ put_index = 0 /\ get_index = 0 /\ is_full = FALSE
  /\ reported = 0
  /\ rx_mq = <<>> /\ dropped = FALSE
  /\ rfid = Waiting

-----------------------------------------------------------------------------
(* The hardware: a byte arrives, also while the interrupt runs; after a    *)
(* frame the line is idle.                                                 *)
Receive ==
  /\ arrived < MaxBytes
  /\ idle => arrived - reported < IF isr THEN MaxLate ELSE FRAME + MaxLate
  /\ buffer' = [buffer EXCEPT ![dma] = arrived]
  /\ dma' = (dma + 1) % BUFSZ
  /\ arrived' = arrived + 1
  /\ idle' = (idle \/ arrived' % FRAME = 0)
  /\ UNCHANGED <<isr, last_index, put_index, get_index, is_full, reported, rx_mq, dropped, rfid>>

-----------------------------------------------------------------------------
(* _serial_fifo_calc_recved_len *)
CalcRecvedLen(put, get, full) ==
  IF put = get THEN IF full THEN BUFSZ ELSE 0
  ELSE IF put > get THEN put - get ELSE BUFSZ - (get - put)

RecvedLen == CalcRecvedLen(put_index, get_index, is_full)

(* Mutant: overrunning the reader is only noticed past its position. *)
UpdatePutIndexLate(len) ==
  LET put  == (put_index + len + IDX_MOD) % IDX_MOD
      full == put > get_index /\ put_index >= get_index
  IN  /\ put_index' = IF put >= BUFSZ THEN put % BUFSZ ELSE put
      /\ is_full' = (is_full \/ full)
      /\ get_index' = IF is_full' THEN put_index' ELSE get_index

(* rt_dma_recv_update_put_index: the 16-bit sum of the index and a length  *)
(* that may be negative.                                                   *)
UpdatePutIndex(len) ==
  LET put  == (put_index + len + IDX_MOD) % IDX_MOD
      full == IF get_index <= put_index
              THEN put >= BUFSZ /\ put % BUFSZ >= get_index
              ELSE put >= get_index
  IN  /\ put_index' = IF put >= BUFSZ THEN put % BUFSZ ELSE put
      /\ is_full' = (is_full \/ full)
      /\ get_index' = IF is_full' THEN put_index' ELSE get_index

(* Mutant: a message is only sent when none is pending. *)
IndicateOnce(size) ==
  /\ rx_mq' = IF rx_mq = <<>> THEN <<size>> ELSE rx_mq
  /\ dropped' = FALSE

(* M606_rx: rt_mq_send, which fails when the queue is full. *)
M606Rx(size) ==
  LET full == Len(rx_mq) = MQ_SIZE
  IN  /\ rx_mq' = IF full THEN rx_mq ELSE Append(rx_mq, size)
      /\ dropped' = full

(* rt_hw_serial_isr, RX_DMADONE: the callback gets the length of all that  *)
(* is unread.                                                              *)
DmaDone(len) ==
  /\ UpdatePutIndex(len)
  /\ M606Rx(CalcRecvedLen(put_index', get_index', is_full'))

(* Mutant: last_index is not brought up to date. *)
UartIsrNoIndex ==
  /\ idle /\ ~ isr /\ isr' = TRUE
  /\ last_index' = last_index
  /\ reported' = arrived
  /\ IF dma = last_index
     THEN UNCHANGED <<put_index, get_index, is_full, rx_mq, dropped>>
     ELSE DmaDone(dma - last_index)
  /\ UNCHANGED <<buffer, dma, arrived, idle, rfid>>

(* uart_isr for the idle line, up to the return of the callback.  Threads  *)
(* do not run before the interrupt has returned, but the DMA does.         *)
UartIsr ==
  /\ idle /\ ~ isr /\ isr' = TRUE
  /\ last_index' = dma
  /\ reported' = arrived
  /\ IF dma = last_index
     THEN UNCHANGED <<put_index, get_index, is_full, rx_mq, dropped>>
     ELSE DmaDone(dma - last_index)
  /\ UNCHANGED <<buffer, dma, arrived, idle, rfid>>

(* Then it clears the flag, also when the line has become idle again since *)
(* the counter was read: the flag does not count.                          *)
UartIsrEnd ==
  /\ isr
  /\ isr' = FALSE /\ idle' = FALSE
  /\ UNCHANGED <<buffer, dma, arrived, last_index, put_index, get_index, is_full,
                 reported, rx_mq, dropped, rfid>>

-----------------------------------------------------------------------------
(* rfid_get: rt_mq_recv waits for a message. *)
RfidRecv ==
  /\ ~ isr /\ rfid.pc = "recv" /\ rx_mq # <<>>
  /\ rfid' = [pc |-> "read", size |-> Head(rx_mq)]
  /\ rx_mq' = Tail(rx_mq)
  /\ UNCHANGED <<buffer, dma, arrived, idle, isr, last_index, put_index, get_index,
                 is_full, reported, dropped>>

(* The length _serial_dma_rx delivers. *)
ReadLen == IF rfid.size < RecvedLen THEN rfid.size ELSE RecvedLen

(* rt_dma_recv_update_get_index *)
UpdateGetIndex(len) ==
  /\ is_full' = (is_full /\ len = 0)
  /\ get_index' = (get_index + len) % BUFSZ

(* rt_device_read, with interrupts disabled. *)
RfidRead ==
  /\ ~ isr /\ rfid.pc = "read"
  /\ UpdateGetIndex(ReadLen)
  /\ rfid' = Waiting
  /\ UNCHANGED <<buffer, dma, arrived, idle, isr, last_index, put_index, reported, rx_mq,
                 dropped>>

Rfid == RfidRecv \/ RfidRead
Isr  == UartIsr \/ UartIsrEnd
Next == Receive \/ Isr \/ Rfid

(* A pending interrupt is taken and ends, and RFID runs when it is ready:  *)
(* only the shell and FLASH have a higher priority, and they wait most of  *)
(* the time.                                                               *)
Fairness == WF_vars(Isr) /\ WF_vars(Rfid)

Spec == Init /\ [][Next]_vars
FairSpec == Spec /\ Fairness

-----------------------------------------------------------------------------
(* Properties                                                              *)

TypeOK ==
  /\ buffer \in [Places -> 0 .. MaxBytes]
  /\ dma \in Places /\ last_index \in Places
  /\ put_index \in Places /\ get_index \in Places
  /\ is_full \in BOOLEAN /\ idle \in BOOLEAN /\ isr \in BOOLEAN /\ dropped \in BOOLEAN
  /\ arrived \in 0 .. MaxBytes /\ reported \in 0 .. arrived
  /\ rx_mq \in Seq(0 .. BUFSZ) /\ Len(rx_mq) <= MQ_SIZE
  /\ rfid \in [pc : {"recv", "read"}, size : 0 .. BUFSZ]

(* Bytes the reader has taken or that are lost. *)
Taken == reported - RecvedLen

(* What serial.c offers to a read is the newest part of the stream, without*)
(* a gap and in order, although the received length may be negative and the*)
(* DMA may have gone around more than once: rt_dma_recv_update_put_index   *)
(* always ends at the position of the DMA.                                 *)
OfferedInOrder ==
  arrived - Taken <= BUFSZ =>
    \A j \in 0 .. RecvedLen - 1 : buffer[(get_index + j) % BUFSZ] = Taken + j

(* The indices lose unread bytes only when a whole buffer of them had      *)
(* accumulated; otherwise they move past a byte only when it is read.      *)
LossOnlyByOverrun ==
  [][Taken' # Taken => \/ rfid.pc = "read" /\ Taken' = Taken + ReadLen
                       \/ arrived - Taken >= BUFSZ]_vars

(* Bytes are not left behind: when RFID sleeps on an empty queue everything*)
(* reported has been read, unless the last message found the queue full.   *)
NothingStranded ==
  rfid.pc = "recv" /\ rx_mq = <<>> /\ ~ dropped => RecvedLen = 0

(* The strengthenings that make the invariants above inductive.  They count*)
(* places around the buffer without division: Fwd and Back go n places on  *)
(* and back, for n up to BUFSZ.                                            *)
Fwd(p, n)  == IF p + n < BUFSZ THEN p + n ELSE p + n - BUFSZ
Back(p, n) == IF n <= p THEN p - n ELSE p - n + BUFSZ

(* The interrupt leaves put_index where it saw the DMA.                    *)
PutIsLast == put_index = last_index

(* Where the DMA is, unless it has gone around since the last interrupt.   *)
DmaAhead == arrived - reported < BUFSZ => dma = Fwd(last_index, arrived - reported)

(* The last BUFSZ bytes of the stream are behind the DMA. *)
Newest ==
  \A n \in 1 .. BUFSZ : n <= arrived => buffer[Back(dma, n)] = arrived - n

(* The last message that is pending covers everything unread. *)
LastSize == IF rx_mq = <<>> THEN rfid.size ELSE rx_mq[Len(rx_mq)]
LastCovers == ~ dropped => RecvedLen <= LastSize

(* No size is left from a message that has been dealt with. *)
NoOldSize == rfid.pc = "recv" => rfid.size = 0

(* is_full is set only together with equal indices. *)
FullMeansMet == is_full => put_index = get_index

(* Before the buffer is full for the first time no index has wrapped. *)
FirstRound ==
  /\ arrived < BUFSZ => dma = arrived
  /\ reported < BUFSZ => last_index = reported /\ get_index <= last_index /\ ~ is_full

(* The inductive invariant of the reader's stream. *)
StreamInv ==
  /\ TypeOK /\ PutIsLast /\ DmaAhead /\ Newest
  /\ FullMeansMet /\ FirstRound /\ LastCovers /\ NoOldSize

(* Seen from the queue, the interrupt and rfid_get are a producer and one  *)
(* consumer: rx_mq keeps the promise that MsgQueue keeps, that sizes arrive*)
(* in the order in which M606_rx sent them and no more than MQ_SIZE wait.  *)
Queue == INSTANCE BoundedQueue WITH
  Threads <- {"RFID"}, Msgs <- 0 .. BUFSZ, max_msgs <- MQ_SIZE, NoMsg <- -1, queue <- rx_mq,
  got <- [t \in {"RFID"} |-> IF rfid.pc = "read" THEN rfid.size ELSE -1]

UsesQueue == Queue!Spec

(* Whatever has arrived when the line becomes idle is read in the end, or  *)
(* overwritten by later frames, unless messages are dropped.  This is not  *)
(* so of a frame that ends while uart_isr is between the DMA counter and   *)
(* the flag: its idle line is forgotten and it is read with the next frame,*)
(* which never comes if the tag reader falls silent.                       *)
FramesAreRead ==
  \A n \in 1 .. MaxBytes :
    [](idle /\ ~ isr /\ arrived = n => <>(Taken >= n \/ dropped))

-----------------------------------------------------------------------------
(* What the comments of the code say and the code does not do.             *)

(* M606.h, ONE_DATA_MAXLEN: only the half and full buffer interrupts make  *)
(* a reception shorter than a frame.  They are masked, so every message    *)
(* must deliver a frame.  When it delivers nothing, rfid_get returns the   *)
(* frame of an earlier message and scan_rfid counts it again.              *)
FrameReached == rfid.pc = "read" => ReadLen >= FRAME

=============================================================================
