--------------------------- MODULE SerialRxProofs ---------------------------
(***************************************************************************)
(* Proofs about the receive path of the tag reader, for every size of the  *)
(* buffer, frame and queue.  StreamInv is inductive: the interrupt leaves  *)
(* put_index at the DMA, the DMA is as far from it as bytes have arrived   *)
(* since, and the bytes behind the DMA are the newest of the stream.       *)
(***************************************************************************)
EXTENDS SerialRx, SequenceTheorems, TLAPS

USE SerialRxAssumption

-----------------------------------------------------------------------------
(* The remainder of a position that is at most once around the buffer.     *)
LEMMA ModSmall ==
  ASSUME NEW N \in Nat \ {0}, NEW a \in 0 .. N - 1
  PROVE  a % N = a
  OBVIOUS

(* One round is taken off.                                                 *)
LEMMA ModRound ==
  ASSUME NEW N \in Nat \ {0}, NEW a \in N .. 2 * N - 1
  PROVE  a % N = a - N
  OBVIOUS

(* Going on by at most a buffer, as rt_dma_recv_update_get_index does.     *)
LEMMA ModIsFwd ==
  ASSUME NEW p \in Places, NEW n \in 0 .. BUFSZ
  PROVE  (p + n) % BUFSZ = Fwd(p, n) /\ Fwd(p, n) \in Places
  <1>1. CASE p + n < BUFSZ
    <2>1. (p + n) % BUFSZ = p + n
      BY <1>1, ModSmall DEF Places
    <2> QED BY <1>1, <2>1 DEF Fwd, Places
  <1>2. CASE p + n >= BUFSZ
    <2>1. (p + n) % BUFSZ = p + n - BUFSZ
      BY <1>2, ModRound DEF Places
    <2> QED BY <1>2, <2>1 DEF Fwd, Places
  <1> QED BY <1>1, <1>2 DEF Places

(* The received length is a number of bytes of the buffer.                 *)
LEMMA LenRange ==
  ASSUME NEW p \in Places, NEW g \in Places, NEW f \in BOOLEAN
  PROVE  CalcRecvedLen(p, g, f) \in 0 .. BUFSZ
  BY DEF CalcRecvedLen, Places

(* Reading n bytes takes them off the received length.                     *)
LEMMA ReadShrinks ==
  ASSUME NEW p \in Places, NEW g \in Places, NEW f \in BOOLEAN,
         NEW n \in 0 .. CalcRecvedLen(p, g, f), f => p = g
  PROVE  CalcRecvedLen(p, Fwd(g, n), f /\ n = 0) = CalcRecvedLen(p, g, f) - n
  <1>1. n \in 0 .. BUFSZ
    BY LenRange
  <1>2. CASE f
    BY <1>1, <1>2 DEF CalcRecvedLen, Fwd, Places
  <1>3. CASE ~ f
    BY <1>1, <1>3 DEF CalcRecvedLen, Fwd, Places
  <1> QED BY <1>2, <1>3

(* Places counted back from a position that was reached by going on.       *)
LEMMA BackOfFwd ==
  ASSUME NEW p \in Places, NEW d \in 0 .. BUFSZ - 1, NEW n \in 1 .. BUFSZ, d <= n
  PROVE  Back(Fwd(p, d), n) = Back(p, n - d)
  BY DEF Back, Fwd, Places

(* The sum of put_index and the received length, negative or not, is the   *)
(* position of the DMA: the 16-bit counter does not disturb it.            *)
LEMMA PutFollowsDma ==
  ASSUME NEW p \in Places, NEW q \in Places
  PROVE  (p + (q - p) + IDX_MOD) % IDX_MOD = q
  <1>1. p + (q - p) + IDX_MOD = q + IDX_MOD
    BY DEF Places
  <1>2. q + IDX_MOD \in IDX_MOD .. 2 * IDX_MOD - 1 /\ IDX_MOD \in Nat \ {0}
    BY DEF Places
  <1>3. (q + IDX_MOD) % IDX_MOD = (q + IDX_MOD) - IDX_MOD
    BY <1>2, ModRound
  <1> QED BY <1>1, <1>3 DEF Places

-----------------------------------------------------------------------------
(* What an interrupt that reports bytes does to the fifo: put_index is the *)
(* place of the DMA, and the reader is moved when is_full is set.          *)
LEMMA IsrFifo ==
  ASSUME TypeOK, PutIsLast, DmaDone(dma - last_index)
  PROVE  /\ put_index' = dma
         /\ is_full' = (is_full \/ (put_index < get_index /\ dma >= get_index))
         /\ is_full' \in BOOLEAN
         /\ get_index' = IF is_full' THEN put_index' ELSE get_index
         /\ get_index' \in Places
  <1> USE DEF TypeOK, PutIsLast
  <1>1. (put_index + (dma - last_index) + IDX_MOD) % IDX_MOD = dma
    BY PutFollowsDma
  <1>2. dma < BUFSZ /\ dma \in Places /\ get_index \in Places /\ put_index \in Places
    BY DEF Places
  <1>3. put_index' = dma
    BY <1>1, <1>2 DEF DmaDone, UpdatePutIndex, Places
  <1>4. is_full' = (is_full \/ (put_index < get_index /\ dma >= get_index))
    BY <1>1, <1>2 DEF DmaDone, UpdatePutIndex, Places
  <1>5. get_index' = IF is_full' THEN put_index' ELSE get_index
    BY DEF DmaDone, UpdatePutIndex
  <1> QED BY <1>2, <1>3, <1>4, <1>5

(* The message the interrupt sends, or drops.                              *)
LEMMA IsrMessage ==
  ASSUME TypeOK, PutIsLast, DmaDone(dma - last_index)
  PROVE  /\ RecvedLen' \in 0 .. BUFSZ
         /\ \/ Len(rx_mq) = MQ_SIZE /\ rx_mq' = rx_mq /\ dropped' = TRUE
            \/ Len(rx_mq) < MQ_SIZE /\ rx_mq' = Append(rx_mq, RecvedLen') /\ dropped' = FALSE
  <1>1. RecvedLen' \in 0 .. BUFSZ
    BY IsrFifo, LenRange DEF TypeOK, RecvedLen
  <1>2. RecvedLen' = CalcRecvedLen(put_index', get_index', is_full')
    BY DEF RecvedLen
  <1>3. CASE Len(rx_mq) = MQ_SIZE
    BY <1>1, <1>3 DEF DmaDone, M606Rx
  <1>4. CASE Len(rx_mq) # MQ_SIZE
    <2>1. Len(rx_mq) < MQ_SIZE
      BY <1>4 DEF TypeOK
    <2> QED BY <1>1, <1>2, <1>4, <2>1 DEF DmaDone, M606Rx
  <1> QED BY <1>3, <1>4

(* What a read takes is at most what is there.                             *)
LEMMA ReadFifo ==
  ASSUME TypeOK, FullMeansMet, RfidRead
  PROVE  /\ ReadLen \in 0 .. RecvedLen /\ RecvedLen \in 0 .. BUFSZ
         /\ get_index' = Fwd(get_index, ReadLen) /\ get_index' \in Places
         /\ is_full' = (is_full /\ ReadLen = 0)
         /\ RecvedLen' = RecvedLen - ReadLen
  <1>1. RecvedLen \in 0 .. BUFSZ
    BY LenRange DEF TypeOK, RecvedLen
  <1>2. rfid.size \in 0 .. BUFSZ
    BY DEF TypeOK
  <1>3. ReadLen \in 0 .. RecvedLen
    BY <1>1, <1>2 DEF ReadLen
  <1>4. get_index' = Fwd(get_index, ReadLen) /\ get_index' \in Places
    <2>1. ReadLen \in 0 .. BUFSZ /\ get_index \in Places
      BY <1>1, <1>3 DEF TypeOK
    <2>2. get_index' = (get_index + ReadLen) % BUFSZ
      BY DEF RfidRead, UpdateGetIndex
    <2> QED BY <2>1, <2>2, ModIsFwd
  <1>5. is_full' = (is_full /\ ReadLen = 0) /\ put_index' = put_index
    BY DEF RfidRead, UpdateGetIndex
  <1>6. RecvedLen' = RecvedLen - ReadLen
    <2>1. ReadLen \in 0 .. CalcRecvedLen(put_index, get_index, is_full)
      BY <1>3 DEF RecvedLen
    <2>2. put_index \in Places /\ get_index \in Places /\ is_full \in BOOLEAN
      BY DEF TypeOK
    <2>3. is_full => put_index = get_index
      BY DEF FullMeansMet
    <2>4. CalcRecvedLen(put_index, Fwd(get_index, ReadLen), is_full /\ ReadLen = 0)
            = CalcRecvedLen(put_index, get_index, is_full) - ReadLen
      BY <2>1, <2>2, <2>3, ReadShrinks
    <2> QED BY <1>4, <1>5, <2>4 DEF RecvedLen
  <1> QED BY <1>1, <1>3, <1>4, <1>5, <1>6

-----------------------------------------------------------------------------
(* Type correctness along a step.                                          *)
LEMMA TypeStep ==
  ASSUME TypeOK, PutIsLast, FullMeansMet, [Next]_vars
  PROVE  TypeOK'
  <1> USE DEF TypeOK
  <1>1. CASE Receive
    <2>1. dma' \in Places
      <3>1. 1 \in 0 .. BUFSZ
        OBVIOUS
      <3> QED BY <1>1, <3>1, ModIsFwd DEF Receive
    <2>2. arrived \in 0 .. MaxBytes /\ arrived' \in 0 .. MaxBytes /\ reported' \in 0 .. arrived'
      BY <1>1 DEF Receive
    <2>3. buffer' \in [Places -> 0 .. MaxBytes]
      BY <1>1, <2>2 DEF Receive
    <2>4. idle' \in BOOLEAN /\ isr' \in BOOLEAN
      BY <1>1 DEF Receive
    <2> QED BY <1>1, <2>1, <2>2, <2>3, <2>4 DEF Receive
  <1>2. CASE UartIsr
    <2>a. idle' \in BOOLEAN /\ isr' \in BOOLEAN
      BY <1>2, Zenon DEF UartIsr
    <2>b. last_index' \in Places
      BY <1>2 DEF UartIsr
    <2>c. arrived' = arrived /\ reported' = arrived /\ arrived \in 0 .. MaxBytes
      BY <1>2 DEF UartIsr
    <2>d. reported' \in 0 .. arrived'
      BY <2>c
    <2>1. CASE dma = last_index
      BY <1>2, <2>1, <2>a, <2>b, <2>d DEF UartIsr
    <2>2. CASE dma # last_index
      <3>1. DmaDone(dma - last_index)
        BY <1>2, <2>2 DEF UartIsr
      <3>2. put_index' \in Places /\ get_index' \in Places /\ is_full' \in BOOLEAN
        BY <3>1, IsrFifo
      <3>3. rx_mq' \in Seq(0 .. BUFSZ) /\ Len(rx_mq') <= MQ_SIZE /\ dropped' \in BOOLEAN
        <4>1. RecvedLen' \in 0 .. BUFSZ
          BY <3>1, IsrMessage
        <4>2. CASE rx_mq' = rx_mq /\ dropped' = TRUE
          BY <4>2
        <4>3. CASE Len(rx_mq) < MQ_SIZE /\ rx_mq' = Append(rx_mq, RecvedLen') /\ dropped' = FALSE
          <5>1. rx_mq' \in Seq(0 .. BUFSZ) /\ Len(rx_mq') = Len(rx_mq) + 1
            BY <4>1, <4>3
          <5>2. Len(rx_mq') <= MQ_SIZE
            BY <4>3, <5>1
          <5>3. dropped' \in BOOLEAN
            BY <4>3, Zenon
          <5> QED BY <5>1, <5>2, <5>3
        <4> QED BY <3>1, <4>2, <4>3, IsrMessage
      <3> QED BY <1>2, <3>2, <3>3, <2>a, <2>b, <2>d DEF UartIsr
    <2> QED BY <2>1, <2>2
  <1>3. CASE RfidRecv
    <2>1. Head(rx_mq) \in 0 .. BUFSZ
      BY <1>3 DEF RfidRecv
    <2>2. Tail(rx_mq) \in Seq(0 .. BUFSZ) /\ Len(Tail(rx_mq)) <= MQ_SIZE
      BY <1>3 DEF RfidRecv
    <2> QED BY <1>3, <2>1, <2>2 DEF RfidRecv
  <1>4. CASE RfidRead
    <2>1. get_index' \in Places /\ is_full' = (is_full /\ ReadLen = 0)
      BY <1>4, ReadFifo
    <2> QED BY <1>4, <2>1 DEF RfidRead, Waiting
  <1>5. CASE UNCHANGED vars
    BY <1>5 DEF vars
  <1>6. CASE UartIsrEnd
    <2>1. idle' \in BOOLEAN /\ isr' \in BOOLEAN
      BY <1>6, Zenon DEF UartIsrEnd
    <2> QED BY <1>6, <2>1 DEF UartIsrEnd
  <1> QED BY <1>1, <1>2, <1>3, <1>4, <1>5, <1>6 DEF Next, Isr, Rfid

(* The interrupt and the reader agree on put_index and is_full.            *)
LEMMA IndexStep ==
  ASSUME TypeOK, PutIsLast, FullMeansMet, [Next]_vars
  PROVE  PutIsLast' /\ FullMeansMet'
  <1> USE DEF PutIsLast, FullMeansMet
  <1>1. CASE Receive
    BY <1>1 DEF Receive
  <1>2. CASE UartIsr
    <2>1. CASE dma = last_index
      BY <1>2, <2>1 DEF UartIsr
    <2>2. CASE dma # last_index
      <3>1. DmaDone(dma - last_index) /\ last_index' = dma
        BY <1>2, <2>2 DEF UartIsr
      <3> QED BY <3>1, IsrFifo
    <2> QED BY <2>1, <2>2
  <1>3. CASE RfidRecv
    BY <1>3 DEF RfidRecv
  <1>4. CASE RfidRead
    <2>1. PutIsLast'
      BY <1>4 DEF RfidRead
    <2>2. ASSUME is_full' PROVE put_index' = get_index'
      <3>1. is_full /\ ReadLen = 0 /\ get_index' = Fwd(get_index, 0)
        BY <1>4, <2>2, ReadFifo
      <3>2. get_index' = get_index
        BY <3>1 DEF Fwd, TypeOK, Places
      <3> QED BY <1>4, <3>1, <3>2 DEF RfidRead
    <2> QED BY <2>1, <2>2
  <1>5. CASE UartIsrEnd \/ UNCHANGED vars
    BY <1>5 DEF UartIsrEnd, vars
  <1> QED BY <1>1, <1>2, <1>3, <1>4, <1>5 DEF Next, Isr, Rfid

-----------------------------------------------------------------------------
(* Where the DMA is, and which bytes are behind it.                        *)
LEMMA DmaStep ==
  ASSUME TypeOK, DmaAhead, Newest, [Next]_vars
  PROVE  DmaAhead' /\ Newest'
  <1>0. /\ dma \in Places /\ last_index \in Places
        /\ arrived \in Nat /\ reported \in Nat /\ reported <= arrived
        /\ buffer \in [Places -> 0 .. MaxBytes]
    BY DEF TypeOK
  <1>1. CASE Receive
    <2>1. dma' = Fwd(dma, 1)
      <3>1. 1 \in 0 .. BUFSZ
        OBVIOUS
      <3> QED BY <1>0, <1>1, <3>1, ModIsFwd DEF Receive
    <2>2. /\ arrived' = arrived + 1 /\ reported' = reported /\ last_index' = last_index
          /\ buffer' = [buffer EXCEPT ![dma] = arrived]
      BY <1>1 DEF Receive
    <2>3. DmaAhead'
      BY <1>0, <2>1, <2>2 DEF DmaAhead, Fwd, Places
    <2>4. Newest'
      <3>1. SUFFICES ASSUME NEW n \in 1 .. BUFSZ, n <= arrived'
                     PROVE  buffer'[Back(dma', n)] = arrived' - n
        BY DEF Newest
      <3>2. CASE n = 1
        <4>1. Back(dma', n) = dma
          BY <1>0, <2>1, <3>2 DEF Back, Fwd, Places
        <4> QED BY <1>0, <2>2, <3>2, <4>1
      <3>3. CASE n # 1
        <4>1. n - 1 \in 1 .. BUFSZ /\ n - 1 <= arrived
          BY <1>0, <2>2, <3>1, <3>3
        <4>2. Back(dma', n) = Back(dma, n - 1) /\ Back(dma, n - 1) \in Places \ {dma}
          BY <1>0, <2>1, <3>1, <3>3 DEF Back, Fwd, Places
        <4>3. buffer[Back(dma, n - 1)] = arrived - (n - 1)
          BY <4>1 DEF Newest
        <4> QED BY <1>0, <2>2, <4>2, <4>3
      <3> QED BY <3>2, <3>3
    <2> QED BY <2>3, <2>4
  <1>2. CASE UartIsr
    <2>1. /\ dma' = dma /\ last_index' = dma /\ arrived' = arrived /\ reported' = arrived
          /\ buffer' = buffer
      BY <1>2 DEF UartIsr
    <2> QED BY <1>0, <2>1 DEF DmaAhead, Newest, Fwd, Places
  <1>3. CASE UartIsrEnd \/ Rfid \/ UNCHANGED vars
    <2>1. UNCHANGED <<dma, last_index, arrived, reported, buffer>>
      BY <1>3 DEF UartIsrEnd, Rfid, RfidRecv, RfidRead, vars
    <2> QED BY <2>1 DEF DmaAhead, Newest
  <1> QED BY <1>1, <1>2, <1>3 DEF Next, Isr

(* Before the buffer is full for the first time no index wraps.            *)
LEMMA FirstRoundStep ==
  ASSUME TypeOK, PutIsLast, FullMeansMet, FirstRound, [Next]_vars
  PROVE  FirstRound'
  <1>0. /\ dma \in Places /\ last_index \in Places /\ get_index \in Places
        /\ put_index = last_index /\ is_full \in BOOLEAN
        /\ arrived \in Nat /\ reported \in Nat /\ reported <= arrived
    BY DEF TypeOK, PutIsLast
  <1>1. CASE Receive
    <2>1. /\ arrived' = arrived + 1 /\ dma' = (dma + 1) % BUFSZ
          /\ UNCHANGED <<reported, last_index, get_index, is_full>>
      BY <1>1 DEF Receive
    <2>2. arrived' < BUFSZ => dma' = arrived'
      BY <1>0, <2>1, ModSmall DEF FirstRound
    <2> QED BY <2>1, <2>2 DEF FirstRound
  <1>2. CASE UartIsr
    <2>1. dma' = dma /\ last_index' = dma /\ arrived' = arrived /\ reported' = arrived
      BY <1>2 DEF UartIsr
    <2>2. SUFFICES ASSUME arrived < BUFSZ
                   PROVE  get_index' <= dma /\ ~ is_full'
      BY <2>1 DEF FirstRound
    <2>3. /\ dma = arrived /\ last_index = reported
          /\ get_index <= last_index /\ last_index <= dma /\ ~ is_full
      BY <1>0, <2>2 DEF FirstRound
    <2>4. CASE dma = last_index
      BY <1>2, <2>3, <2>4 DEF UartIsr
    <2>5. CASE dma # last_index
      <3>1. DmaDone(dma - last_index)
        BY <1>2, <2>5 DEF UartIsr
      <3>2. ~ (put_index < get_index)
        BY <1>0, <2>3 DEF Places
      <3>3. ~ is_full' /\ get_index' = get_index
        BY <2>3, <3>1, <3>2, IsrFifo
      <3> QED BY <1>0, <2>3, <3>3 DEF Places
    <2> QED BY <2>4, <2>5
  <1>3. CASE RfidRead
    <2>1. UNCHANGED <<dma, arrived, reported, last_index>>
      BY <1>3 DEF RfidRead
    <2>2. SUFFICES ASSUME reported < BUFSZ
                   PROVE  get_index' <= last_index /\ ~ is_full'
      BY <2>1 DEF FirstRound
    <2>3. get_index <= last_index /\ ~ is_full
      BY <2>2 DEF FirstRound
    <2>4. ReadLen \in 0 .. RecvedLen /\ get_index' = Fwd(get_index, ReadLen) /\ ~ is_full'
      BY <1>3, <2>3, ReadFifo
    <2>5. RecvedLen = last_index - get_index
      BY <1>0, <2>3 DEF RecvedLen, CalcRecvedLen, Places
    <2> QED BY <1>0, <2>3, <2>4, <2>5 DEF Fwd, Places
  <1>4. CASE UartIsrEnd \/ RfidRecv \/ UNCHANGED vars
    BY <1>4 DEF UartIsrEnd, RfidRecv, vars, FirstRound
  <1> QED BY <1>1, <1>2, <1>3, <1>4 DEF Next, Isr, Rfid

-----------------------------------------------------------------------------
(* The newest message covers what is unread, and RFID keeps no old size.   *)
LEMMA MessageStep ==
  ASSUME TypeOK, PutIsLast, FullMeansMet, LastCovers, NoOldSize, [Next]_vars
  PROVE  LastCovers' /\ NoOldSize'
  <1>0. rx_mq \in Seq(0 .. BUFSZ) /\ rfid.size \in 0 .. BUFSZ
    BY DEF TypeOK
  <1>1. CASE Receive \/ UartIsrEnd \/ UNCHANGED vars
    BY <1>1 DEF Receive, UartIsrEnd, vars, LastCovers, LastSize, NoOldSize, RecvedLen
  <1>2. CASE UartIsr
    <2>1. rfid' = rfid
      BY <1>2 DEF UartIsr
    <2>2. NoOldSize'
      BY <2>1 DEF NoOldSize
    <2>3. CASE dma = last_index
      <3>1. UNCHANGED <<put_index, get_index, is_full, rx_mq, dropped, rfid>>
        BY <1>2, <2>3 DEF UartIsr
      <3> QED BY <2>2, <3>1 DEF LastCovers, LastSize, RecvedLen
    <2>4. CASE dma # last_index
      <3>1. DmaDone(dma - last_index)
        BY <1>2, <2>4 DEF UartIsr
      <3>2. CASE dropped' = TRUE
        BY <2>2, <3>2 DEF LastCovers
      <3>3. CASE rx_mq' = Append(rx_mq, RecvedLen')
        <4>1. RecvedLen' \in 0 .. BUFSZ
          BY <3>1, IsrMessage
        <4>2. rx_mq' # <<>> /\ rx_mq'[Len(rx_mq')] = RecvedLen'
          BY <1>0, <3>3, <4>1
        <4>3. LastSize' = RecvedLen'
          BY <4>2 DEF LastSize
        <4> QED BY <2>2, <4>1, <4>3 DEF LastCovers
      <3> QED BY <3>1, <3>2, <3>3, IsrMessage
    <2> QED BY <2>3, <2>4
  <1>3. CASE RfidRecv
    <2>1. /\ rx_mq # <<>> /\ rx_mq' = Tail(rx_mq)
          /\ rfid' = [pc |-> "read", size |-> Head(rx_mq)]
          /\ UNCHANGED <<put_index, get_index, is_full, dropped>>
      BY <1>3 DEF RfidRecv
    <2>2. LastSize' = LastSize
      <3>1. CASE Len(rx_mq) = 1
        <4>1. rx_mq' = <<>> /\ rx_mq[Len(rx_mq)] = Head(rx_mq)
          BY <1>0, <2>1, <3>1
        <4> QED BY <2>1, <4>1 DEF LastSize
      <3>2. CASE Len(rx_mq) # 1
        <4>1. Len(rx_mq) \in Nat /\ Len(rx_mq) > 1
          <5>1. Len(rx_mq) \in Nat /\ Len(rx_mq) # 0
            BY <1>0, <2>1, EmptySeq
          <5>2. \A l \in Nat : l # 0 /\ l # 1 => l > 1
            OBVIOUS
          <5> QED BY <3>2, <5>1, <5>2
        <4>2. Len(rx_mq') = Len(rx_mq) - 1
          BY <1>0, <2>1, <4>1
        <4>3. rx_mq'[Len(rx_mq) - 1] = rx_mq[(Len(rx_mq) - 1) + 1]
          BY <1>0, <2>1, <4>1
        <4>4. rx_mq' # <<>> /\ rx_mq'[Len(rx_mq')] = rx_mq[Len(rx_mq)]
          BY <4>1, <4>2, <4>3
        <4> QED BY <2>1, <4>4 DEF LastSize
      <3> QED BY <3>1, <3>2
    <2>3. RecvedLen' = RecvedLen
      BY <2>1 DEF RecvedLen
    <2>4. NoOldSize'
      BY <2>1 DEF NoOldSize
    <2> QED BY <2>1, <2>2, <2>3, <2>4 DEF LastCovers
  <1>4. CASE RfidRead
    <2>1. rfid' = [pc |-> "recv", size |-> 0] /\ rx_mq' = rx_mq /\ dropped' = dropped
      BY <1>4 DEF RfidRead, Waiting
    <2>2. NoOldSize'
      BY <2>1 DEF NoOldSize
    <2>3. SUFFICES ASSUME ~ dropped PROVE RecvedLen' <= LastSize'
      BY <2>1, <2>2 DEF LastCovers
    <2>4. /\ RecvedLen \in 0 .. BUFSZ /\ ReadLen \in 0 .. RecvedLen
          /\ RecvedLen' = RecvedLen - ReadLen
      BY <1>4, ReadFifo
    <2>5. RecvedLen <= LastSize
      BY <2>3 DEF LastCovers
    <2>6. CASE rx_mq = <<>>
      <3>1. LastSize = rfid.size /\ LastSize' = 0
        BY <2>1, <2>6 DEF LastSize
      <3>2. ReadLen = RecvedLen
        BY <1>0, <2>4, <2>5, <3>1 DEF ReadLen
      <3> QED BY <2>4, <3>1, <3>2
    <2>7. CASE rx_mq # <<>>
      <3>1. LastSize' = LastSize /\ LastSize \in 0 .. BUFSZ
        BY <1>0, <2>1, <2>7 DEF LastSize
      <3> QED BY <2>4, <2>5, <3>1
    <2> QED BY <2>6, <2>7
  <1> QED BY <1>1, <1>2, <1>3, <1>4 DEF Next, Isr, Rfid

(* StreamInv holds in the state M606_init leaves behind.                   *)
LEMMA StreamInit == Init => StreamInv
  <1> SUFFICES ASSUME Init PROVE StreamInv
    OBVIOUS
  <1>1. TypeOK
    <2>1. buffer \in [Places -> 0 .. MaxBytes] /\ arrived \in 0 .. MaxBytes
      BY DEF Init
    <2>2. reported \in 0 .. arrived /\ dma \in Places /\ last_index \in Places
          /\ put_index \in Places /\ get_index \in Places
      BY DEF Init, Places
    <2>3. is_full \in BOOLEAN /\ idle \in BOOLEAN /\ isr \in BOOLEAN /\ dropped \in BOOLEAN
      BY Zenon DEF Init
    <2>4. rx_mq \in Seq(0 .. BUFSZ) /\ Len(rx_mq) <= MQ_SIZE
      BY DEF Init
    <2>5. rfid \in [pc : {"recv", "read"}, size : 0 .. BUFSZ]
      BY DEF Init, Waiting
    <2> QED BY <2>1, <2>2, <2>3, <2>4, <2>5 DEF TypeOK
  <1>2. PutIsLast /\ FullMeansMet /\ NoOldSize
    BY DEF Init, PutIsLast, FullMeansMet, NoOldSize, Waiting
  <1>3. DmaAhead /\ Newest /\ FirstRound
    BY DEF Init, DmaAhead, Newest, FirstRound, Fwd
  <1>4. LastCovers
    BY DEF Init, LastCovers, LastSize, RecvedLen, CalcRecvedLen, Waiting
  <1> QED BY <1>1, <1>2, <1>3, <1>4 DEF StreamInv

(* The inductive invariant: it holds throughout.                           *)
THEOREM StreamInvariant == Spec => []StreamInv
  <1>1. StreamInv /\ [Next]_vars => StreamInv'
    BY TypeStep, IndexStep, DmaStep, FirstRoundStep, MessageStep DEF StreamInv
  <1> QED BY <1>1, StreamInit, PTL DEF Spec

(* Type correctness: every index of the fifo stays within the buffer.      *)
THEOREM TypeCorrect == Spec => []TypeOK
  <1>1. StreamInv => TypeOK
    BY DEF StreamInv
  <1> QED BY <1>1, StreamInvariant, PTL

(* When RFID sleeps on an empty queue nothing is left unread, unless the   *)
(* last message was dropped.                                               *)
THEOREM NoneStranded == Spec => []NothingStranded
  <1>1. StreamInv => NothingStranded
    <2>1. SUFFICES ASSUME StreamInv, rfid.pc = "recv", rx_mq = <<>>, ~ dropped
                   PROVE  RecvedLen = 0
      BY DEF NothingStranded
    <2>2. RecvedLen \in 0 .. BUFSZ
      BY <2>1, LenRange DEF StreamInv, TypeOK, RecvedLen
    <2>3. RecvedLen <= 0
      BY <2>1 DEF StreamInv, LastCovers, LastSize, NoOldSize
    <2> QED BY <2>2, <2>3
  <1> QED BY <1>1, StreamInvariant, PTL

(* What a read is offered is the newest part of the stream without a gap.  *)
THEOREM StreamInOrder == Spec => []OfferedInOrder
  <1>1. StreamInv => OfferedInOrder
    <2>1. SUFFICES ASSUME StreamInv, arrived - Taken <= BUFSZ,
                          NEW j \in 0 .. RecvedLen - 1
                   PROVE  buffer[(get_index + j) % BUFSZ] = Taken + j
      BY DEF OfferedInOrder
    <2>2. /\ put_index \in Places /\ get_index \in Places /\ is_full \in BOOLEAN
          /\ last_index = put_index /\ (is_full => put_index = get_index)
          /\ arrived \in Nat /\ reported \in Nat /\ reported <= arrived
      BY <2>1 DEF StreamInv, TypeOK, PutIsLast, FullMeansMet
    <2>3. RecvedLen \in 1 .. BUFSZ /\ j \in 0 .. BUFSZ /\ j < RecvedLen
      <3>1. RecvedLen \in 0 .. BUFSZ
        BY <2>2, LenRange DEF RecvedLen
      <3> QED BY <3>1
    <2> DEFINE d == arrived - reported
    <2> DEFINE k == RecvedLen - j
    <2>4. d \in 0 .. BUFSZ - 1 /\ k \in 1 .. BUFSZ /\ d + k \in 1 .. BUFSZ
      BY <2>1, <2>2, <2>3 DEF Taken
    <2>5. dma = Fwd(put_index, d)
      BY <2>1, <2>2, <2>4 DEF StreamInv, DmaAhead
    <2>6. (get_index + j) % BUFSZ = Fwd(get_index, j)
      BY <2>2, <2>3, ModIsFwd
    <2>7. Fwd(get_index, j) = Back(put_index, k)
      <3>1. CASE is_full
        BY <2>2, <2>3, <3>1 DEF RecvedLen, CalcRecvedLen, Fwd, Back, Places
      <3>2. CASE ~ is_full
        BY <2>2, <2>3, <3>2 DEF RecvedLen, CalcRecvedLen, Fwd, Back, Places
      <3> QED BY <3>1, <3>2
    <2>8. Back(dma, d + k) = Back(put_index, k)
      <3>1. Back(Fwd(put_index, d), d + k) = Back(put_index, (d + k) - d)
        BY <2>2, <2>4, BackOfFwd
      <3>2. (d + k) - d = k
        BY <2>4
      <3> QED BY <2>5, <3>1, <3>2
    <2>9. RecvedLen <= reported
      <3>1. CASE reported >= BUFSZ
        BY <2>2, <2>3, <3>1
      <3>2. CASE reported < BUFSZ
        <4>1. put_index = reported /\ get_index <= put_index /\ ~ is_full
          BY <2>1, <2>2, <3>2 DEF StreamInv, FirstRound
        <4> QED BY <2>2, <4>1 DEF RecvedLen, CalcRecvedLen, Places
      <3> QED BY <2>2, <3>1, <3>2
    <2>10. d + k <= arrived /\ arrived - (d + k) = Taken + j
      BY <2>2, <2>3, <2>9 DEF Taken
    <2>11. buffer[Back(dma, d + k)] = arrived - (d + k)
      BY <2>1, <2>4, <2>10 DEF StreamInv, Newest
    <2> QED BY <2>6, <2>7, <2>8, <2>10, <2>11
  <1> QED BY <1>1, StreamInvariant, PTL

-----------------------------------------------------------------------------
(* An interrupt that comes before a whole buffer is unread adds exactly    *)
(* what has arrived to the received length.                                *)
LEMMA IsrAddsArrived ==
  ASSUME StreamInv, UartIsr, arrived - Taken < BUFSZ
  PROVE  Taken' = Taken
  <1> DEFINE d == arrived - reported
  <1>1. /\ put_index \in Places /\ get_index \in Places /\ dma \in Places
        /\ is_full \in BOOLEAN
        /\ last_index = put_index /\ (is_full => put_index = get_index)
        /\ arrived \in Nat /\ reported \in Nat /\ reported <= arrived
    BY DEF StreamInv, TypeOK, PutIsLast, FullMeansMet
  <1>2. RecvedLen \in 0 .. BUFSZ
    BY <1>1, LenRange DEF RecvedLen
  <1>3. d \in 0 .. BUFSZ - 1 /\ d + RecvedLen < BUFSZ
    BY <1>1, <1>2 DEF Taken
  <1>4. dma = Fwd(put_index, d)
    BY <1>1, <1>3 DEF StreamInv, DmaAhead
  <1>5. ~ is_full
    BY <1>1, <1>3 DEF RecvedLen, CalcRecvedLen
  <1>6. reported' = arrived
    BY DEF UartIsr
  <1>7. RecvedLen' = RecvedLen + d
    <2>1. CASE dma = last_index
      <3>1. d = 0
        BY <1>1, <1>3, <1>4, <2>1 DEF Fwd, Places
      <3>2. RecvedLen' = RecvedLen
        BY <2>1 DEF UartIsr, RecvedLen
      <3> QED BY <1>2, <3>1, <3>2
    <2>2. CASE dma # last_index
      <3>1. DmaDone(dma - last_index)
        BY <2>2 DEF UartIsr
      <3>2. ~ (put_index < get_index /\ dma >= get_index)
        BY <1>1, <1>3, <1>4, <1>5 DEF RecvedLen, CalcRecvedLen, Fwd, Places
      <3>3. put_index' = dma /\ get_index' = get_index /\ ~ is_full'
        BY <1>5, <3>1, <3>2, IsrFifo DEF StreamInv
      <3>4. RecvedLen' = CalcRecvedLen(dma, get_index, FALSE)
        BY <3>3 DEF RecvedLen, CalcRecvedLen
      <3>5. RecvedLen = CalcRecvedLen(put_index, get_index, FALSE)
        BY <1>5 DEF RecvedLen, CalcRecvedLen
      <3>6. CalcRecvedLen(dma, get_index, FALSE)
              = CalcRecvedLen(put_index, get_index, FALSE) + d
        BY <1>1, <1>3, <1>4, <3>5 DEF CalcRecvedLen, Fwd, Places
      <3> QED BY <3>4, <3>5, <3>6
    <2> QED BY <2>1, <2>2
  <1> QED BY <1>1, <1>2, <1>6, <1>7 DEF Taken

(* Unread bytes are lost only when a whole buffer of them had accumulated. *)
THEOREM OnlyOverrunLoses == Spec => LossOnlyByOverrun
  <1>1. ASSUME StreamInv, [Next]_vars
        PROVE  Taken' # Taken => \/ rfid.pc = "read" /\ Taken' = Taken + ReadLen
                                 \/ arrived - Taken >= BUFSZ
    <2>0. arrived \in Nat /\ reported \in Nat /\ RecvedLen \in 0 .. BUFSZ
      BY <1>1, LenRange DEF StreamInv, TypeOK, RecvedLen
    <2>1. CASE UartIsr
      <3>1. arrived - Taken < BUFSZ \/ arrived - Taken >= BUFSZ
        BY <2>0 DEF Taken
      <3> QED BY <1>1, <2>1, <3>1, IsrAddsArrived
    <2>2. CASE RfidRead
      <3>1. ReadLen \in 0 .. RecvedLen /\ RecvedLen' = RecvedLen - ReadLen
        BY <1>1, <2>2, ReadFifo DEF StreamInv
      <3>2. reported' = reported /\ rfid.pc = "read"
        BY <2>2 DEF RfidRead
      <3>3. Taken' = Taken + ReadLen
        BY <2>0, <3>1, <3>2 DEF Taken
      <3> QED BY <3>2, <3>3
    <2>3. CASE Receive \/ UartIsrEnd \/ RfidRecv \/ UNCHANGED vars
      <3>1. UNCHANGED <<put_index, get_index, is_full, reported>>
        BY <2>3 DEF Receive, UartIsrEnd, RfidRecv, vars
      <3>2. Taken' = Taken
        BY <3>1 DEF Taken, RecvedLen
      <3> QED BY <3>2
    <2> QED BY <1>1, <2>1, <2>2, <2>3 DEF Next, Isr, Rfid
  <1> QED BY <1>1, StreamInvariant, PTL DEF Spec, LossOnlyByOverrun

-----------------------------------------------------------------------------
(* The receive path is a client of the message queue: what M606_rx sends   *)
(* and rfid_get receives are Put, Take and Return of the abstract queue, a *)
(* refused message is a stutter, and RFID never asks for a second message  *)
(* before it has dealt with the first.                                     *)
THEOREM PathUsesQueue == Spec => UsesQueue
  <1> DEFINE Got == [t \in {"RFID"} |-> IF rfid.pc = "read" THEN rfid.size ELSE -1]
             QVars == <<rx_mq, Got>>
  <1>1. Init => Queue!Init
    BY DEF Init, Queue!Init, Waiting
  <1>2. ASSUME StreamInv, StreamInv', [Next]_vars
        PROVE  [Queue!Next]_QVars
    <2>1. TypeOK /\ PutIsLast
      BY <1>2 DEF StreamInv
    <2>2. CASE Receive \/ UartIsrEnd \/ UNCHANGED vars
      <3>1. rx_mq' = rx_mq /\ rfid' = rfid
        BY <2>2 DEF Receive, UartIsrEnd, vars
      <3> QED BY <3>1
    <2>3. CASE UartIsr
      <3>1. rfid' = rfid
        BY <2>3 DEF UartIsr
      <3>2. CASE dma = last_index
        BY <2>3, <3>1, <3>2 DEF UartIsr
      <3>3. CASE dma # last_index
        <4>1. DmaDone(dma - last_index)
          BY <2>3, <3>3 DEF UartIsr
        <4>2. RecvedLen' \in 0 .. BUFSZ
          BY <2>1, <4>1, IsrMessage
        <4>3. CASE rx_mq' = rx_mq
          BY <3>1, <4>3
        <4>4. CASE Len(rx_mq) < MQ_SIZE /\ rx_mq' = Append(rx_mq, RecvedLen')
          <5>1. Queue!Put(RecvedLen')
            BY <3>1, <4>4 DEF Queue!Put
          <5> QED BY <4>2, <5>1 DEF Queue!Next
        <4> QED BY <2>1, <4>1, <4>3, <4>4, IsrMessage
      <3> QED BY <3>2, <3>3
    <2>4. CASE RfidRecv
      <3>1. /\ rfid.pc = "recv" /\ rx_mq # <<>> /\ rx_mq' = Tail(rx_mq)
            /\ rfid'.pc = "read" /\ rfid'.size = Head(rx_mq)
        BY <2>4 DEF RfidRecv
      <3>2. Got["RFID"] = -1
        BY <3>1
      <3>3. Got' = [Got EXCEPT !["RFID"] = Head(rx_mq)]
        BY <3>1
      <3>4. Queue!Take("RFID")
        BY <3>1, <3>2, <3>3 DEF Queue!Take
      <3> QED BY <3>4 DEF Queue!Next
    <2>5. CASE RfidRead
      <3>1. rfid.pc = "read" /\ rfid'.pc = "recv" /\ rx_mq' = rx_mq
        BY <2>5 DEF RfidRead, Waiting
      <3>2. Got["RFID"] # -1
        BY <2>1, <3>1 DEF TypeOK
      <3>3. Got' = [Got EXCEPT !["RFID"] = -1]
        BY <3>1
      <3>4. Queue!Return("RFID")
        BY <3>1, <3>2, <3>3 DEF Queue!Return
      <3> QED BY <3>4 DEF Queue!Next
    <2> QED BY <1>2, <2>2, <2>3, <2>4, <2>5 DEF Next, Isr, Rfid
  <1> QED BY <1>1, <1>2, StreamInvariant, PTL DEF Spec, UsesQueue, Queue!Spec

=============================================================================
