------------------------- MODULE AbstractUARTProof -------------------------
(***************************************************************************)
(* Proofs about AbstractUART for every depth of the queues, every set of   *)
(* thresholds and every traffic.                                           *)
(***************************************************************************)
EXTENDS AbstractUART, SequenceTheorems, TLAPS

\* What the queues and the semaphores need of the threads, also while they stop.
QueueInv ==
    /\ stop <=> main # "simulate"
    /\ rx = "store" => rxbyte # <<>>
    /\ Len(tx_fifo) <= UART_FIFO_DEPTH
    /\ main = "post_tx" => txfull + TxTaking <= Len(tx_fifo)
    /\ txfull + TxTaking <= Len(tx_fifo) + 1

Counts == SemaphoresMatch /\ QueueInv

IInv == Types /\ Counts /\ NoLostInterrupt

LEMMA DepthType == UART_FIFO_DEPTH \in Nat
  BY UARTAssumption DEF UARTAssumption

LEMMA LevelTypes ==
    /\ \A n \in TxLevels : n \in Nat /\ n <= UART_FIFO_DEPTH
    /\ \A n \in RxLevels : n \in Nat
  BY UARTAssumption DEF UARTAssumption

LEMMA TrafficTypes == \A t \in Traffic : t.in \in Inputs /\ t.out \in Seq(Bytes)
  BY UARTAssumption DEF UARTAssumption

-----------------------------------------------------------------------------
LEMMA InitIInv == Init => IInv
<1> SUFFICES ASSUME Init PROVE IInv
  OBVIOUS
<1>1. Types
  <2>1. input \in Inputs /\ output \in Seq(Bytes)
    BY TrafficTypes DEF Init
  <2>2. /\ "loop" \in TxPoints /\ "loop" \in RxPoints /\ "idle" \in HandlerPoints
        /\ "simulate" \in MainPoints /\ <<>> \in Hand
    BY DEF TxPoints, RxPoints, HandlerPoints, MainPoints, Hand
  <2>3. <<>> \in Seq(Bytes) /\ {} \subseteq Sources
    OBVIOUS
  <2>4. /\ tx_fifo \in Seq(Bytes) /\ rx_fifo \in Seq(Bytes) /\ left \in Seq(Bytes)
        /\ read \in Seq(Bytes) /\ written \in Seq(Bytes)
    BY <2>3 DEF Init
  <2>5. ie \subseteq Sources /\ txbyte \in Hand /\ rxbyte \in Hand
    BY <2>2, <2>3 DEF Init
  <2>6. /\ txfull \in Nat /\ rxempty \in Nat
        /\ txctrl \in TxLevels /\ rxctrl \in RxLevels
    BY DepthType DEF Init
  <2>7. /\ requested \in BOOLEAN /\ notified \in BOOLEAN /\ pending \in BOOLEAN
        /\ stop \in BOOLEAN /\ stop_pipe \in BOOLEAN
    BY DEF Init
  <2>8. /\ tx \in TxPoints /\ rx \in RxPoints /\ isr \in HandlerPoints
        /\ main \in MainPoints
    BY <2>2 DEF Init
  <2> QED
    BY <2>1, <2>4, <2>5, <2>6, <2>7, <2>8 DEF Types
<1>2. Counts
  BY DepthType DEF Init, Counts, SemaphoresMatch, QueueInv, TxTaking, RxStoring
<1>3. NoLostInterrupt
  BY DEF Init, NoLostInterrupt
<1> QED
  BY <1>1, <1>2, <1>3 DEF IInv

\* What a thread has in its hands is at most one byte.
LEMMA OneByte ==
    ASSUME NEW hand \in Hand
    PROVE  /\ hand \in Seq(Bytes) /\ Len(hand) <= 1
           /\ hand # <<>> => Len(hand) = 1
<1>1. CASE hand = <<>>
  BY <1>1
<1>2. CASE hand # <<>>
  <2>1. PICK b \in Bytes : hand = <<b>>
    BY <1>2 DEF Hand
  <2> QED
    BY <2>1
<1> QED
  BY <1>1, <1>2

LEMMA HeadTail ==
    ASSUME NEW s \in Seq(Bytes), s # <<>>
    PROVE  /\ Head(s) \in Bytes /\ Tail(s) \in Seq(Bytes)
           /\ Len(Tail(s)) = Len(s) - 1 /\ Len(s) \in Nat /\ Len(s) > 0
  OBVIOUS

LEMMA Concatenation ==
    ASSUME NEW s \in Seq(Bytes), NEW t \in Seq(Bytes)
    PROVE  s \o t \in Seq(Bytes) /\ Len(s \o t) = Len(s) + Len(t) /\ Len(t) \in Nat
  OBVIOUS

LEMMA Appending ==
    ASSUME NEW s \in Seq(Bytes), NEW x \in Bytes
    PROVE  Append(s, x) \in Seq(Bytes) /\ Len(Append(s, x)) = Len(s) + 1
  OBVIOUS

\* The next input is a sequence of bytes like every other.
LEMMA HeadTailInput ==
    ASSUME NEW s \in Inputs, s # <<>>
    PROVE  Head(s) \in Seq(Bytes) /\ Tail(s) \in Inputs
<1> DEFINE S == Seq(Bytes)
<1>1. s \in Seq(S) => Head(s) \in S /\ Tail(s) \in Seq(S)
  <2> HIDE DEF S
  <2> QED
    OBVIOUS
<1> QED
  BY <1>1 DEF Inputs

-----------------------------------------------------------------------------
\* Every step leaves the variables in their types.
LEMMA NextTypes ==
    ASSUME Types, Counts, [Next]_vars PROVE Types'
<1> USE DEF Types, txVars, rxVars, regs, irqVars, mainVars, guestVars
<1>1. CASE TxStep
  <2>1. CASE TxLoop
    BY <2>1 DEF TxLoop, TxPoints
  <2>2. CASE TxWait
    BY <2>2 DEF TxWait, TxPoints
  <2>3. CASE TxTake
    <3>1. CASE stop
      BY <2>3, <3>1 DEF TxTake, TxPoints
    <3>2. CASE ~stop
      <4>1. tx_fifo # <<>>
        <5>1. Len(tx_fifo) = txfull + 1
          BY <2>3, <3>2 DEF TxTake, Counts, SemaphoresMatch, TxTaking
        <5> QED
          BY <5>1
      <4>2. Head(tx_fifo) \in Bytes /\ Tail(tx_fifo) \in Seq(Bytes)
        BY <4>1, HeadTail
      <4>3. txbyte' \in Hand
        BY <2>3, <3>2, <4>2 DEF TxTake, Hand
      <4> QED
        BY <2>3, <3>2, <4>2, <4>3 DEF TxTake, TxPoints
    <3> QED
      BY <3>1, <3>2
  <2>4. CASE TxNotify
    BY <2>4 DEF TxNotify, Announce, TxPoints
  <2>5. CASE TxWrite
    <3>1. written' \in Seq(Bytes) /\ txbyte' \in Hand
      BY <2>5, OneByte, Concatenation DEF TxWrite, Hand
    <3> QED
      BY <2>5, <3>1 DEF TxWrite, TxPoints
  <2> QED
    BY <1>1, <2>1, <2>2, <2>3, <2>4, <2>5 DEF TxStep
<1>2. CASE RxStep
  <2>1. CASE RxLoop
    BY <2>1 DEF RxLoop, RxPoints
  <2>2. CASE RxPoll
    <3>1. input # <<>> => Head(input) \in Seq(Bytes) /\ Tail(input) \in Inputs
      BY HeadTailInput
    <3> QED
      BY <2>2, <3>1 DEF RxPoll, RxPoints
  <2>3. CASE RxPush
    <3>1. CASE left = <<>>
      BY <2>3, <3>1 DEF RxPush, RxPoints
    <3>2. CASE left # <<>>
      <4>1. Head(left) \in Bytes /\ Tail(left) \in Seq(Bytes)
        BY <3>2, HeadTail
      <4>2. rxbyte' \in Hand /\ rxempty' \in Nat
        BY <2>3, <3>2, <4>1 DEF RxPush, Hand
      <4> QED
        BY <2>3, <3>2, <4>1, <4>2 DEF RxPush, RxPoints
    <3> QED
      BY <3>1, <3>2
  <2>4. CASE RxStore
    <3>1. rx_fifo' \in Seq(Bytes) /\ rxbyte' \in Hand
      BY <2>4, OneByte, Concatenation DEF RxStore, Hand
    <3> QED
      BY <2>4, <3>1 DEF RxStore, RxPoints
  <2>5. CASE RxNotify
    BY <2>5 DEF RxNotify, Announce, RxPoints
  <2> QED
    BY <1>2, <2>1, <2>2, <2>3, <2>4, <2>5 DEF RxStep
<1>3. CASE Kernel
  <2>1. CASE Update
    BY <2>1 DEF Update
  <2>2. CASE Interrupt
    BY <2>2 DEF Interrupt
  <2> QED
    BY <1>3, <2>1, <2>2 DEF Kernel
<1>4. CASE Handler
  <2>1. CASE Claim
    BY <2>1 DEF Claim, HandlerPoints
  <2>2. CASE ReadRxdata
    <3>1. CASE rx_fifo = <<>>
      BY <2>2, <3>1 DEF ReadRxdata, HandlerPoints
    <3>2. CASE rx_fifo # <<>>
      <4>1. /\ Tail(rx_fifo) \in Seq(Bytes)
            /\ Append(read, Head(rx_fifo)) \in Seq(Bytes)
        BY <3>2, HeadTail, Appending
      <4>2. rxempty' \in Nat
        BY <2>2, <3>2 DEF ReadRxdata, RoomPosted
      <4> QED
        BY <2>2, <3>2, <4>1, <4>2 DEF ReadRxdata
    <3> QED
      BY <3>1, <3>2
  <2>3. CASE WriteTxdata
    <3>1. /\ Tail(output) \in Seq(Bytes)
          /\ Append(tx_fifo, Head(output)) \in Seq(Bytes)
      BY <2>3, HeadTail, Appending DEF WriteTxdata
    <3> QED
      BY <2>3, <3>1 DEF WriteTxdata
  <2>4. CASE LeaveHandler
    BY <2>4 DEF LeaveHandler, WriteIe, Announce, HandlerPoints
  <2> QED
    BY <1>4, <2>1, <2>2, <2>3, <2>4 DEF Handler
<1>5. CASE Driver
  <2>1. CASE Configure
    BY <2>1 DEF Configure, WriteIe, Announce
  <2>2. CASE WriteTxctrl
    BY <2>2 DEF WriteTxctrl
  <2>3. CASE WriteRxctrl
    BY <2>3 DEF WriteRxctrl
  <2> QED
    BY <1>5, <2>1, <2>2, <2>3 DEF Driver
<1>6. CASE Stop \/ StopThreads
  <2> USE DEF Goes, MainPoints
  <2>1. CASE Stop
    BY <2>1 DEF Stop
  <2>2. CASE PostTx
    <3>1. txfull' \in Nat
      BY <2>2 DEF PostTx
    <3>2. main' \in MainPoints
      BY <2>2 DEF PostTx
    <3> QED
      BY <2>2, <3>1, <3>2 DEF PostTx
  <2>3. CASE JoinTx
    BY <2>3 DEF JoinTx
  <2>4. CASE WritePipe
    BY <2>4 DEF WritePipe
  <2>5. CASE PostRx
    <3>1. rxempty' \in Nat
      BY <2>5 DEF PostRx
    <3>2. main' \in MainPoints
      BY <2>5 DEF PostRx
    <3> QED
      BY <2>5, <3>1, <3>2 DEF PostRx
  <2>6. CASE JoinRx
    BY <2>6 DEF JoinRx
  <2> QED
    BY <1>6, <2>1, <2>2, <2>3, <2>4, <2>5, <2>6 DEF StopThreads
<1>7. CASE UNCHANGED vars
  BY <1>7 DEF vars
<1> QED
  BY <1>1, <1>2, <1>3, <1>4, <1>5, <1>6, <1>7 DEF Next

-----------------------------------------------------------------------------
\* Every step keeps the semaphores and the queues together.
LEMMA NextCounts ==
    ASSUME Types, Counts, [Next]_vars PROVE Counts'
<1> DEFINE t == Len(tx_fifo)
           r == Len(rx_fifo)
<1>a. /\ t \in Nat /\ r \in Nat /\ txfull \in Nat /\ rxempty \in Nat
      /\ UART_FIFO_DEPTH \in Nat
  BY DepthType DEF Types
<1> USE <1>a DEF Counts, SemaphoresMatch, QueueInv, TxTaking, RxStoring,
                 txVars, rxVars, regs, irqVars, mainVars, guestVars
<1>1. CASE TxStep
  <2>1. CASE TxTake /\ ~stop
    <3>1. tx_fifo # <<>>
      <4>1. t = txfull + 1
        BY <2>1 DEF TxTake
      <4> QED
        BY <4>1
    <3>2. Len(Tail(tx_fifo)) = t - 1
      BY <3>1, HeadTail DEF Types
    <3> QED
      BY <2>1, <3>2 DEF TxTake
  <2>2. CASE TxTake /\ stop
    BY <2>2 DEF TxTake
  <2>3. CASE TxLoop
    BY <2>3 DEF TxLoop
  <2>4. CASE TxWait
    BY <2>4 DEF TxWait
  <2>5. CASE TxNotify \/ TxWrite
    BY <2>5 DEF TxNotify, TxWrite
  <2> QED
    BY <1>1, <2>1, <2>2, <2>3, <2>4, <2>5 DEF TxStep
<1>2. CASE RxStep
  <2>1. CASE RxLoop \/ RxPoll \/ RxNotify
    BY <2>1 DEF RxLoop, RxPoll, RxNotify
  <2>2. CASE RxPush
    <3>1. CASE left = <<>>
      BY <2>2, <3>1 DEF RxPush
    <3>2. CASE left # <<>>
      <4>1. rxbyte' # <<>>
        <5>1. rxbyte' = <<Head(left)>>
          BY <2>2, <3>2 DEF RxPush
        <5>2. Len(rxbyte') = 1
          BY <5>1
        <5> QED
          BY <5>2
      <4>2. /\ rx = "push" /\ rx' = "store"
            /\ rxempty' = rxempty - 1 /\ rxempty > 0
            /\ UNCHANGED <<rx_fifo, tx_fifo, txfull, tx, main, stop>>
        BY <2>2, <3>2 DEF RxPush
      <4> QED
        BY <4>1, <4>2
    <3> QED
      BY <3>1, <3>2
  <2>3. CASE RxStore
    <3>1. Len(rxbyte) = 1
      BY <2>3, OneByte DEF RxStore, Types
    <3>2. Len(rx_fifo') = r + 1
      BY <2>3, <3>1, OneByte, Concatenation DEF RxStore, Types
    <3> QED
      BY <2>3, <3>2 DEF RxStore
  <2> QED
    BY <1>2, <2>1, <2>2, <2>3 DEF RxStep
<1>3. CASE Kernel \/ Driver
  BY <1>3 DEF Kernel, Update, Interrupt, Driver, Configure, WriteTxctrl, WriteRxctrl
<1>4. CASE Handler
  <2>1. CASE Claim \/ LeaveHandler
    BY <2>1 DEF Claim, LeaveHandler
  <2>2. CASE ReadRxdata
    <3>1. CASE rx_fifo = <<>>
      BY <2>2, <3>1 DEF ReadRxdata
    <3>2. CASE rx_fifo # <<>>
      <4>1. Len(rx_fifo') = r - 1
        BY <2>2, <3>2, HeadTail DEF Types, ReadRxdata
      <4>2. /\ rxempty' = rxempty + 1
            /\ UNCHANGED <<rx, rxbyte, tx_fifo, txfull, tx, main, stop>>
        BY <2>2, <3>2 DEF ReadRxdata, RoomPosted
      <4> QED
        BY <4>1, <4>2
    <3> QED
      BY <3>1, <3>2
  <2>3. CASE WriteTxdata
    <3>1. Len(tx_fifo') = t + 1
      BY <2>3, HeadTail, Appending DEF WriteTxdata, Types
    <3> QED
      BY <2>3, <3>1 DEF WriteTxdata, Full
  <2> QED
    BY <1>4, <2>1, <2>2, <2>3 DEF Handler
<1>5. CASE Stop \/ StopThreads
  <2> USE DEF Goes
  <2>1. CASE Stop
    BY <2>1 DEF Stop
  <2>2. CASE PostTx
    BY <2>2 DEF PostTx
  <2>3. CASE JoinTx \/ WritePipe
    BY <2>3 DEF JoinTx, WritePipe
  <2>4. CASE PostRx
    BY <2>4 DEF PostRx
  <2>5. CASE JoinRx
    BY <2>5 DEF JoinRx
  <2> QED
    BY <1>5, <2>1, <2>2, <2>3, <2>4, <2>5 DEF StopThreads
<1>6. CASE UNCHANGED vars
  BY <1>6 DEF vars
<1> QED
  BY <1>1, <1>2, <1>3, <1>4, <1>5, <1>6 DEF Next

\* No step makes a level true, or takes a notification away, without looking.
LEMMA NextNoLostInterrupt ==
    ASSUME Types, Counts, NoLostInterrupt, [Next]_vars PROVE NoLostInterrupt'
<1> DEFINE t == Len(tx_fifo)
           r == Len(rx_fifo)
<1>a. /\ t \in Nat /\ r \in Nat /\ txctrl \in Nat /\ rxctrl \in Nat
      /\ txctrl <= UART_FIFO_DEPTH /\ Len(<<>>) = 0
  BY LevelTypes DEF Types
<1>c. "TXWM" \in Watermark <=> t < txctrl
  BY DEF Watermark
<1>d. "RXWM" \in Watermark <=> r > rxctrl
  BY DEF Watermark
<1>e. "TXWM" \in Watermark' <=> Len(tx_fifo') < txctrl'
  BY DEF Watermark
<1>f. "RXWM" \in Watermark' <=> Len(rx_fifo') > rxctrl'
  BY DEF Watermark
<1> USE <1>a, <1>c, <1>d, <1>e, <1>f
        DEF NoLostInterrupt, Announced, txVars, rxVars, regs, irqVars, mainVars, guestVars
<1>1. CASE TxStep
  BY <1>1 DEF TxStep, TxLoop, TxWait, TxTake, TxNotify, TxWrite, Announce
<1>2. CASE RxStep
  BY <1>2 DEF RxStep, RxLoop, RxPoll, RxPush, RxStore, RxNotify, Announce
<1>3. CASE Update
  BY <1>3 DEF Update
<1>4. CASE Interrupt
  BY <1>4 DEF Interrupt
<1>5. CASE Claim
  BY <1>5 DEF Claim, Guest
<1>6. CASE ReadRxdata
  BY <1>6 DEF ReadRxdata, Guest
<1>7. CASE WriteTxdata
  <2>1. Len(tx_fifo') = t + 1
    BY <1>7, HeadTail, Appending DEF WriteTxdata, Types
  <2> QED
    BY <1>7, <2>1 DEF WriteTxdata, Guest
<1>8. CASE LeaveHandler
  <2>1. CASE output = <<>>
    BY <1>8, <2>1 DEF LeaveHandler, WriteIe, Announce
  <2>2. CASE output # <<>>
    \* The queue is full, and no threshold is above its depth.
    <3>1. t >= UART_FIFO_DEPTH
      BY <1>8, <2>2 DEF LeaveHandler, Full
    <3>2. "TXWM" \notin Watermark
      BY <3>1, DepthType
    <3>3. /\ UNCHANGED <<tx_fifo, rx_fifo, txctrl, rxctrl, ie, requested, notified,
                         pending, tx, rx, main>>
          /\ isr = "fill"
      BY <1>8, <2>2 DEF LeaveHandler, Guest
    <3>4. Watermark' = Watermark
      BY <3>3 DEF Watermark
    <3> QED
      BY <3>2, <3>3, <3>4
  <2> QED
    BY <2>1, <2>2
<1>9. CASE Driver
  <2>1. CASE Configure
    BY <2>1 DEF Configure, WriteIe, Announce
  <2>2. CASE WriteTxctrl
    <3>1. PICK n \in TxLevels :
             /\ n < txctrl \/ "TXWM" \notin ie
             /\ txctrl' = n
             /\ requested' = (requested \/ n < txctrl)
      BY <2>2 DEF WriteTxctrl
    <3>2. n \in Nat
      BY LevelTypes
    <3>3. UNCHANGED <<tx_fifo, rx_fifo, rxctrl, ie, notified, pending, tx, rx, main, isr>>
      BY <2>2 DEF WriteTxctrl
    <3>4. CASE n < txctrl
      BY <3>1, <3>3, <3>4
    <3>5. CASE "TXWM" \notin ie
      BY <3>1, <3>3, <3>5
    <3> QED
      BY <3>1, <3>4, <3>5
  <2>3. CASE WriteRxctrl
    <3>1. PICK n \in RxLevels :
             /\ rxctrl' = n
             /\ requested' = (requested \/ n < rxctrl)
      BY <2>3 DEF WriteRxctrl, Lowers
    <3>2. n \in Nat
      BY LevelTypes
    <3>3. UNCHANGED <<tx_fifo, rx_fifo, txctrl, ie, notified, pending, tx, rx, main, isr>>
      BY <2>3 DEF WriteRxctrl
    <3>4. CASE n < rxctrl
      BY <3>1, <3>3, <3>4
    <3>5. CASE ~(n < rxctrl)
      <4>1. r > n => r > rxctrl
        BY <3>2, <3>5
      <4> QED
        BY <3>1, <3>3, <4>1
    <3> QED
      BY <3>4, <3>5
  <2> QED
    BY <1>9, <2>1, <2>2, <2>3 DEF Driver
<1>10. CASE Stop \/ StopThreads
  BY <1>10 DEF Stop, StopThreads, PostTx, JoinTx, WritePipe, PostRx, JoinRx, Goes
<1>11. CASE UNCHANGED vars
  BY <1>11 DEF vars
<1> QED
  BY <1>1, <1>2, <1>3, <1>4, <1>5, <1>6, <1>7, <1>8, <1>9, <1>10, <1>11
     DEF Next, Kernel, Handler
-----------------------------------------------------------------------------
(* The inductive invariant: types, the counts of the queues and their
   semaphores, and that every level asked for is announced. *)
THEOREM Invariance == Spec => []IInv
<1>1. IInv /\ [Next]_vars => IInv'
  BY NextTypes, NextCounts, NextNoLostInterrupt DEF IInv
<1> QED
  BY InitIInv, <1>1, PTL DEF Spec

(* The queues of the UART (abstract_uart.cpp) never hold more than they may. *)
THEOREM TypeCorrect == Spec => []TypeOK
<1>1. IInv => TypeOK
  <2> SUFFICES ASSUME IInv PROVE TypeOK
    OBVIOUS
  <2>1. Len(tx_fifo) \in Nat /\ Len(rx_fifo) \in Nat /\ UART_FIFO_DEPTH \in Nat
    BY DepthType DEF IInv, Types
  <2> QED
    BY <2>1 DEF IInv, Types, TypeOK, Counts, QueueInv, SemaphoresMatch, TxTaking, RxStoring
<1> QED
  BY Invariance, <1>1, PTL

(* txfull and rxempty count the bytes and the room of the queues that the
   mutexes protect (transmit, rxpush and register_access_callback). *)
THEOREM CountsAgree == Spec => []SemaphoresMatch
<1>1. IInv => SemaphoresMatch
  BY DEF IInv, Counts
<1> QED
  BY Invariance, <1>1, PTL

(* interrupt() overlooks no level that the guest has enabled. *)
THEOREM NothingIsLost == Spec => []NoLostInterrupt
<1>1. IInv => NoLostInterrupt
  BY DEF IInv
<1> QED
  BY Invariance, <1>1, PTL
=============================================================================
