---------------------------- MODULE AbstractUART ----------------------------
(***************************************************************************)
(* The UART of the FU540 and FE310 platforms                               *)
(* (vp/src/platform/common/abstract_uart.cpp): a transmit and a receive    *)
(* thread of the operating system, two queues of UART_FIFO_DEPTH bytes     *)
(* with a mutex and a semaphore each, and the registers and the interrupt  *)
(* method in the SystemC thread.  The threads reach SystemC only through   *)
(* AsyncEvent::notify.  A subclass pushes the bytes of one input one after *)
(* the other (UART: one, SLIP: those of a packet) and gets the bytes to    *)
(* write one by one.                                                       *)
(*                                                                         *)
(* The guest is a driver with an interrupt handler that empties the        *)
(* receive queue, fills the transmit queue and disables the transmit       *)
(* interrupt when it has nothing left to send, and that does not raise the *)
(* transmit threshold while that interrupt is enabled.                     *)
(***************************************************************************)
EXTENDS Naturals, Sequences

CONSTANTS UART_FIFO_DEPTH, Bytes,
          TxLevels, RxLevels,   \* the thresholds the guest sets in txctrl and rxctrl
          Traffic               \* [in |-> the inputs to come, sequences of bytes,
                                \*  out |-> the bytes the guest has to send]

\* An input is a sequence of bytes, which handle_input pushes one by one.
Inputs == Seq(Seq(Bytes))

ASSUME UARTAssumption ==
    /\ UART_FIFO_DEPTH \in Nat \ {0}
    /\ TxLevels \subseteq 1 .. UART_FIFO_DEPTH
    /\ RxLevels \subseteq 0 .. UART_FIFO_DEPTH - 1
    /\ Traffic \subseteq [in : Inputs, out : Seq(Bytes)]

VARIABLES tx_fifo, txfull,     \* the transmit queue and its semaphore
          rx_fifo, rxempty,    \* the receive queue and its semaphore
          txctrl, rxctrl,      \* the thresholds in those registers
          ie,                  \* the enabled ones of "TXWM" and "RXWM"
          requested,           \* AsyncEvent: an update is requested
          notified,            \*   and its event is notified
          pending,             \* the PLIC's pending bit of this interrupt
          tx, txbyte,          \* where the transmit thread is, and its byte
          rx, rxbyte, left,    \* the receive thread, its byte and the rest of its input
          stop, stop_pipe,     \* stop_threads has set stop, has written to the pipe
          main,                \* where the SystemC thread is
          isr,                 \* where the guest's interrupt handler is
          input, output,       \* what is still to come and to be sent
          read, written        \* the bytes the guest has read, those given to write_data

txVars == <<tx_fifo, txfull, tx, txbyte, written>>
rxVars == <<rx_fifo, rxempty, rx, rxbyte, left, input>>
regs == <<txctrl, rxctrl, ie>>
irqVars == <<requested, notified, pending>>
mainVars == <<stop, stop_pipe, main>>
guestVars == <<isr, output, read>>
vars == <<txVars, rxVars, regs, irqVars, mainVars, guestVars>>

Sources == {"TXWM", "RXWM"}

\* The program counters: transmit and receive thread, handler, end of the simulation.
TxPoints == {"loop", "wait", "take", "notify", "write", "ended"}
RxPoints == {"loop", "poll", "push", "store", "notify", "ended"}
HandlerPoints == {"idle", "read", "fill"}
MainPoints == {"simulate", "post_tx", "join_tx", "pipe", "post_rx", "join_rx", "gone"}

\* How many bytes of each queue are between its semaphore and its mutex.
TxTaking == IF tx = "take" THEN 1 ELSE 0
RxStoring == IF rx = "store" THEN 1 ELSE 0

\* No byte, or the one a thread has in its hands.
Hand == {<<>>} \cup {<<b>> : b \in Bytes}

Types ==
    /\ tx_fifo \in Seq(Bytes) /\ rx_fifo \in Seq(Bytes)
    /\ txfull \in Nat /\ rxempty \in Nat
    /\ txctrl \in TxLevels /\ rxctrl \in RxLevels /\ ie \subseteq Sources
    /\ requested \in BOOLEAN /\ notified \in BOOLEAN /\ pending \in BOOLEAN
    /\ tx \in TxPoints /\ txbyte \in Hand /\ written \in Seq(Bytes)
    /\ rx \in RxPoints /\ rxbyte \in Hand /\ left \in Seq(Bytes) /\ input \in Inputs
    /\ main \in MainPoints /\ stop \in BOOLEAN /\ stop_pipe \in BOOLEAN
    /\ isr \in HandlerPoints /\ output \in Seq(Bytes) /\ read \in Seq(Bytes)

(* Types, and that no queue is ever beyond its depth: the transmit queue
   because a write is ignored, the receive queue because rxpush waits (for
   the byte that stop_threads lets pass, too). *)
TypeOK ==
    /\ Types
    /\ Len(tx_fifo) <= UART_FIFO_DEPTH /\ txfull <= UART_FIFO_DEPTH + 1
    /\ Len(rx_fifo) <= UART_FIFO_DEPTH + (IF stop THEN 1 ELSE 0)
    /\ rxempty <= UART_FIFO_DEPTH + 1

Init ==
    /\ tx_fifo = <<>> /\ txfull = 0
    /\ rx_fifo = <<>> /\ rxempty = UART_FIFO_DEPTH
    /\ txctrl \in TxLevels /\ rxctrl \in RxLevels /\ ie = {}
    /\ requested = FALSE /\ notified = FALSE /\ pending = FALSE
    /\ tx = "loop" /\ txbyte = <<>>
    /\ rx = "loop" /\ rxbyte = <<>> /\ left = <<>>
    /\ stop = FALSE /\ stop_pipe = FALSE /\ main = "simulate"
    /\ isr = "idle"
    /\ \E t \in Traffic : input = t.in /\ output = t.out
    /\ read = <<>> /\ written = <<>>
-----------------------------------------------------------------------------
\* The transmit thread: transmit().

TxLoop ==
    /\ tx = "loop"
    /\ tx' = IF stop THEN "ended" ELSE "wait"
    /\ UNCHANGED <<tx_fifo, txfull, txbyte, written, rxVars, regs, irqVars, mainVars, guestVars>>

TxWait ==
    /\ tx = "wait"
    /\ txfull > 0
    /\ txfull' = txfull - 1
    /\ tx' = "take"
    /\ UNCHANGED <<tx_fifo, txbyte, written, rxVars, regs, irqVars, mainVars, guestVars>>

\* After stop_threads the semaphore counts one more than there are bytes.
TxTake ==
    /\ tx = "take"
    /\ IF stop
       THEN tx' = "ended" /\ UNCHANGED <<tx_fifo, txbyte>>
       ELSE /\ txbyte' = <<Head(tx_fifo)>>
            /\ tx_fifo' = Tail(tx_fifo)
            /\ tx' = "notify"
    /\ UNCHANGED <<txfull, written, rxVars, regs, irqVars, mainVars, guestVars>>

AnnounceNothing == requested' = requested
Announce == requested' = TRUE

TxNotify ==
    /\ tx = "notify"
    /\ Announce
    /\ tx' = "write"
    /\ UNCHANGED <<tx_fifo, txfull, txbyte, written, rxVars, regs, notified, pending,
                   mainVars, guestVars>>

TxWrite ==
    /\ tx = "write"
    /\ written' = written \o txbyte
    /\ txbyte' = <<>>
    /\ tx' = "loop"
    /\ UNCHANGED <<tx_fifo, txfull, rxVars, regs, irqVars, mainVars, guestVars>>
-----------------------------------------------------------------------------
\* The receive thread: receive(), with rxpush for each byte of an input.

RxLoop ==
    /\ rx = "loop"
    /\ rx' = IF stop THEN "ended" ELSE "poll"
    /\ UNCHANGED <<rx_fifo, rxempty, rxbyte, left, input, txVars, regs, irqVars, mainVars, guestVars>>

\* poll() returns with input or with the pipe, which is looked at first.
RxPoll ==
    /\ rx = "poll"
    /\ \/ /\ stop_pipe
          /\ rx' = "loop"
          /\ UNCHANGED <<left, input>>
       \/ /\ ~stop_pipe /\ input # <<>>
          /\ left' = Head(input)
          /\ input' = Tail(input)
          /\ rx' = "push"
    /\ UNCHANGED <<rx_fifo, rxempty, rxbyte, txVars, regs, irqVars, mainVars, guestVars>>

RxPush ==
    /\ rx = "push"
    /\ \/ /\ left = <<>>
          /\ rx' = "loop"
          /\ UNCHANGED <<rxempty, rxbyte, left>>
       \/ /\ left # <<>> /\ rxempty > 0
          /\ rxempty' = rxempty - 1
          /\ rxbyte' = <<Head(left)>>
          /\ left' = Tail(left)
          /\ rx' = "store"
    /\ UNCHANGED <<rx_fifo, input, txVars, regs, irqVars, mainVars, guestVars>>

RxStore ==
    /\ rx = "store"
    /\ rx_fifo' = rx_fifo \o rxbyte
    /\ rxbyte' = <<>>
    /\ rx' = "notify"
    /\ UNCHANGED <<rxempty, left, input, txVars, regs, irqVars, mainVars, guestVars>>

RxNotify ==
    /\ rx = "notify"
    /\ Announce
    /\ rx' = "push"
    /\ UNCHANGED <<rx_fifo, rxempty, rxbyte, left, input, txVars, regs, notified, pending,
                   mainVars, guestVars>>
-----------------------------------------------------------------------------
\* The SystemC kernel: AsyncEvent::update in the update phase, then interrupt().

Watermark == (IF Len(tx_fifo) < txctrl THEN {"TXWM"} ELSE {})
             \cup (IF Len(rx_fifo) > rxctrl THEN {"RXWM"} ELSE {})

Update ==
    /\ main = "simulate"
    /\ requested
    /\ requested' = FALSE
    /\ notified' = TRUE
    /\ UNCHANGED <<pending, txVars, rxVars, regs, mainVars, guestVars>>

Interrupt ==
    /\ main = "simulate"
    /\ notified
    /\ notified' = FALSE
    /\ pending' = (pending \/ ie \cap Watermark # {})
    /\ UNCHANGED <<requested, txVars, rxVars, regs, mainVars, guestVars>>
-----------------------------------------------------------------------------
\* The guest's registers accesses: register_access_callback().

Guest(p) == main = "simulate" /\ isr = p

\* The PLIC's claim register hands the interrupt to the handler.
Claim ==
    /\ Guest("idle")
    /\ pending
    /\ pending' = FALSE
    /\ isr' = "read"
    /\ UNCHANGED <<requested, notified, output, read, txVars, rxVars, regs, mainVars>>

\* The room in the receive queue is posted for every byte read.
RoomForgotten == rxempty
RoomPosted == rxempty + 1

ReadRxdata ==
    /\ Guest("read")
    /\ IF rx_fifo = <<>>
       THEN isr' = "fill" /\ UNCHANGED <<rx_fifo, rxempty, read>>
       ELSE /\ read' = Append(read, Head(rx_fifo))
            /\ rx_fifo' = Tail(rx_fifo)
            /\ rxempty' = RoomPosted
            /\ isr' = isr
    /\ UNCHANGED <<rx, rxbyte, left, input, output, txVars, regs, irqVars, mainVars>>

\* A read of txdata tells whether the queue is full, a write then is not ignored.
Full == Len(tx_fifo) >= UART_FIFO_DEPTH

WriteTxdata ==
    /\ Guest("fill")
    /\ output # <<>> /\ ~Full
    /\ tx_fifo' = Append(tx_fifo, Head(output))
    /\ txfull' = txfull + 1
    /\ output' = Tail(output)
    /\ UNCHANGED <<tx, txbyte, written, isr, read, rxVars, regs, irqVars, mainVars>>

\* A write of ie, txctrl or rxctrl; the last two announce what a lower threshold enables.
WriteIe(sources) ==
    /\ ie' = sources
    /\ Announce
    /\ UNCHANGED <<txctrl, rxctrl>>

LeaveHandler ==
    /\ Guest("fill")
    /\ output = <<>> \/ Full
    /\ IF output = <<>> THEN WriteIe(ie \ {"TXWM"}) ELSE UNCHANGED <<regs, requested>>
    /\ isr' = "idle"
    /\ UNCHANGED <<notified, pending, output, read, txVars, rxVars, mainVars>>

Configure ==
    /\ Guest("idle")
    /\ \E sources \in SUBSET Sources : WriteIe(sources)
    /\ UNCHANGED <<notified, pending, txVars, rxVars, mainVars, guestVars>>

WriteTxctrl ==
    /\ Guest("idle")
    /\ \E n \in TxLevels :
          /\ n < txctrl \/ "TXWM" \notin ie
          /\ txctrl' = n
          /\ requested' = (requested \/ n < txctrl)
    /\ UNCHANGED <<rxctrl, ie, notified, pending, txVars, rxVars, mainVars, guestVars>>

LowersSilently(n) == FALSE
Lowers(n) == n < rxctrl

WriteRxctrl ==
    /\ Guest("idle")
    /\ \E n \in RxLevels :
          /\ rxctrl' = n
          /\ requested' = (requested \/ Lowers(n))
    /\ UNCHANGED <<txctrl, ie, notified, pending, txVars, rxVars, mainVars, guestVars>>
-----------------------------------------------------------------------------
\* The simulation ends, with the guest wherever it is: stop_threads().

Goes(from, to) == main = from /\ main' = to

Stop ==
    /\ Goes("simulate", "post_tx")
    /\ stop' = TRUE
    /\ UNCHANGED <<stop_pipe, txVars, rxVars, regs, irqVars, guestVars>>

PostTx ==
    /\ Goes("post_tx", "join_tx")
    /\ txfull' = txfull + 1
    /\ UNCHANGED <<stop, stop_pipe, tx_fifo, tx, txbyte, written, rxVars, regs, irqVars, guestVars>>

JoinTx ==
    /\ Goes("join_tx", "pipe")
    /\ tx = "ended"
    /\ UNCHANGED <<stop, stop_pipe, txVars, rxVars, regs, irqVars, guestVars>>

WritePipe ==
    /\ Goes("pipe", "post_rx")
    /\ stop_pipe' = TRUE
    /\ UNCHANGED <<stop, txVars, rxVars, regs, irqVars, guestVars>>

PostRxForgotten ==
    /\ Goes("post_rx", "join_rx")
    /\ UNCHANGED <<stop, stop_pipe, txVars, rxVars, regs, irqVars, guestVars>>

PostRx ==
    /\ Goes("post_rx", "join_rx")
    /\ rxempty' = rxempty + 1
    /\ UNCHANGED <<stop, stop_pipe, rx_fifo, rx, rxbyte, left, input, txVars, regs, irqVars,
                   guestVars>>

JoinRx ==
    /\ Goes("join_rx", "gone")
    /\ rx = "ended"
    /\ UNCHANGED <<stop, stop_pipe, txVars, rxVars, regs, irqVars, guestVars>>
-----------------------------------------------------------------------------
TxStep == TxLoop \/ TxWait \/ TxTake \/ TxNotify \/ TxWrite
RxStep == RxLoop \/ RxPoll \/ RxPush \/ RxStore \/ RxNotify
Kernel == Update \/ Interrupt
Handler == Claim \/ ReadRxdata \/ WriteTxdata \/ LeaveHandler
Driver == Configure \/ WriteTxctrl \/ WriteRxctrl
StopThreads == PostTx \/ JoinTx \/ WritePipe \/ PostRx \/ JoinRx

Next == TxStep \/ RxStep \/ Kernel \/ Handler \/ Driver \/ Stop \/ StopThreads

Spec == Init /\ [][Next]_vars

\* The operating system runs both threads, and SystemC its kernel and the guest;
\* nothing says when input comes, but a thread that has begun one goes on.
Fairness ==
    /\ WF_vars(TxStep) /\ WF_vars(RxStep) /\ WF_vars(StopThreads)
    /\ WF_vars(Update) /\ WF_vars(Interrupt) /\ WF_vars(Handler)

FairSpec == Spec /\ Fairness
-----------------------------------------------------------------------------
\* What will make interrupt() look at the queues again.
Announced == requested \/ notified

(* No level of a queue that the guest has enabled an interrupt for goes
   unnoticed: the interrupt is pending, or interrupt() has still to look, or a
   thread has still to notify it, or the handler has not come to that queue. *)
NoLostInterrupt ==
    main = "simulate" =>
        /\ "RXWM" \in ie \cap Watermark =>
              pending \/ Announced \/ rx = "notify" \/ isr = "read"
        /\ "TXWM" \in ie \cap Watermark =>
              pending \/ Announced \/ tx = "notify" \/ isr \in {"read", "fill"}

(* The semaphores count what the mutexes protect: whoever passes txfull finds
   a byte, whoever passes rxempty room, and stop_threads adds one to each. *)
SemaphoresMatch ==
    /\ ~stop => txfull + TxTaking = Len(tx_fifo)
    /\ rxempty + RxStoring + Len(rx_fifo) =
          UART_FIFO_DEPTH + (IF main \in {"join_rx", "gone"} THEN 1 ELSE 0)

(* The guest gets to see every level it asks for: what is above the receive
   threshold is read, and what there is to send is taken. *)
GuestIsServed ==
    /\ "RXWM" \in ie \cap Watermark ~> "RXWM" \notin ie \cap Watermark \/ stop
    /\ output # <<>> /\ "TXWM" \in ie ~> output = <<>> \/ "TXWM" \notin ie \/ stop

(* stop_threads joins the transmit thread, and the receive thread too unless
   its input is longer than what has room and the one byte that is posted. *)
StopCompletes ==
    /\ stop ~> main \in {"join_rx", "gone"}
    /\ main = "post_rx" /\ Len(left) <= rxempty + 1 ~> main = "gone"
=============================================================================
