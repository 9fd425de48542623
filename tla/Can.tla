--------------------------------- MODULE Can ---------------------------------
(***************************************************************************)
(* The CAN controller (vp/src/platform/hifive/can.cpp) behind the SPI      *)
(* controller (spi.h): the driver on the hart exchanges one byte after the *)
(* other with the state machine CAN::write, while a thread of the host     *)
(* stores the frames that arrive.  The two share the receive buffers and   *)
(* their status without a lock, and status |= and status &= are a load and *)
(* a store each.                                                           *)
(***************************************************************************)
EXTENDS Integers, Sequences, SequencesExt, FiniteSetsExt, Bitwise

CONSTANTS queue_size,          \* bytes in SPI's receive queue
          Frames,              \* of the bus: [id, data]
          Controls,            \* what the driver writes to MCP_CANCTRL: [mask, data]
          MaxOps, MaxArrivals, \* bounds: what the driver does, how many frames arrive
          Sending              \* the buffers that the driver sends from; or All of them

VARIABLES can,                 \* CAN::state, and what the functions of CAN keep
          rxBuf, status,       \* shared with the thread: the buffers, those that are full
          clearing,            \* readRxBuf between the load and the store of status
          rxqueue,             \* of SPI
          listener,            \* the thread
          driver,              \* bytes to write, bytes not yet read, bytes read, for what
          bus, wanted,         \* frames that were sent, frames that the driver sent
          arrived, received    \* frames that came, frames that the driver has read

vars == <<can, rxBuf, status, clearing, rxqueue, listener, driver, bus, wanted, arrived, received>>

MCP_WRITE == 2
MCP_READ == 3
MCP_BITMOD == 5
MCP_LOAD_TX(n) == 64 + 2 * n
MCP_RTS_TX(n) == 128 + 2^n
MCP_RTS_ALL == 135
MCP_READ_RX(n) == 144 + 4 * n
MCP_READ_STATUS == 160
MCP_RESET == 192
MCP_CANCTRL == 15
MCP_CNF1 == 42
MCP_TXB0CTRL == 48
MCP_TXB_EXIDE_M == 8

TxBuffers == 0 .. 2
RxBuffers == 0 .. 1
All == 3                       \* the buffer of MCP_RTS_ALL
Unset == [state |-> "none"]
-----------------------------------------------------------------------------
\* A buffer: SIDH, SIDL, EID8, EID0, the length, the data.
mcp2515_id_to_buf(id) == LET canid == id % 2^16
                         IN  <<(canid \div 8) % 256, (canid % 8) * 32, 0, 0>>
mcp2515_buf_to_id(buf) ==
    LET id == (buf[1] * 8) + (buf[2] \div 32)
    IN  IF (buf[2] & MCP_TXB_EXIDE_M) = 0 THEN id
        ELSE (((id * 4) + (buf[2] % 4)) * 256 + buf[3]) * 256 + buf[4]

MaxData == Max({Len(f.data) : f \in Frames})
Empty == [k \in 1 .. 5 + MaxData |-> 0]
Filled(f) == LET bytes == mcp2515_id_to_buf(f.id) \o <<Len(f.data)>> \o f.data
             IN  [k \in DOMAIN Empty |-> IF k <= Len(bytes) THEN bytes[k] ELSE 0]
FrameOf(buf) == [id |-> mcp2515_buf_to_id(buf), data |-> SubSeq(buf, 6, 5 + buf[5])]

\* The state that a command leads to, and its buffer; an unknown one is only reported.
command(c, byte) ==
    LET To(state, no) == [c EXCEPT !.state = state, !.no = no]
        loads == {n \in TxBuffers : byte = MCP_LOAD_TX(n)}
        sends == {n \in TxBuffers : byte = MCP_RTS_TX(n)}
        reads == {n \in RxBuffers : byte = MCP_READ_RX(n)}
    IN  CASE byte = MCP_WRITE -> To("writeRegister", 0)
          [] byte = MCP_READ -> To("readRegister", 0)
          [] byte = MCP_BITMOD -> To("bitmod", 0)
          [] loads # {} -> To("loadTX", Min(loads))
          [] sends # {} -> To("sendTX", Min(sends))
          [] byte = MCP_RTS_ALL -> To("sendTX", All)
          [] reads # {} -> To("readRX", Min(reads))
          [] byte = MCP_READ_STATUS -> To("getStatus", 0)
          [] byte = MCP_RESET -> To("init", 0)
          [] OTHER -> c

\* What write returns, and CAN after it.
Answer(c, ret) == [can |-> c, ret |-> ret]

readRegister(c, byte) ==
    IF c.readSelect < 0 THEN Answer([c EXCEPT !.readSelect = byte], 0)
    ELSE IF byte # 0 THEN Answer(command([c EXCEPT !.readSelect = -1], byte), 0)
    ELSE Answer([c EXCEPT !.readSelect = @ + 1],
                IF c.readSelect \in DOMAIN c.registers THEN c.registers[c.readSelect] ELSE 0)

writeRegister(c, byte) ==
    IF c.writeSelect < 0 THEN Answer([c EXCEPT !.writeSelect = byte], 0)
    ELSE IF c.writeSelect \notin DOMAIN c.registers THEN Answer(c, 0)
    ELSE Answer([c EXCEPT !.registers[c.writeSelect] = byte, !.writeSelect = -1,
                          !.state = "init"], 0)

\* mod: the address and the mask as they come.
modifyRegister(c, byte) ==
    IF Len(c.mod) < 2 THEN Answer([c EXCEPT !.mod = Append(@, byte)], 0)
    ELSE Answer([c EXCEPT !.registers[c.mod[1]] = (@ & (255 - c.mod[2])) | byte,
                          !.mod = << >>, !.state = "init"], 0)

\* load: the bytes so far, for any buffer.
loadTxBuf(c, byte) ==
    LET at == Len(c.load) + 1
        buf == [c.txBuf[c.no] EXCEPT ![at] = byte]
        over == at > 5 /\ at - 5 = buf[5]
    IN  Answer([c EXCEPT !.txBuf[c.no] = buf,
                         !.load = IF over THEN << >> ELSE Append(@, byte),
                         !.state = IF over THEN "init" ELSE @], 0)

\* What it sends; the bytes behind txBuf are those of rxBuf.
Sends(c) == FrameOf(IF c.no = All THEN rxBuf[0] ELSE c.txBuf[c.no])
sendTxBuf(c) == Answer([c EXCEPT !.registers[MCP_TXB0CTRL] = 0, !.state = "readRegister"], 0)

Ends(c) == c.ptr + 1 > rxBuf[c.no][5] + 4
readRxBuf(c) ==
    Answer(IF Ends(c) THEN [c EXCEPT !.ptr = 0, !.state = "init"] ELSE [c EXCEPT !.ptr = @ + 1],
           rxBuf[c.no][c.ptr + 1])

getStatus(c) == Answer([c EXCEPT !.state = "init"], SumSet({2^n : n \in status}))

write(c, byte) ==
    CASE c.state = "init" -> Answer(command(c, byte), 0)
      [] c.state = "readRegister" -> readRegister(c, byte)
      [] c.state = "writeRegister" -> writeRegister(c, byte)
      [] c.state = "bitmod" -> modifyRegister(c, byte)
      [] c.state = "loadTX" -> loadTxBuf(c, byte)
      [] c.state = "sendTX" -> sendTxBuf(c)
      [] c.state = "readRX" -> readRxBuf(c)
      [] c.state = "getStatus" -> getStatus(c)

Push(queue, byte) ==
    IF Len(queue) + 1 > queue_size THEN Tail(Append(queue, byte)) ELSE Append(queue, byte)
-----------------------------------------------------------------------------
\* The driver's operations: what it writes.  It reads each byte before it writes the next, or
\* writes all of them first (burst).
Exchange(d, what, bytes) ==
    \E burst \in BOOLEAN :
        driver' = [d EXCEPT !.what = what, !.todo = bytes, !.unread = 0, !.got = << >>,
                            !.burst = burst]
Waits == UNCHANGED <<can, rxBuf, status, clearing, rxqueue, listener, bus, arrived>>

Idle == driver.what = "idle" /\ driver.ops < MaxOps
Counted == [driver EXCEPT !.ops = @ + 1]

Configure(control) ==
    /\ Idle
    /\ Exchange([Counted EXCEPT !.control = control], "configure",
                <<MCP_RESET, MCP_BITMOD, MCP_CANCTRL, control.mask, control.data,
                  MCP_WRITE, MCP_CNF1, control.data,
                  MCP_READ, MCP_CANCTRL, 0, MCP_READ, MCP_CNF1, 0>>)
    /\ Waits /\ UNCHANGED <<wanted, received>>

SendFrame(f, n) ==
    /\ Idle
    /\ Exchange(Counted, "send",
                <<MCP_LOAD_TX(n % All), f.id \div 8, (f.id % 8) * 32, 0, 0, Len(f.data)>> \o f.data
                \o <<IF n = All THEN MCP_RTS_ALL ELSE MCP_RTS_TX(n), MCP_READ, MCP_TXB0CTRL, 0>>)
    /\ wanted' = Append(wanted, f)
    /\ Waits /\ UNCHANGED received

AskStatus ==
    /\ Idle
    /\ Exchange(Counted, "status", <<MCP_READ_STATUS, 0>>)
    /\ Waits /\ UNCHANGED <<wanted, received>>

Ended == driver.todo = << >> /\ driver.unread = 0 /\ clearing = Unset
Result == Last(driver.got)
ToIdle(d) == driver' = [d EXCEPT !.what = "idle", !.got = << >>]
\* It reads the first of the buffers that were full, or none of them.
ReadsNext(full) ==
    LET d == [driver EXCEPT !.full = full] IN
    \/ full # {} /\ Exchange(d, "header", <<MCP_READ_RX(Min(full))>> \o [k \in 1 .. 5 |-> 0])
    \/ ToIdle([d EXCEPT !.full = {}])

Configured ==
    /\ driver.what = "configure" /\ Ended
    /\ ToIdle([driver EXCEPT !.wrong = @ \/ (driver.got[11] & driver.control.mask) # driver.control.data
                                      \/ Result # driver.control.data])
    /\ Waits /\ UNCHANGED <<wanted, received>>

Sent ==
    /\ driver.what = "send" /\ Ended
    /\ ToIdle([driver EXCEPT !.wrong = @ \/ Result # 0])
    /\ Waits /\ UNCHANGED <<wanted, received>>

HasStatus ==
    /\ driver.what = "status" /\ Ended
    /\ ReadsNext({n \in RxBuffers : (Result \div 2^n) % 2 = 1})
    /\ Waits /\ UNCHANGED <<wanted, received>>

HasHeader ==
    /\ driver.what = "header" /\ Ended
    /\ Exchange([driver EXCEPT !.header = driver.got], "data", [k \in 1 .. Result |-> 0])
    /\ Waits /\ UNCHANGED <<wanted, received>>

HasData ==
    /\ driver.what = "data" /\ Ended
    /\ received' = received \cup {[id |-> (driver.header[2] * 8) + (driver.header[3] \div 32),
                                   data |-> driver.got]}
    /\ ReadsNext(driver.full \ {Min(driver.full)})
    /\ Waits /\ UNCHANGED wanted

\* A write of txdata, up to the store of status.
WriteByte ==
    /\ driver.todo # << >> /\ (driver.burst \/ driver.unread = 0) /\ clearing = Unset
    /\ LET answer == write(can, Head(driver.todo))
       IN  can' = answer.can /\ rxqueue' = Push(rxqueue, answer.ret)
    /\ bus' = IF can.state = "sendTX" THEN Append(bus, Sends(can)) ELSE bus
    /\ clearing' = IF can.state = "readRX" /\ Ends(can) THEN [no |-> can.no, seen |-> status] ELSE Unset
    /\ driver' = [driver EXCEPT !.todo = Tail(@), !.unread = @ + 1]
    /\ UNCHANGED <<rxBuf, status, listener, wanted, arrived, received>>

ClearStatus ==
    /\ clearing # Unset
    /\ status' = clearing.seen \ {clearing.no}
    /\ clearing' = Unset
    /\ UNCHANGED <<can, rxBuf, rxqueue, listener, driver, bus, wanted, arrived, received>>

\* A read of rxdata; while the queue is empty the driver reads again.
ReadByte ==
    /\ driver.unread > 0 /\ (driver.burst => driver.todo = << >>) /\ clearing = Unset
    /\ rxqueue # << >>
    /\ rxqueue' = Tail(rxqueue)
    /\ driver' = [driver EXCEPT !.got = Append(@, Head(rxqueue)), !.unread = @ - 1]
    /\ UNCHANGED <<can, rxBuf, status, clearing, listener, bus, wanted, arrived, received>>

Driver ==
    \/ \E control \in Controls : Configure(control)
    \/ \E f \in Frames, n \in Sending : SendFrame(f, n)
    \/ AskStatus \/ Configured \/ Sent \/ HasStatus \/ HasHeader \/ HasData
    \/ WriteByte \/ ClearStatus \/ ReadByte
-----------------------------------------------------------------------------
\* listen and enqueueIncomingCanFrame.
HartIsIdle == UNCHANGED <<can, clearing, rxqueue, driver, bus, wanted, received>>
Listening == listener.step = "read"

Arrive(f) ==
    /\ listener.step = "read" /\ listener.count < MaxArrivals
    /\ arrived' = arrived \cup {f}
    /\ listener' = [listener EXCEPT !.count = @ + 1, !.frame = f,
                                    !.step = IF RxBuffers \subseteq status THEN @ ELSE "clear"]
    /\ UNCHANGED <<rxBuf, status>> /\ HartIsIdle

\* Mutant: the first buffer, full or not.
PicksFirst(full) == 0
Picks(full) == Min(RxBuffers \ full)
ClearBuffer ==
    /\ listener.step = "clear"
    /\ rxBuf' = [rxBuf EXCEPT ![Picks(status)] = Empty]
    /\ listener' = [listener EXCEPT !.no = Picks(status), !.step = "fill"]
    /\ UNCHANGED <<status, arrived>> /\ HartIsIdle

FillBuffer ==
    /\ listener.step = "fill"
    /\ rxBuf' = [rxBuf EXCEPT ![listener.no] = Filled(listener.frame)]
    /\ listener' = [listener EXCEPT !.step = "load"]
    /\ UNCHANGED <<status, arrived>> /\ HartIsIdle

LoadStatus ==
    /\ listener.step = "load"
    /\ listener' = [listener EXCEPT !.seen = status, !.step = "store"]
    /\ UNCHANGED <<rxBuf, status, arrived>> /\ HartIsIdle

StoreStatus ==
    /\ listener.step = "store"
    /\ status' = listener.seen \cup {listener.no}
    /\ listener' = [listener EXCEPT !.step = "read"]
    /\ UNCHANGED <<rxBuf, arrived>> /\ HartIsIdle

Thread == (\E f \in Frames : Arrive(f)) \/ ClearBuffer \/ FillBuffer \/ LoadStatus \/ StoreStatus

\* The registers are those that the driver uses; they are whatever the memory held.
Init ==
    /\ \E control \in {0, 255} :
           can = [state |-> "init", no |-> 0, readSelect |-> -1, writeSelect |-> -1, mod |-> << >>,
                  load |-> << >>, ptr |-> 0, txBuf |-> [n \in TxBuffers |-> Empty],
                  registers |-> [r \in {MCP_CANCTRL, MCP_CNF1, MCP_TXB0CTRL} |-> control]]
    /\ rxBuf = [n \in RxBuffers |-> Empty] /\ status = {} /\ clearing = Unset
    /\ rxqueue = << >>
    /\ listener = [step |-> "read", frame |-> CHOOSE f \in Frames : TRUE, no |-> 0, seen |-> {},
                   count |-> 0]
    /\ driver = [what |-> "idle", control |-> Unset, todo |-> << >>, unread |-> 0, got |-> << >>,
                 header |-> << >>, full |-> {}, burst |-> FALSE, wrong |-> FALSE, ops |-> 0]
    /\ bus = << >> /\ wanted = << >> /\ arrived = {} /\ received = {}

Next == Driver \/ Thread

Spec == Init /\ [][Next]_vars
-----------------------------------------------------------------------------
Over == driver.what = "idle" /\ driver.ops = MaxOps /\ Listening /\ listener.count = MaxArrivals

(* A frame crosses the controller whole or not at all, in both directions: what the driver
   reads did arrive, whatever the thread stores meanwhile and whatever became of an update of
   status; what goes out is what the driver wrote, in its order and before the driver is told
   that it has gone; and a register holds what the driver has written (can.cpp:388, 424). *)
FramesAreWhole ==
    /\ received \subseteq arrived
    /\ IsPrefix(bus, wanted) /\ (driver.what = "idle" => bus = wanted)
    /\ ~driver.wrong
=============================================================================
