--------------------------------- MODULE Dma ---------------------------------
(***************************************************************************)
(* The DMA controller of the basic platform (vp/src/platform/basic/dma.h)  *)
(* and the driver that uses it.  One SystemC thread waits for run_event,   *)
(* copies through a buffer, block by block, and triggers its interrupt;    *)
(* the registers stay writable meanwhile and are read again for every      *)
(* block, and a notification finds nobody waiting while it copies.         *)
(***************************************************************************)
EXTENDS Integers

CONSTANTS BufferSize,
          Cells,          \* the addresses of the memory are 0 .. Cells - 1
          Commands,       \* what a driver asks for: [op, src, dst, len]
          MaxCommands,    \* bound on the commands of a behaviour
          Eager           \* the driver does not wait for the interrupt

(* The driver keeps to the memory, and asks for no copy that would read, in a later
   block, what an earlier one has written over. *)
DmaAssumption ==
    /\ BufferSize \in Nat \ {0}
    /\ Cells \in Nat
    /\ Eager \in BOOLEAN
    /\ \A c \in Commands :
        /\ c \in [op : {"NOP", "MEMCPY"}, src : Nat, dst : Nat, len : Nat]
        /\ c.src + c.len <= Cells /\ c.dst + c.len <= Cells
        /\ c.dst <= c.src \/ c.src + c.len <= c.dst \/ c.len <= BufferSize

VARIABLES regs,           \* src, dst, len, op
          run_event,      \* notified, to happen 10 ns later
          thread,         \* run(): what it copies and how far it is
          buffer,         \* cells read and not yet written
          mem,
          issued,         \* commands written so far
          busy,           \* the driver waits for the interrupt
          wanted          \* what the commanded copy should leave (history)

dmaVars == <<regs, run_event, thread, buffer, mem, issued, busy, wanted>>

Addresses == 0 .. Cells - 1
Smaller(a, b) == IF a < b THEN a ELSE b
Idle == [at |-> "wait", n |-> 0, off |-> 0]
Nothing == [i \in {} |-> 0]

DmaInit ==
    /\ regs = [op |-> "NOP", src |-> 0, dst |-> 0, len |-> 0]
    /\ run_event = FALSE
    /\ thread = Idle
    /\ buffer = Nothing
    /\ mem = [a \in Addresses |-> a]
    /\ issued = 0
    /\ busy = FALSE
    /\ wanted = Nothing

\* The memory after the copy that a command asks for.
Copied(c) ==
    [a \in Addresses |-> IF c.op = "MEMCPY" /\ a \in c.dst .. c.dst + c.len - 1
                         THEN mem[c.src + a - c.dst] ELSE mem[a]]

\* transport: the parameters, and then the operation, which notifies.
Command(c) ==
    /\ issued < MaxCommands
    /\ Eager \/ ~busy
    /\ regs' = c
    /\ run_event' = TRUE
    /\ issued' = issued + 1
    /\ busy' = TRUE
    /\ wanted' = Copied(c)
    /\ UNCHANGED <<thread, buffer, mem>>

\* run(): the event happens, and wakes the thread if it waits for it.
Happen ==
    /\ run_event
    /\ run_event' = FALSE
    /\ thread' = IF thread.at # "wait" THEN thread
                 ELSE IF regs.op = "NOP" THEN [thread EXCEPT !.at = "done"]
                 ELSE [at |-> "read", n |-> regs.len, off |-> 0]
    /\ UNCHANGED <<regs, buffer, mem, issued, busy, wanted>>

\* _copy_block: the block is read, and time passes before it is written.
ReadBlock ==
    /\ thread.at = "read"
    /\ buffer' = [i \in 0 .. Smaller(thread.n, BufferSize) - 1 |-> mem[regs.src + thread.off + i]]
    /\ thread' = [thread EXCEPT !.at = "write"]
    /\ UNCHANGED <<regs, run_event, mem, issued, busy, wanted>>

\* Mutant: a rest of one cell is forgotten.
NextBlockDropsRest(t) ==
    IF t.n > BufferSize + 1
    THEN [at |-> "read", n |-> t.n - BufferSize, off |-> t.off + BufferSize]
    ELSE [t EXCEPT !.at = "done"]

\* The loop of _perform_memcpy: a block of the buffer's size, then the rest.
NextBlock(t) ==
    IF t.n > BufferSize
    THEN [at |-> "read", n |-> t.n - BufferSize, off |-> t.off + BufferSize]
    ELSE [t EXCEPT !.at = "done"]

WriteBlock ==
    /\ thread.at = "write"
    /\ LET first == regs.dst + thread.off
       IN  mem' = [a \in Addresses |-> IF a - first \in DOMAIN buffer THEN buffer[a - first] ELSE mem[a]]
    /\ thread' = NextBlock(thread)
    /\ buffer' = Nothing
    /\ UNCHANGED <<regs, run_event, issued, busy, wanted>>

\* gateway_trigger_interrupt, and the thread waits again.
Finish ==
    /\ thread.at = "done"
    /\ thread' = Idle
    /\ UNCHANGED <<regs, run_event, buffer, mem, issued, busy, wanted>>

\* The driver's handler.
Answered ==
    /\ busy' = FALSE
    /\ UNCHANGED <<regs, run_event, thread, buffer, mem, issued, wanted>>

DmaStep ==
    \/ \E c \in Commands : Command(c)
    \/ Happen
    \/ ReadBlock
    \/ WriteBlock
-----------------------------------------------------------------------------
(* When the controller reports a copy, the memory holds what was asked for,
   block by block and no more, as long as its driver waits for the report. *)
CopyIsExact == thread.at = "done" => mem = wanted
==============================================================================
