# DSE-VP: specifications, model checking and proofs

DSE-VP consists of two simulators. `vp/src` is a virtual prototype of RISC-V platforms in SystemC TLM
(instruction set simulators, interrupt controllers, buses, devices, a debugger). `NVmain` is a cycle-level
simulator of memory controllers for DRAM and non-volatile memory. They meet only through a file: the VP's
memories can write their accesses as a trace (`vp/src/platform/common/mem_trace.h`) that NVmain's
`traceSim` reads. All paths below are relative to `src/riscv-vp-mine/`.

This directory holds TLA+ modules of the core of both, TLC configurations for small
instances, and TLAPS proofs of what matters most for every instance. `PROJECT.json` maps each definition
to its source lines, and lists the components, runs, mutants, hazards and theorems.

    tlc -config HartMemorySafe.cfg MCHartMemory      # a run: <run>.cfg with the module PROJECT.json names
    tlapm HartsProof.tla                             # a proof module

## 1. The system

### How it executes

All harts, bus targets and devices of a platform are SystemC threads and methods. The kernel never preempts
them: a thread runs until it calls `wait`. Between two waits a hart executes any number of
instructions *ahead of the simulated time* (its quantum keeper holds a local time, 10 ns of quantum by
default). So there are four sources of interleaving, and each module says which it has:

* waits inside an operation: `BusLock::wait_until_unlocked`, `wait(wfi_event)`, a quantum synchronisation,
  a bus target that waits in its `b_transport`, the debugger that waits for a stop event;
* events notified for later: the PLICs' `e_run` (one clock cycle), the CLINT's `irq_event`, zero-time
  notifications that wake threads in the next delta cycle; and signals, whose writes the next delta cycle sees;
* local time: two harts see the same device at different times, in any order within a quantum;
* threads of the operating system (UART, SLIP, GPIO, CAN, GDB, the CLINT in real time) that reach
  SystemC through `AsyncEvent`, semaphores and mutexes, or through plain shared variables.

NVmain is one thread; its interleavings are those of an event queue with priorities, of
refreshes, and of wakes that have to be scheduled for the right cycle.

### Components

*State; operations; interactions; what is hard; what must hold.*

**Bus lock, LR/SC and AMO** (`platform/common/bus.h`, `core/rv32/mem.h`, `core/rv32/iss.{h,cpp}`).
`locked`, `owner`, `lock_event`; per hart `lr_addr`, `lr_sc_counter`. LR and AMO lock the bus for the hart, SC
and the end of the LR window (17 instructions) unlock it, every other access of every initiator waits. Shared by all harts
and by DMA-like devices (`PeripheralWriteConnector`). Hard: the
unlock is spread over SC, stores, traps, WFI and the quantum synchronisation; waiting threads re-test after a
zero-time notification; the MMU walks page tables *inside* an AMO. Must hold: AMOs and successful LR/SC pairs are
atomic, no lock is forgotten, no waiting thread is, every access gets through.

**MMU page walk** (`core/common/mmu.h`). TLB, walk, update of the A and D bits through the same memory interface.

**FE310 PLIC** (`platform/common/fe310_plic.h`; basic, hifive and tiny platforms). Pending, enable, priority,
threshold, claim registers, `hart_eip`; devices trigger, `run()` raises the hart's interrupt a cycle later, software claims
and completes. Hard: everything software does between trigger and `run()`; what a completion leaves behind.

**GPIO** (`platform/hifive/gpio.cpp`). Pins that the server's thread and the guest change without a lock;
`synchronousChange` works on a snapshot that it writes back, and triggers the PLIC for armed edges. **GPIO server and client** (`gpio/gpio-{server,client}.cpp`). A
control channel for requests; a data channel on which the SystemC thread pushes levels and SPI bytes and waits for answers; a map of channels on each side that two threads use.
Hard: a lock on one side only, clients that go away, reads and accepts without a time limit. **DMA controller**
(`platform/basic/dma.h`). Registers that stay writable during the copy, one event. Both are composed with the FE310 PLIC.
Must hold: no edge leaves a pin deaf, values follow pins, updates and answers meet the handler and the push they are for, every push returns, a reported copy is exact.

**FU540 PLIC** (`platform/common/fu540_plic.cpp`; Linux platforms). The same for several harts with M and S
contexts. Hard: shared interrupts, two levels per hart, register blocks indexed by interrupt.

**CLINT** (`core/common/clint.h`). `mtime`, `mtimecmp` and `msip` per hart, one event for the
earliest timer. Hard: local times, 64-bit values written in halves, `sc_event::notify` that ignores
later times. **CLINT in real time** (`core/common/real_clint.cpp`, `timer.cpp`): an OS thread per hart that sleeps until its
`mtimecmp`. Hard: cancelling a thread that is about to notify, the truncated ratio of the clocks. Must hold: a timer that is set
goes off, and not early.

**Trap unit and WFI** (`core/rv32/iss.cpp`, `rv64/iss.cpp`). Trap CSRs of three levels; interrupts, exceptions, delegation,
xRET, WFI. Hard: nested traps share one set of CSRs per level; a wake-up races with the
sleep. **Instructions** (`core/common/instr.{h,cpp}`, both `iss.cpp`, `csr.h`): decoding and expansion of compressed instructions, multiplication and
division in C++ types, accesses to CSRs: which bits at which level. **Instruction timing** (`core/rv32/timing.h`): latencies of registers, two units and stores, advanced by
every stall. Must hold: the times are those of a scoreboard of absolute times.

**UART and SLIP** (`platform/common/{abstract_uart,slip,uart}.cpp`, `async_event.h`). Two OS threads, two queues with a mutex
and a semaphore each, watermark interrupts, a shutdown protocol; SLIP encodes network packets into
the bytes. Hard: levels change in three threads and are looked at in one of them; limits of queues and
semaphores; joining blocked threads.

**GDB server and runners** (`core/common/gdb-mc`). A packet in `pktq`, under a mutex until it is handled; per hart a run and a stop
event and a status; `vCont` starts harts, waits for the first stop and then stops the others. Hard: harts stop by themselves, or exit,
while they are being stopped; events notified immediately, which nobody hears who does not wait yet.

**CAN controller and SPI** (`platform/hifive/can.cpp`, `spi.h`). A state machine over bytes; transmit and receive buffers; a thread of
the host that fills the latter. Hard: buffers and status without a lock. Must hold: frames are never torn.

**SM3 and SM4 accelerators** (`platform/tiny32`). Rounds at clock edges, or a block at once, or at changes of signals, behind a register
socket or the AHB, whose bus transactions wait. Hard: ready and enable signals with two writers a delta cycle apart, a guest that polls.

**NVmain event queue, memory controller, schedulers** (`NVmain/src/{EventQueue,MemoryController}.cpp`,
`MemControl/{FRFCFS,FCFS,FRFCFS-WQF}`). A transaction queue (two with WQF), command queues per rank, bank or
subarray, an *expected* row state next to the actual one, refresh counters, one pending wake. Hard: the controller sleeps
until an event wakes it, so every wake must be early enough; refreshes come between the commands of a transaction;
issued commands stay queued for a cycle; draining writes starts and ends by watermarks.

**NVmain rank, bank, subarray and bus** (`Ranks/StandardRank`, `Banks/DDR3Bank`, `SubArray.cpp`, `Interconnect/OffChipBus`). Windows
per kind of command at three levels, power states, the other ranks' commands. Hard: a rule between two commands holds only if
some level keeps a window for it.

**NVmain's top level** (`NVM/nvmain.cpp`, `src/{NVMObject,AddressTranslator,TranslationMethod}.cpp`, `Decoders/Migrator`, `Utils/CoinMigrator`). Addresses
are translated into places, a page may have moved to another channel; hooks run before and after each call; reads and prefetches fill a buffer; two pages
are exchanged while requests go on. Hard: contents that are in neither place meanwhile, answers from three sources, completions inside completions. Must hold: no content and no
answer is lost, translation is a bijection.

Not modelled, with the reasons in `PROJECT.json` and section 7: system calls and the ELF loader, DMI and debug memory,
the address router, the devices without behaviour of their own (flash, sensors, ethernet, AON, PRCI, ROMs, UART 16550, HTIF), the platforms' `main`s,
power and temperature co-simulation, parameters, tracing; NVmain's DRAM cache, cached banks, encoders, endurance and fault
models, the other prefetchers, predictors, statistics and front ends; libraries, guest software and GUIs.

## 2. The modules

| module | models |
|---|---|
| `BusLock` | class `BusLock` and its event |
| `HartMemory` (EXTENDS BusLock) | harts, memory interface, page walk, LR window, devices |
| `AtomicMemory` | the abstract specification `HartMemory` implements |
| `FE310Plic` | the interrupt controller with its hart's software |
| `Gpio`, `Dma`; `GpioServer`; `Platform` | two devices; the server and a client of the first; all composed with `FE310Plic` and a handler that serves them |
| `FU540Plic` | an interrupt controller with the software of several harts |
| `ClintHarts`; `Clint`; `RealTime`, `RealClint` | harts; timers in simulated time; in the time of the host |
| `TrapUnit` | traps of one hart |
| `Encoding`; `Instr`; `Interpreter`; `Floats`; `Csr` | which instruction a word is; what a compressed one stands for; integer arithmetic; floating point around softfloat; the control and status registers |
| `PipelineLatencies`; `PipelineTiming`; `Scoreboard` | parameters; the timing model; the abstract specification it implements |
| `AbstractUART`; `SlipUART` | the threads and queues; composed with SLIP's two conversions |
| `GdbServer` | the debugger's server, the runners, the loops of the harts |
| `Can` | the CAN controller behind SPI, its thread, a driver |
| `Sm3`, `Sm4`; `Accelerators` | the devices; composed with their registers, sockets, clock and guests |
| `EventQueue`; `MemoryController` | NVmain's calendar; controller, schedulers, banks composed with it |
| `NVMain` | translation, hooks, prefetch buffer and migration above the controllers |
| `RankTiming` | a rank with its banks and arrays and the bus, against an observer that knows the device's timing rules |
| `MC*` | definitions for the constants of the runs, symmetry sets |
| `*Proof` | theorems and proofs, section 5 |

`MCHart`, `MCClint`, `MCDevices` and `MCHartsLive` run components that share no state in one specification: a variable `kind` chooses one of them in `Init`, the
variables of the others keep a first value, and the state spaces add up rather than multiply.

**HartMemory.** A hart's `pc` names the point of its current operation: `fetch` (between instructions), `lock`, `check` (SC),
`load`, `store`, the page walks before those two (`xload`, `xstore`), `wfi`, `sleep`, `trap`, and `finish` (what
`run_step` does after an instruction). `running` is the
thread between two waits; only it may act, except that `KernelDelta` wakes those that `lock_event` notified.
`wait_until_unlocked` is `AwaitRights`: a hart that finds the lock taken by another becomes
waiting and tests again when woken. `TakeLock`, `Load`, `StoreWord`, `CheckReservation`, `Wfi` and the rest
are the paths of `atomic_load_word`, `load_reserved`, `store_conditional`, `_raw_store_data` and of
`performance_and_sync_update` (the window's countdown). The walk of a FETCH is part of `Fetch` (`FetchSetsAccessed`: it unlocks too). The variable `platform` is chosen in `Init`: whether addresses are
translated (`paged`) and whether bus targets wait inside a transaction. A failed assert ends the simulation
(`Aborted`, `Gone`). An address is a word and its page; a TLB hit is a walk that finds the bits set.

**AtomicMemory.** A memory whose stores, AMOs and SCs are single steps; SC succeeds
only on a reservation no other agent's write has broken. `HartMemory!AtomicSpec` is its `Spec` under the
refinement mapping that shows a reservation from LR's load until the lock is given up (`Reservation`).

**FE310Plic.** `pending`, `enabled`, `priority`, `threshold`, `hart_eip`, `claimed`, `e_run` are the
registers and the event, `meip` the hart's bit. `Scan` is the loop of
`hart_get_next_pending_interrupt`, `IsNext` what it finds. `Polls` and `Nests` say whether software reads the claim register unprompted, and claims before it has completed; `unannounced` is a history variable: the
interrupts that a register write made deliverable without notifying `e_run`.

**Gpio, Dma, Platform.** A register of the GPIO is the set of pins whose bit is 1. The server's thread (`client`) reads a pin's previous level, sets the
pin and compares in three steps; `SynchronousChange` takes the snapshot, and its second half updates `value`, triggers and writes
pins back. `Repeats` lets a client set a pin to the level it has. `Dma` copies in blocks of `BufferSize` with a step per block, reading the registers again each
time; `Eager` is a driver that does not wait. In `Platform` the handler serves an interrupt between claim and completion: it rearms
the pin's edge, or takes the end of a copy.

**GpioServer.** `server` is the server's thread (it accepts, reads, answers, waits for the data channel, enters the channel), `push` a `pushPin` or `pushSPI` of the SystemC thread from the lookup over the
write and the read of the answer to closing the channel and clearing the map, each a step, `program` and `dispatcher` are the client's threads with `dataChannel_m` between them. `updates` and `responses` are the
two directions of the data channel. A client's end makes the server's end of it `stale`, a write then makes it `reset`, and the next is the signal that kills. `Quit` is the destructor's call. The switches
`LeavesWith`, `LeavesEarly`, `ComesEarly`, `AsksAgain` say what clients may do.

**FU540Plic.** As FE310Plic, per context. `ReadWord` and `ProgrammedWord` keep apart the
priority word the code reads for an interrupt and the one software wrote for it. Handlers claim and complete
until a claim returns 0.

**Clint.** Times are relative to a bound `MaxTime`, in units of SystemC's resolution. `Tick` advances time but not beyond `irqAt` or the slowest hart; `RunAhead`
is an instruction's time; `WriteOld`, `WriteNew`, `WriteLast` are the three writes that the class comment asks of
software; `Run` is `CLINT::run` with its re-notification.

**RealClint.** A timer's thread is asleep, cancelled, awake (past `nanosleep`, about to notify) or over; `WriteMtimecmp` ends where `pause` waits for it in
`pthread_join`, and `SetTimer` is the rest, which compares with the `mtime` read before the wait. `Interrupt` is the SystemC thread that looks at every hart. A tick is `DIVIDEND` units of the
clock; the source's ratio is the integer 30.

**TrapUnit.** Executing contexts are numbered by nesting (`pc`); `frames` is the history of what each handler
has to return to, and what it saved. `CheckInterrupts` is `compute_pending_interrupts` and `prepare_interrupt`, `Step` an instruction (exception, xRET, WFI,
CSR writes). Software assumptions are in the
module's head: handlers keep the only copy of a context safe.

**Encoding, Instr.** A word is a record of its fields. `decode_normal` is the function's switches with its masks; the reference is each instruction's encoding. CUSTOM0 to 3 have masks equal to their encodings, so nothing
of their words is compared. A halfword is a number, its decoding and expansion follow `decode_and_expand_compressed` with the macros of immediates. The reference is RISC-V's table of
immediate bits (`Layout`) and of the instructions that a compressed one stands for.

**Interpreter, Floats.** Operators with C++'s conversions at a width; the reference of the former is arithmetic on integers and sets of bits. Floating point is softfloat's, which is external: an instruction comes with every answer it
may give. What is checked is what the interpreters add: an instruction that traps changes nothing, flags accumulate, `FS` becomes dirty, singles are boxed, the four fused instructions have
their signs, comparisons, classes, sign injection, minimum and maximum are IEEE's. Named deviations: rounding mode 4 (RMM) is illegal, FMIN and FMAX give `rs2` when only that is a NaN (`rv64/iss.cpp:828`, `846`), FLW, FSW and
FLD neither check `FS` nor set it (`rv64/iss.cpp:781`), RV64 does not check `misa` for F and D.

**Csr.** A value is the set of its bits that are 1. `ViewAt` says of each address which register it shows, which bits are read and which written; `Execute` is an instruction with the traps in their order. `AccessIsRight`: one that
traps has done nothing; it changes the register it names and no other, there only bits of the hart's level or below, and keeps legal what is legal; it reads nothing that belongs to a higher level (the same with `Hidden` registers);
what it has read can be written back.

**NVMain.** A page is a row of a bank in a channel. `Issued` is `NVMObject_hook::IssueCommand` with what the hooks do before it (`Dropped`) and after it (`TryMigration`); a channel's controller is a queue that
accepts while there is room and completes in any order, `Complete` is the completion with everything nested in it. `memory` and `buffers` are history variables: which page's content is where. The three ways to run are
migration in cycles, migration at once, and prefetching.

**RankTiming.** `rank`, `bank`, `array` hold the windows of the three levels, counted from the current cycle; `Issuable` is the conjunction of the three `IsIssuable`, and each command updates all of them as
`IssueCommand` does on its way down. `peer` and `PeerColumn` are the other rank with `Notify`. `age`, `bursts` and `broken` are the observer: it knows only which commands came when.

## 3. The runs

| run | states | what it shows |
|---|---|---|
| `HartMemorySafe` | 3.5 M | no lost wake-up, no forgotten lock, refinement of `AtomicMemory`, with a debugger that stops harts, on both kinds of platform |
| `HartsLive` | 315 k | every access gets through, also where a target waits while the lock is held; where none does, no hart gives up the processor with the lock; the debugger: no hart runs unasked, stop replies are true, whoever was started is collected |
| `HartMemoryAmoAssert` | violation | finding 1 |
| `FE310Plic` | 304 k | no lost interrupt, the assert holds for one claim at a time, the first is served; pins stay responsive and values follow them; updates of pins reach the handlers of the programs that watch them, pushes return, the server ends; copies are exact |
| `FU540Plic` | 188 k | interrupts are raised when due and only then, the first is served |
| `FU540PlicPriority` | violation | finding 2 |
| `Clint` | 3.4 M | timers are watched, not early, never for half-written values; in real time none is lost or early; NVmain's top level loses no content and no answer under migration and prefetching |
| `NVMainBuffers` | violation | finding 3 |
| `Hart` | 904 k | contexts survive nesting and returns unwind it, wake-ups arrive, privilege is kept, interrupts are taken; every word is the instruction of its encoding, every compressed one means what RISC-V says, integer arithmetic is exact, floating point keeps its registers, flags and state; CSR accesses keep to their level and their bits; the pipeline implements the scoreboard |
| `SlipUART` | 1.2 M | levels noticed, semaphores agree with queues, packets whole both ways, guest served, shutdown completes |
| `MemoryController` | 715 k | row states agree, wakes in time, refresh prompt and repeated, each request served once, those of a row in order, and all of them |
| `Devices` | 542 k | no sequence of issuable commands breaks a timing rule of the device or of the shared bus, and the three levels agree; accelerators answer from their inputs and in time; CAN frames are whole |

Every property of a passing run has a mutant in `PROJECT.json`: a plausible bug in a mapped definition, under which
the same run finds the property violated. Properties that belong together are conjunctions of named parts: `NestingUnwinds` (contexts kept, returns to the innermost), `PacketsArrive`
(in and out), `LevelsAgree` (power, closing), `RefreshIsPrompt`, `RealTimersAreExact` (not lost, not early), `PinsAreShared` (no deaf pin, values follow; updates meet their handlers, answers their pushes, nobody is killed), `WaitsEnd` (the first interrupt is served, pushes return, the server ends), `RaisedWhenDue` (no lost interrupt, no
storm), `DataAreRight` (results of accelerators, CAN frames), `MemoryIsKept` (contents, answers, asserts, translation), `DeviceAccepts` (rules of the device, bursts on the bus), `Drains` (requests served, refreshes repeated).

### Bounds, and why they suffice

* *HartMemory*: two harts, one device, two words, two values. A conflict needs an owner, one other writer and one word; the second word
  separates reservations by address, the device is the writer that is not a hart. `Window = 3` instead of 17: the window's begin, middle and end. The two platforms are
  the repository's: translation over memories that never wait (linux), or none with targets that may wait
  (the AHB socket of an accelerator). Translation over waiting targets does not exist there, and would break atomicity
  of the PTE update. `HartsLive` drops translation, device, debugger, second word and second value, because liveness costs
  most, and has both a platform whose targets wait, where harts find the lock taken and sleep on it, and one whose targets do not; `timed` are the harts in a `wait(time)`, which ends only when
  nothing else is left to do (`TimeAdvances`; all waits of the targets are for positive times, e.g. `AHB_Socket.cpp:50`): without it a hart could take the lock again before the kernel has woken the one it notified. There `Quantum = 2` makes the synchronisation occur inside a window, and LR
  does not restart a running window, as in rv64 (`LrReloads = FALSE`).
* *FE310Plic*: three interrupts (a pair of equal priority and another), priorities to 2, written values below and above
  the maximum so that clamping happens. One pin with four sets of registers a guest may write (the pins meet only in the event), and copies of less than a block,
  a block, a block and a rest, and two blocks, two commands in a row, overlapping too. The three kinds of devices (`live`) do not mix: the controller tells them apart only by id. The fourth
  kind, the server: pins of each of the three functions, one after the other two clients, a socket that two updates fill.
* *FU540Plic*: three interrupts of which two are triggered, hart 0 in M and hart 1 in S as Linux uses them.
* *Clint*: two harts, a tick of two units, quantum 1, four units of time: a timer before, in and after
  the running tick, and every order of two timers; in real time a tick of two units and timers of up to two ticks, so that a timer is set before, at and after its time. The runs stop at `MaxTime`, so deadlock is not checked.
  NVmain: two rows, columns, banks and channels; under migration three lines, of a fast page and of two slow ones, queues and prefetch buffer of two, three requests outstanding, two migrations: one page goes and comes back, or two go; the
  prefetched line is the next one, which the stream accesses, and a line beyond.
* *Hart*: a machine timer and a supervisor interrupt, one exception, the delegations of a kernel in S and of handlers in U, one
  saved context at a time (`MaxSaved`): nesting M over S over U with each of them interrupted. All 49152 halfwords that are compressed instructions, for both widths: exhaustive. The words of every encoding, with the extremes in the fields it leaves free. Operands of 4 bits, all pairs, with
  half of that for the word instructions: both signs, 0, the minimum and overflow; widths enter only as an exponent. The pipeline: a register that is `x0` and one that is not, three accesses of which two overlap, 15 cycles, longer than the longest latency twice over.
  CSRs: every address of both tables and their neighbours, every level, three patterns of operands and registers.
* *SlipUART*: queues of two bytes. Two packets come in, or go out with an empty one between them, seven bytes on the wire: more than the queue
  plus the byte in the thread's hands. Each direction escapes an END and an ESC; with the third
  traffic, where an empty packet comes in while a byte that is not escaped goes out, every branch of `write_data` is taken. All thresholds below the depth. Deadlock is not checked: the simulation ends, and see hazard `abstract_uart.cpp:97`.
* *HartsLive*, the debugger: three harts: one that is started, one that stops by itself meanwhile, one that is left alone; two addresses, a breakpoint set or not. Deadlock is not checked: harts exit.
* *MemoryController*: two banks of two subarrays with two rows, four addresses (row hit, row conflict, other subarray, other bank), three requests through a queue of two, a
  refresh interval of 12 with all delays between 1 and 3; configurations: per-bank queues, precharge
  before refresh, closed page, refresh in groups; a per-rank queue, open page, one bank per refresh, starvation; FCFS; and WQF with a high watermark of 2 and a low one of 1. Refreshes fall before, between and after the commands of requests.
* *Devices*: two banks, one bank per refresh, a timing file in which no two parameters that bound the same pair of commands are equal by accident, and in which the window of activations (`tRAW`, two of them) is longer than `tRC`. One or
  two blocks and keys: state left by the first would show in the second. Two operations of the CAN driver with three arriving frames: a full and an overfull pair of buffers; SPI's queue of 14 bytes, shorter than the longest burst.

### Fairness

* SystemC executes every runnable thread in an evaluation phase, and a thread runs on to its next wait: weak fairness of kernel actions and of
  the thread's steps. `MCHartsLive` needs strong fairness of a hart's steps: whether it may step changes
  while others execute, take the lock and let time advance, and the kernel runs it each time. That it finds the lock free then is not assumed. Nothing is assumed of a hart in WFI.
* A PLIC's `run()` is reached by time; a hart takes enabled interrupts and its handler goes on (weak). Devices, clients of the GPIO and reconfiguration are
  not fair. The threads of the GPIO server and its client go on (weak); a client polls the pins for as long as it lives, as the repository's do (weak), but need neither ask for a channel nor leave.
* The operating system schedules both UART threads and `stop_threads` (weak); input need not come, the simulation need not end.
* The debugger's server and each runner go on (weak); packets need not come, and a hart that runs need not stop.
* Accelerators: clock edges and delta cycles happen (the kernel), a guest's transaction goes on whenever it may resume and the guest takes its next step infinitely often (strong, since edges disable it in
  between; polling takes instructions, each of which takes time). Written with the guards of the actions instead of `ENABLED`.
* NVmain's loop processes events until requests are served: infinitely often an event or a tick
  (`[]<><<RunEvent \/ Tick>>_vars`; one of them is always possible, so this is weak fairness).

## 4. Findings

1. **An AMO with translation fails an assert** (`core/rv32/mem.h:214`). `atomic_load_word` locks the bus and then translates; when the
   page's A bit is clear, the walk stores the PTE, that store unlocks the bus, and the AMO's own store finds it unlocked. Run `HartMemoryAmoAssert`.
2. **The FU540 PLIC compares shifted priorities** (`fu540_plic.cpp:191`). The block starts at interrupt 1 but is indexed by the
   interrupt: a claim uses the next interrupt's priority. Run `FU540PlicPriority`.

3. **Requests for a migrating page go to memory** (`Utils/CoinMigrator/CoinMigrator.cpp:256`). The hook that should answer them from the migrator's buffers runs before the call, on an address that
   only the call translates. Run `NVMainBuffers`.

These are reproduced by one changed constant of a run, or the few that a row names; the passing run states the condition under which the property holds:

| change | violates | because |
|---|---|---|
| `FE310Plic`: `Nests = TRUE` | `NoAssertFails` | the inner completion clears `hart_eip`, a trigger follows, and the outer completion finds it pending before `run()` (`fe310_plic.h:170`) |
| `FE310Plic`: `Repeats = TRUE` | `PinsAreShared` | a client's second, equal write is compared with a pin the guest has changed back meanwhile; `value` stays behind (`gpio.cpp:308`) |
| `FE310Plic`: `Eager = TRUE` | `CopyIsExact` | the registers of a running copy are replaced (`dma.h:83`) |
| `FE310Plic`: `ComesEarly = TRUE` or `AsksAgain = TRUE` | `PinsAreShared` | an id is the number of channels (`gpio-server.cpp:72`): after a clear, or a second request for a pin, two pins have the same |
| `FE310Plic`: `LeavesWith = {"SPI", "BITSYNC"}` | `PinsAreShared` | the second push to a client that is gone raises SIGPIPE, which ends the simulation (`gpio-server.cpp:355`) |
| `FE310Plic`: `LeavesEarly = TRUE` | `WaitsEnd` | a client that dies during its first request leaves the server's thread in `accept`, and the destructor in `join` (`gpio-server.cpp:302`) |
| `HartsLive`: `Ebreaks = TRUE` | `AllStop` | a hart after EBREAK counts as stopped while it is still on its way out of the loop, and is made runnable again (`gdb_server.cpp:167`) |
| `MemoryController`: `Params <- MCSubArrayParams` | `NoOversleep` | with queues per subarray the wake is computed from the queue of subarray 0 (`MemoryController.cpp:1798`) |
| | `RowsAgree` | a refresh precharges the whole bank through that same queue (`MemoryController.cpp:674`), while another queue of the bank still holds a READ |
| `MemoryController`: no precharges, three banks of one subarray and row, `QueueSize = 4`, `tCCD` and `Horizon` 6, the other delays 1, `tREFI = 20`, requests to banks 0, 1, 2, 0, 2, 1, 1 | `NoOversleep` | a `Cycle` left over from the cycle before issues a READ ahead of that cycle's wake; the wake takes its next time from heads that are issued already, here the READ's after `tCCD`, and a REFRESH behind the READ waits for it although the bank could take it at once |
| `MemoryController`: `Params <- MCLowParams` | `Drains` | FRFCFS-WQF's default low watermark of 0: a drain that empties both queues is never ended (shipped configurations use 32/16) |
| `MemoryController`: `EndsInDrain = TRUE` | `Drains` | `Drain()` during a drain leaves `m_draining` set for ever (`FRFCFS-WQF.cpp:346`) |
| `Devices`: `tRAS` above `tRCD + tRTP`, `closePage # 0` | `RestoreAssumption` (an `ASSUME`; without it, `DeviceAccepts`) | a read with implicit precharge ignores `tRAS`; `Config/3D_DRAMCache_OffChipMemory_example.config` has such times and closes pages; the files for DRAM have such times, too, but `ClosePage 0` |
| `Devices`: `ReadsBack = {"AHB"}` | `DataAreRight` | HSEL is never taken back, so the write after a read first stores the old data in the register that was read (`AHB_Socket.cpp:57`) |
| `Devices`: `Sending = {0, 3}` | `DataAreRight` | `MCP_RTS_ALL` is buffer 3, tested as 4: what follows the buffers is sent (`can.cpp:365`) |
| `Clint`: `MaxOutstanding = 4` | `MemoryIsKept` | both migration writes find full queues, and the retry of one hides the other (`CoinMigrator.cpp:218`) |
| `Clint`: `Recurs = TRUE`, `bankBits = 0`, `Lines = {0, 2, 6}`, `MaxMigrations = 9` | `MemoryIsKept` | the victims recur, and a page in migration is chosen (`CoinMigrator.cpp:315`) |

Others met while modelling, most stated with their hazards:

* UART: `stop_threads` posts `rxempty` once (`abstract_uart.cpp:97`), so a SLIP packet with more bytes left keeps the destructor in `join`; `write_data`
  resolves escapes in its buffer (`slip.cpp:136`), so a packet with ESC followed by ESC_END or ESC_ESC is sent changed.
* Harts: rv32's pipeline build restarts the window at every LR (always to 17), so a loop of LR without SC keeps the bus for ever (`iss.cpp:1276`). JALR, AMOs and floating point bypass the timing model,
  contrary to its comment (`timing.h:156`). `num_total_cycles` (`timing.h:117`), `current_cycles` and `last_cycles` (`iss.h:235`) are never initialised: any `FirstCycles`. The hint C.ADD with
  `rd = 0` becomes EBREAK (`instr.cpp:1123`), and CUSTOM0 to 2 throw "unknown opcode"; `Instr` leaves hints out (`DoesNothing`).
* FU540: a hart with two levels can lose the machine's interrupt (`fu540_plic.cpp:205`).
* CLINT in real time: `interrupt()` raises `mtip` also for a hart whose `mtimecmp` is 0 and never lowers it; the ratio of the clocks, 32.768 kHz, is the integer 30.
* GPIO: a write of `output_en` ORs the old input value into the pins. `quit` closes sockets to "force read command to return" (`gpio-server.cpp:178`), which does not wake a thread that is already reading: the server ends at the
  client's next request. A client that reconnects assigns a new thread to the joinable `iof_dispatcher`, which terminates it (`gpio-client.cpp:206`). `closeIOFunction` looks a pin up in `activeIOFs`, which is never filled, and `isIOFactive` looks it up among ids (`gpio-client.cpp:139`).
* GDB: a continue that waits for an exited hart waits for ever (`gdb_runner.cpp:28`).
* NVmain's top: a moved page is looked for in its new channel under its old row and bank, where its content is not (`PagesAreFound` of `NVMain`); a prefetch goes to the channel of what triggered it
  (`PrefetchesAreTranslated`); a write that hits the prefetch buffer never reaches memory; a kept migration write waits for some other completion; asserts are compiled out by default.
* RV64: PMPCFG2 and PMPCFG3 are MEDELEG's neighbours SEDELEG and SIDELEG (`rv64/csr.h:640`). Functions of NICE that are not known do nothing.
* NVmain: a rank stays REFRESHING while another bank is open; `HandleLowPower` is commented out; FCFS never sets `arrivalCycle`.
* CAN: a frame of length 0 never ends `loadTxBuf`; lost updates of `status` let a frame be read twice or dropped. SM4: decryption before any encryption never becomes ready and writes past `X`; a second
  encryption under the same key shows the ready state of the first; the guests' `rdata` is uninitialised at its first test (the model's poll reads at least once).

## 5. The proofs

TLAPS proves these for every value of the constants that the named assumptions allow.

| module (EXTENDS) | theorem | property |
|---|---|---|
| `HartsProof` (`MCHartsLive`) | `TypeCorrect`, `LockHasWindow`, `WakeupsArrive`, `NobodyParksWithLock` | `TypeOK`, `WindowCoversLock`, `NoLostWakeup`, `NeverParksWithLock` of `HartMemory` |
| | `MemoryIsAtomic` | refinement: `Spec => AtomicSpec`, under `PagedMemoriesDoNotWait` |
| | `StopsAreReported`, `AllStopHolds` | `ReportsARealStop`, `AllStop` of `GdbServer`, under `~Ebreaks` |
| `PlatformProof` (`Platform`) | `TypeCorrect`, `NothingIsLost`, `HandlerIsSafe`, `ClaimsConsume` | `TypeOK`, `NoLostInterrupt`, `NoAssertFails`, `ClaimNeedsTrigger` of `FE310Plic` alone |
| | `PlatformLosesNothing`, `PlatformIsSafe` | `NoLostInterrupt`, `NoAssertFails` with the devices around it |
| | `CopiesAreExact` | `CopyIsExact`, under `~Eager` |
| | `PinsAreSeen`, `PinsAreSharedSafely` | `PinsReachTheGuest`, `PinsAreShared`, under the hypotheses below |
| `FU540PlicProof` (`FU540Plic`) | `TypeCorrect`, `InterruptsAreRaisedWhenDue`, `ClaimsConsume` | `TypeOK`, `RaisedWhenDue`, `ClaimNeedsTrigger` |
| `ClintProof` (`MCClint`) | `EveryTimerIsWatched`, `NoTimerIsTooEarly`, `WritesAreSafe` | `TimerIsWatched`, `NotTooEarly`, `NoSpuriousTimer` |
| | `TypeIsRight`, `RealTimersGoOff` | `RealClint`'s `TypeOK`, `RealTimersAreExact` |
| `HartProof` (`MCHart`) | `TypeCorrect`, `ContextsSurvive`, `ReturnsProperly`, `WfiWakes`, `PrivilegeIsKept` | `TypeOK`, `ContextsAreKept`, `NestingUnwinds`, `NoLostWakeup`, `TrapsKeepPrivilege` of `TrapUnit` |
| | `PipelineKeepsTheTimes` | refinement of `Scoreboard` by `PipelineTiming` alone, and the model's assertions |
| | `HartIsTrapUnit`, `TimesAreKept` | of the hart of run `Hart`: every step of it is one of `TrapUnit` or leaves its state alone; `KeepsTheTimes` |
| `AbstractUARTProof` (`AbstractUART`) | `Invariance`, `TypeCorrect`, `CountsAgree`, `NothingIsLost` | `IInv`, `TypeOK`, `SemaphoresMatch`, `NoLostInterrupt` |
| `MemoryControllerProof` (`MemoryController`) | `ChannelIsGood` | the inductive invariant, with the types of all of a channel |
| | `RequestsAreServedOnce` | `ServedOnce` |
| | `RowsAreAgreed` | `RowsAgree`, under `QueuesHoldBanks` |
| | `RefreshesAreNotForgotten` | `RefreshesAreQueued`: `RefreshIsPrompt` but for one direction, below |
| | `ControllerWakes` | `ControllerIsWoken`: nothing is queued without a wake to come, the safety half of `Drains` |
| `RankTimingProof` (`RankTiming`) | `RankIsTyped`, `DeviceAcceptsEverything`, `LevelsAlwaysAgree` | `TypeOK`, `DeviceAccepts`, `LevelsAgree` |

### What they assume

They rest on the constants' named assumptions: `HartMemoryAssumption`, `GdbServerAssumption`, `FE310PlicAssumption`, `IrqAssumption`, `DmaAssumption`, `FU540PlicAssumption`, `ClintAssumption`, `RealTimeAssumption`,
`TrapUnitAssumption`, `PipelineAssumption`, `UARTAssumption`, `ConfigAssumption`, and for the rank `CountAssumption`, `TimingAssumption` and `RestoreAssumption`. Those that say more than a type, and the hypotheses of single theorems:

* `PagedMemoriesDoNotWait`: no platform translates addresses over memories that wait. So it is in the repository (section 3, *HartMemory*); with both, a PTE's update and the store after it would be two stretches of the thread.
* `~Ebreaks`: guests under the debugger have no EBREAK of their own. `Ebreaks = TRUE` violates `AllStop` (section 4): such a hart counts as stopped while it is still in the last sync of `run()`. One lemma needs the hypothesis, `ExecuteStep`.
* `~Polls`, `~Nests`, `~Eager`, `~Repeats`: the handler claims once per interrupt, drivers and clients wait. The table of section 4 shows what happens without the last three. `FlagsAreTheHandlers`: only the handler writes the flags of a pin's edges. `ClientsBehave`: clients of the GPIO server
  ask once per pin, leave between two requests and with SPI pins only, come when their predecessor is gone, and find an id for each pin. `DmaAssumption`: copies lie inside memory and no block is read after a block before it has overwritten it.
* `QueuesHoldBanks`: where banks are precharged, the queues are not per subarray. `MCSubArrayParams`, which has both, violates `RowsAgree` (section 4). No configuration of the repository sets `QueueModel`, whose default is a queue per bank (`MemoryController.cpp:423`).
* `TimingAssumption`: a burst is no shorter than `tCCD`, and the fast exit from power-down no slower than the slow one. It admits every shipped configuration but the 3D DRAM ones, whose `tCCD` is larger than the burst. `RestoreAssumption` is about implicit
  precharges. It asks nothing of the configurations of DRAM and non-volatile memories, which set `ClosePage 0`. It excludes those that leave the default of 1 (`Params.cpp:167`), such as `3D_DRAMCache_OffChipMemory_example.config`: its `tRAS` is above `tRCD + tRTP` and its `tWR` above `tWTR + tRTP`,
  and the device's rules are broken there (section 4).

### The arguments

The inductive invariants, and why the properties alone are not inductive:

* *HartMemory*: `WindowCoversLock` speaks of harts between instructions. `LockInv` extends it to every point inside one: a hart that
  holds the lock with its window at 0 is in an LR or AMO that will set it, or will unlock or trap.
  `PointsOK` says which operations reach which points; `RunsWithLock` that the owner is the running thread, because a quantum ends only outside a window.
  For the refinement `AtomicInv` adds where addresses are translated, that between an AMO's load and its store nobody else can have the lock, and that the value it has loaded, or that a reservation stands for, is still in memory (`FreshData`). Then each step of a
  hart, a device or the kernel is one of `AtomicMemory`'s or leaves its state alone.
* *GdbServer*: `run_threads` overwrites the statuses of the harts it stops, so what a hart came out of its run with is `Own`: `orig_status` for those the loop has come to, `status` for the others. `HartFits` relates it to where the runner is and why it stopped, `CheckedFits` says that
  a hart that was told to stop has left its loop before the server goes on, and `Cause` that whoever woke the server really stopped: that is why `stopped` is set when vCont comes to its reply.
* *FE310Plic*: a scan that returns 0 means that nothing is deliverable, proved from clamped priorities (`Announced`). For `NoAssertFails`, `HandlerInv` adds that with one claim at a time whatever is claimed keeps
  `hart_eip` set; it is stated under `~Polls /\ ~Nests`, and the first line of the table above shows the condition is needed.
* *Platform*: a step is one of the PLIC's, one in which several devices trigger at once, or none of its. *DMA*: `OneReport` says that a command is an event, a copy, a pending interrupt or one being served, only one of them, and none when the driver may command again; `CopyInv` that what is
  left of a copy is what is missing from what was wanted (`Finished`). *Pins*: `PinsAgree` follows a change from the pin over the compare, the event and the snapshot to the value; `PinsArmed` the flag that an edge takes over the pending and the served interrupt back.
  *Channels*: `PortsAgree` and `DataChannels` relate the server's map, the sockets and the program's map through connecting, leaving and clearing, `IdsAgree` says that an id means the same pin on both sides while an update is in flight, `OneByte` that of a push over SPI there is one update or one response.
* *FU540Plic*: `Announced` per context, as above, where a hart serves one level; `Worthwhile` says that a raised context finds something to claim. `SoftwareInv` keeps the contexts out of use silent.
* *Clint*: `Watched` bounds the event's time for a set timer by how far its setter ran ahead, `Looked` does so for
  a stale `mtip`; both need `Times`: nobody is more than a quantum ahead. `WritesCover`: what software has written so far is no smaller than the setting it stands for.
* *RealClint*: `IsComing` follows a set timer from the thread that sleeps for it over the notification to the SystemC thread, also while another `pause` waits; `PendingIsDue` is its converse;
  `CancelledIsJoined` and `WriterIsNotAhead` say what a waiting writer knows: the time it compares with is past, so it errs on the late side only for a thread it starts.
* *TrapUnit*: `Nesting` orders the levels of `frames`, `Masked` says that a level whose CSRs hold the only copy of a context takes no
  interrupt; without them a trap could overwrite CSRs in use.
* *PipelineTiming*: the lemmas show that stalls compose (advancing by m and then by n is advancing by m + n) and that a counter with the time added is an absolute time, which a stall does not change; then each
  instruction is one step of `Scoreboard`, and the `failed` of an assertion would be a stall that was too short. Address ranges meet the abstract sets of bytes in `overlaps`.
* *AbstractUART*: `QueueInv` counts for the states where `stop_threads` has run: the extra post on `txfull` makes the count exceed the bytes by
  one, and the thread must see `stop` before it takes a byte that is not there.
* *MemoryController* (`IInv`, `RowInv` and `WakeInv` are at the end of the model's own module): a request is waiting, sent, answered or served (`Stages`), and of two for one row the earlier is never in an earlier stage (`NoOvertaking`). Each stage but the last is a sequence whose members keep an order between any two positions (`QueuesSorted`,
  `AnswersSorted`): the calendar's holds over all of its cycles, because a response is inserted at `tCAS`, the latest cycle that has one, behind all that the cycle has. `Cleaned`: commands that are issued wait for a cleanup of this cycle or the next, which its priority of -10 makes the first event,
  so that none is issued twice or counted. `Refreshes`: a refresh is queued in the pulse that makes it due. It holds for every number of banks, subarrays, rows and requests, all queue models, schedulers, page policies, watermarks and delays.
  `RowsAgree` needs `RowInv` on top of it: the controller forgets the rows of a bank that it closes (`RowsForgotten`), a subarray that is closing or refreshing reports so once (`ClosesOnce`), and one in use is open and has no such report to come (`ArraysAreClosed`), so that a late report closes
  no row that was opened since. The rest is how queues compose: issuing the head, taking issued commands out and appending a request's commands each keep what a queue leads to (`HeadLeads`, `UnissuedLeads`, `CommandsLead`).
  `ControllerIsWoken` needs `WakeInv` on top of it. Between two executions of the controller the calendar only grows (`Grows`), `ScheduleCommandWake` leaves a wake wherever there are commands and `Recheck` a call wherever a transaction can be taken. Only the head of a queue is ever issued,
  so a cleanup empties no queue that was not effectively empty already, and the call was scheduled when it became so. With a queue per subarray the part about wakes is not claimed: a wake there looks only at the queues of subarray 0 (`MemoryController.cpp:1798`), and section 4 shows what that does to `NoOversleep`.
* *RankTiming*: for each rule between two commands some level keeps a window such that the age of the earlier command and what is left of the window together reach what the rule asks for (`ArrayWaits`, `PowerWaits`, `RankWaits`, `RingIsRight`); a tick moves one unit from the
  window to the age. A row that closes by itself keeps the rules through its event (`ClosesInTime`), `BankFits` and `PowerFits` keep the states of the three levels together, and `BusFits` has each burst on the bus over before the windows of either rank admit the next.

### What stays with TLC

* Liveness under fairness, with `ENABLED` behind it: `AccessesGetThrough`, `CollectsTheStopped`, `WaitsEnd`, `FirstIsServed`, `CatchesUp`, `GuestIsServed`, `StopCompletes`, `Drains`, `ResultsArrive`.
* Induction over data, whose theorems take an operator as a parameter: what SLIP's conversions, the rounds of SM3 and SM4, a translation of addresses or a scan of the queues computes (`PacketsArrive`, `DataAreRight`, `MemoryIsKept`). Bags and their cardinality
  are sums of this kind, too.
* `NoOversleep` of `MemoryController`, which is a property of the bounds of its run: it holds for two banks there, but neither for every queue model nor for three banks with a long `tCCD` (section 4): that there always is a wake is proved (`ControllerWakes`), that it comes no later than the first command that can be issued is not true in general. Likewise what `RefreshIsPrompt` says beyond `RefreshesAreQueued`: that a bank with a REFRESH still to issue is closed to the scheduler. Two REFRESHes of a group would
  break that, and whether the second pulse comes before the first was issued depends on how long a command can wait, which is a question of liveness.
* `InstructionsAreRight`, which the run checks exhaustively: a table of encodings, and arithmetic with powers of 2 and products, which the SMT solver does not do for a width that is a variable.

## 6. Assumptions about software

The models restrict guests where the code's behaviour for any guest says nothing about the platform: an AMO or LR addresses
ordinary memory; FE310 handlers claim once per interrupt in `FE310Plic` (not in the proof of `NoLostInterrupt`) and serve what they claim before they complete it; a GPIO client asks once per pin, leaves between requests and with SPI pins only, and the next comes after a push has noticed; FU540 handlers
claim until 0 and each hart uses one level; timers are written with the sequence of CLINT's comment and `mtime` is not written; trap handlers save what they
nest over and leave with their own xRET; xPP is a legal level; a driver raises the UART's transmit threshold only while that interrupt is disabled; a DMA driver waits for its
interrupt; guests under the debugger have no EBREAK of their own; the trace that is migrated ends before fast pages recur as victims; a guest of an accelerator polls as the repository's do and decrypts after it has encrypted; a CAN driver names a buffer and sends at least a byte. `poll`, `read` and `write` of the host succeed and return.
The two UART threads read the plain `bool stop` around opaque calls; it is modelled as atomic.

## 7. What is not modelled in the modelled components

* Trap unit: vector offsets, `xtval`, `mstatus.TW`/`TSR`, illegal xPP. MMU: permission checks are a possible page fault.
* Instructions: NICE's custom functions (the rounds of `Sm3` and `Sm4` as instructions), system calls; rounding, and with it every result of softfloat. Timing: branch predictor and cache are
  switched off in the build (`iss.h:39`).
* UART: the interactive commands of `UART`, write-only mode, host errors, growth of SLIP's buffer. Bytes still queued when the
  simulation stops are dropped by the code, and no property asks for them.
* GPIO: `END_IOF`, which no client sends, `iof_sel`, registers that nothing reads, failures to open sockets. CAN: extended frames received (a FIXME of the code), errors of the socket; SPI: chip select, interrupts.
* GDB: packets that read and write registers and memory (one that changes nothing), thread selection `H`, the parser of libgdb, `k`.
* Memory controller: several ranks and channels, write pausing and cancellation, cached rows, power-down (its call is commented
  out), mux levels, scheduling predicates, energy and endurance. A refresh interval longer than any wait is assumed. A front end submits after the cycle's events ran. `RankTiming` leaves out rows, bursts longer than one, the additive latency `tAL` of `SubArray.cpp` and `StandardRank.cpp` (0 by default, `Params.cpp:136`, and in every configuration of `NVmain/Config`) and data encoders.
* NVmain's top: the list of pending requests (only the DRAM cache fills it), functional accesses, checkpoints, channels of different sizes.
* Event queue: `RemoveEvent`, queues of different frequencies, insertion into the cycle being run.

Of the whole components left out, most are tables, files, sums or glue in which nothing waits for anything: TLC would check assignments. `vp/src/platform/atmi` and `core/common/gdb-mc/libgdb/mpc`, a thermal solver and a parser
library, make up much of the unmapped code. The ones that would repay a model are in the plan.

## 8. Plan

1. `MemoryController`: write pausing with `Prequeue`, cached banks; several ranks, composed with `RankTiming`.
2. NVmain's list of pending requests. The only class that fills it is the DRAM cache, which cannot be instantiated at this commit: its `DRCVariant` names no class of the repository, and `LH_Cache` is absent.
3. GPIO's `END_IOF`, when a client sends it.
4. Proofs: what `AbstractUART` does not lose: the bytes of both queues in their order; what an access to a CSR leaves alone, for every content of the registers (`Csr`).
5. `HartMemory` with the lock of two levels of bus, as the multi-core platforms would need for waiting targets under translation.
