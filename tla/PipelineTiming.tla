--------------------------- MODULE PipelineTiming ---------------------------
(***************************************************************************)
(* The timing model of the HiFive1 pipeline (vp/src/core/rv32/timing.h,    *)
(* struct HiFive1PipelineTiming) as the instructions of iss.cpp use it:    *)
(* counters that every stall and the end of every instruction advance.     *)
(* A step is an instruction, with the registers that it reads and writes.  *)
(***************************************************************************)
EXTENDS PipelineLatencies

\* The assertions of the model have `failed' when an operation is to be recorded for
\* a register, or by a unit, that has not finished its last one.
VARIABLES pending,           \* pending_register_latencies, 0 where there is none
          mult, div,         \* the latencies of the units, 0 where none is acquired
          stores,            \* pending_store_reservations
          num_total_cycles,
          failed

vars == <<pending, mult, div, stores, num_total_cycles, failed>>

Init ==
    /\ pending = [r \in Regs |-> 0]
    /\ mult = 0 /\ div = 0
    /\ stores = {}
    /\ num_total_cycles \in FirstCycles
    /\ failed = FALSE

\* The model between two calls of one instruction.
Model == [pending |-> pending, mult |-> mult, div |-> div, stores |-> stores,
          cycles |-> num_total_cycles, failed |-> failed]
-----------------------------------------------------------------------------
Less(latency, n) == IF latency > n THEN latency - n ELSE 0

advance(p, n) ==
    [pending |-> [r \in Regs |-> Less(p.pending[r], n)],
     mult |-> Less(p.mult, n),
     div |-> Less(p.div, n),
     stores |-> {[range |-> s.range, latency |-> s.latency - n] :
                    s \in {t \in p.stores : t.latency > n}},
     cycles |-> p.cycles + n,
     failed |-> p.failed]

stall(p, n) == advance(p, n)

\* Mutant: the units go on while a register is waited for.
StallsRegisterOnly(p, r) ==
    [p EXCEPT !.pending[r] = 0, !.cycles = @ + p.pending[r]]

access_register(p, r) == IF p.pending[r] > 0 THEN stall(p, p.pending[r]) ELSE p

add_result_latency(p, r, latency) ==
    [p EXCEPT !.pending[r] = latency, !.failed = @ \/ p.pending[r] > 0]

do_mult(p, rd) ==
    LET q == IF p.mult > 0 THEN stall(p, p.mult) ELSE p
    IN  add_result_latency([q EXCEPT !.mult = MultLatency], rd, MultLatency + 1)

do_div(p, rd, latency) ==
    LET q == IF p.div > 0 THEN stall(p, p.div) ELSE p
    IN  add_result_latency([q EXCEPT !.div = latency], rd, latency)

do_csr(p, rd) == add_result_latency(p, rd, CsrLatency)

reserve_store(p, range) ==
    [p EXCEPT !.stores = @ \cup {[range |-> range, latency |-> StoreLatency + 1]}]

\* Mutant: only an access that starts in the stored bytes.
OverlapsAtStart(a, b) == a.start <= b.start /\ b.start < a.end

overlaps(a, b) == IF b.start < a.start THEN b.end > a.start ELSE a.end > b.start

do_load(p, range, rd) ==
    LET hit == \E s \in p.stores : overlaps(s.range, range)
        size == range.end - range.start
        latency == IF size < 4 THEN 3 ELSE 2
    IN  add_result_latency(IF hit THEN stall(p, 5) ELSE p, rd,
                           latency + IF hit /\ size < 4 THEN 2 ELSE 0)
-----------------------------------------------------------------------------
\* read(rs1), read(rs2), and write(rd) once the value is there.
Read(rs1, rs2) == access_register(access_register(Model, rs1), rs2)
ReadAndWrite(rs1, rs2, rd) == access_register(Read(rs1, rs2), rd)

\* performance_and_sync_update ends every instruction.
Ends(p) ==
    LET q == advance(p, 1)
    IN  /\ num_total_cycles < MaxCycles
        /\ pending' = q.pending
        /\ mult' = q.mult /\ div' = q.div
        /\ stores' = q.stores
        /\ num_total_cycles' = q.cycles
        /\ failed' = q.failed

\* One that uses no register through read and write (JALR, whose rs1 it takes from
\* regs, if rd is not written, the atomics, floating point), or ends in a trap.
Untimed == Ends(Model)
\* A branch, LUI, JAL and JALR, arithmetic, SC, each with the registers it accesses.
Arithmetic(rs1, rs2, rd) == Ends(ReadAndWrite(rs1, rs2, rd))
Mult(rs1, rs2, rd) == Ends(do_mult(ReadAndWrite(rs1, rs2, rd), rd))
Div(rs1, rs2, rd) ==
    \E latency \in DivLatencies : Ends(do_div(ReadAndWrite(rs1, rs2, rd), rd, latency))
Csr(rs1, rd) ==
    IF rd = Zero THEN Ends(Read(rs1, rs1)) ELSE Ends(do_csr(ReadAndWrite(rs1, rs1, rd), rd))
Load(rs1, rd, range) == Ends(do_load(ReadAndWrite(rs1, rs1, rd), range, rd))
Store(rs1, rs2, range) == Ends(reserve_store(Read(rs1, rs2), range))

Next ==
    \/ Untimed
    \/ \E rs1, rs2, rd \in Regs :
          Arithmetic(rs1, rs2, rd) \/ Mult(rs1, rs2, rd) \/ Div(rs1, rs2, rd)
    \/ \E rs1, rd \in Regs : Csr(rs1, rd)
    \/ \E rs1, rs2 \in Regs, range \in Ranges : Load(rs1, rs2, range) \/ Store(rs1, rs2, range)

Spec == Init /\ [][Next]_vars
-----------------------------------------------------------------------------
\* The counters as absolute times.
Time(latency) == IF latency > 0 THEN num_total_cycles + latency ELSE 0

Abstract == INSTANCE Scoreboard WITH
    now <- num_total_cycles,
    ready <- [r \in Regs |-> Time(pending[r])],
    multFree <- Time(mult),
    divFree <- Time(div),
    stored <- {[range |-> s.range, until |-> Time(s.latency)] : s \in stores}

(* The counters, which a stall for one operation advances for all the others, give
   every instruction the time that a scoreboard of absolute times gives it; and no
   assertion of the timing model fails: no register or unit gets a second operation
   before its first is over, whatever instructions follow each other. *)
KeepsTheTimes == Abstract!Spec /\ []~failed
=============================================================================
