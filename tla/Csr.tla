---------------------------------- MODULE Csr ----------------------------------
(***************************************************************************)
(* The control and status registers and the instructions that access them  *)
(* (vp/src/core/rv32/iss.cpp and csr.h with the pipeline's timing, and the *)
(* same files of rv64).  A value is the set of the bits that are 1; a CSR  *)
(* has its address for a name, and some addresses show a part of another's *)
(* register.  What traps do to the registers is in TrapUnit.               *)
(***************************************************************************)
EXTENDS Integers

USTATUS == 0
FFLAGS == 1
FRM == 2
FCSR == 3
UIE == 4
UTVEC == 5
UEPC == \h041
UIP == \h044
SSTATUS == \h100
SEDELEG == \h102
SIDELEG == \h103
SIE == \h104
STVEC == \h105
SCOUNTEREN == \h106
SEPC == \h141
SIP == \h144
SATP == \h180
MSTATUS == \h300
MISA == \h301
MEDELEG == \h302
MIDELEG == \h303
MIE == \h304
MTVEC == \h305
MCOUNTEREN == \h306
MCOUNTINHIBIT == \h320
MEPC == \h341
MIP == \h344
TSELECT == \h7A0
MCYCLE == \hB00
MTIME == \hB01
MCYCLEH == \hB80
MTIMEH == \hB81

PMPCFG == \h3A0 .. \h3A3
Identity == \hF11 .. \hF14            \* MVENDORID, MARCHID, MIMPID, MHARTID

\* The counters at which only user mode is told to look, and their registers.
Low == \hC00 .. \hC02
High == \hC80 .. \hC82
Counters(arch) == IF arch = "RV32" THEN Low \cup High ELSE Low
CounterRegister(addr) == addr - \h100

Bits(arch) == 0 .. IF arch = "RV32" THEN 31 ELSE 63
Top(arch) == IF arch = "RV32" THEN 31 ELSE 63

\* csr_table: the addresses that register_mapping knows, but for those counters.
Registers(arch) ==
    \hB00 .. \hB02 \cup (IF arch = "RV32" THEN \hB80 .. \hB82 ELSE {})
    \cup Identity \cup MSTATUS .. MCOUNTEREN \cup {MCOUNTINHIBIT}
    \cup \h340 .. MIP \cup \h3B0 .. \h3BF \cup PMPCFG
    \cup SEDELEG .. SIDELEG \cup STVEC .. SCOUNTEREN \cup \h140 .. \h143 \cup {SATP}
    \cup {UTVEC} \cup \h040 .. \h043 \cup {FCSR}

\* pmpcfg has two elements on RV64, and the next two are the members that follow it.
Kept(addr, arch) ==
    IF addr \in Counters(arch) THEN CounterRegister(addr)
    ELSE IF arch = "RV64" /\ addr = \h3A2 THEN SEDELEG
    ELSE IF arch = "RV64" /\ addr = \h3A3 THEN SIDELEG
    ELSE addr

\* SWITCH_CASE_MATCH_ANY_HPMCOUNTER: read as 0.
HpmCounters(arch) ==
    \hB03 .. \hB1F \cup \hC03 .. \hC1F \cup \h323 .. \h33F
    \cup IF arch = "RV32" THEN \hB83 .. \hB9F \cup \hC83 .. \hC9F ELSE {}

\* Hardwired on RV32.
Debug(arch) == IF arch = "RV32" THEN \h7A0 .. \h7A3 \cup \h7B0 .. \h7B3 ELSE {}
-----------------------------------------------------------------------------
MIE_MASK == {0, 1, 3, 4, 5, 7, 8, 9, 11}
SIE_MASK == {0, 1, 4, 5, 8, 9}
UIE_MASK == {0, 4, 8}
MIP_WRITE_MASK == SIE_MASK
MIP_READ_MASK == MIE_MASK
SIP_MASK == {0, 1}
UIP_MASK == {0}
MEDELEG_MASK == 0 .. 9 \cup 11 .. 13 \cup {15}
SEDELEG_MASK == 0 .. 8 \cup {12, 13, 15}
MCOUNTEREN_MASK == 0 .. 2
MCOUNTINHIBIT_MASK == {0, 2}
MSTATUS_MASK(arch) == {0, 1, 3, 4, 5, 7, 8} \cup 11 .. 22 \cup {Top(arch)}
\* Mutant: with a bit of MPP.
SstatusWithMpp(arch) == {0, 1, 4, 5, 8} \cup 12 .. 16 \cup {18, 19, Top(arch)}
SSTATUS_MASK(arch) == {0, 1, 4, 5, 8} \cup 13 .. 16 \cup {18, 19, Top(arch)}
USTATUS_MASK == {0, 4}
UXL == {32, 33}
SXL == {34, 35}
SATP_MASK(arch) == IF arch = "RV32" THEN 0 .. 21 \cup {31} ELSE 0 .. 43 \cup 60 .. 63
FCSR_MASK == 0 .. 7

\* The part of a register that is read, and the part that is written.
View(register, reads, writes) == [register |-> register, reads |-> reads, writes |-> writes]
Same(register, mask) == View(register, mask, mask)

ViewAt(addr, arch) ==
    LET all == Bits(arch)
        wide == arch = "RV64"
    IN CASE addr = MSTATUS ->
              View(MSTATUS, MSTATUS_MASK(arch) \cup (IF wide THEN UXL \cup SXL ELSE {}),
                   MSTATUS_MASK(arch))
         [] addr = SSTATUS ->
              View(MSTATUS, SSTATUS_MASK(arch) \cup (IF wide THEN UXL ELSE {}),
                   SSTATUS_MASK(arch))
         [] addr = USTATUS -> Same(MSTATUS, USTATUS_MASK)
         [] addr = MIP -> View(MIP, MIP_READ_MASK, MIP_WRITE_MASK)
         [] addr = SIP -> Same(MIP, SIP_MASK)
         [] addr = UIP -> Same(MIP, UIP_MASK)
         [] addr = MIE -> Same(MIE, MIE_MASK)
         [] addr = SIE -> Same(MIE, SIE_MASK)
         [] addr = UIE -> Same(MIE, UIE_MASK)
         [] addr \in {MTVEC, STVEC, UTVEC} -> View(addr, all, all \ {1})
         [] addr \in {MEPC, SEPC, UEPC} -> View(addr, all, all \ {0})
         [] addr \in {MIDELEG, SIDELEG} -> View(addr, all, MIE_MASK)
         [] addr = MEDELEG -> View(addr, all, MEDELEG_MASK)
         [] addr = SEDELEG -> View(addr, all, SEDELEG_MASK)
         [] addr \in {MCOUNTEREN, SCOUNTEREN} -> View(addr, all, MCOUNTEREN_MASK)
         [] addr = MCOUNTINHIBIT -> View(addr, all, MCOUNTINHIBIT_MASK)
         [] addr = MISA -> View(MISA, all, {})
         [] addr = SATP -> View(SATP, all, SATP_MASK(arch))
         [] addr = FCSR -> Same(FCSR, FCSR_MASK)
         [] addr = FFLAGS -> Same(FCSR, 0 .. 4)
         [] addr = FRM -> Same(FCSR, 5 .. 7)
         [] OTHER -> Same(Kept(addr, arch), all)

\* FRM is the only part that does not keep its place.
Up(addr) == IF addr = FRM THEN 5 ELSE 0
-----------------------------------------------------------------------------
(***************************************************************************)
(* A hart: its interpreter (arch), its level (prv), the registers (regs),  *)
(* what the clocks show (now, for MTIME and MCYCLE), and the destination   *)
(* register.                                                               *)
(***************************************************************************)
LevelOf(addr) == (addr \div 256) % 4
IsReadOnly(addr) == addr \div 1024 = 3
Has(h, register, bit) == bit \in h.regs[register]

\* RV64 looks at no extension.
is_invalid_csr_access(h, addr, write) ==
    \/ write /\ IsReadOnly(addr)
    \/ h.prv < LevelOf(addr)
    \/ /\ h.arch = "RV32"
       /\ \/ LevelOf(addr) = 1 /\ ~Has(h, MISA, 18)
          \/ LevelOf(addr) = 0 /\ ~Has(h, MISA, 20)
          \/ addr \in {FFLAGS, FRM, FCSR} /\ ~Has(h, MISA, 5)

validate_csr_counter_read_access_rights(h, addr) ==
    addr \in \hC00 .. \hC1F \cup (IF h.arch = "RV32" THEN \hC80 .. \hC9F ELSE {}) =>
        /\ h.prv < 3 => Has(h, MCOUNTEREN, addr % 32)
        /\ h.prv = 0 => Has(h, SCOUNTEREN, addr % 32)

IsKnown(h, addr) ==
    \/ addr \in HpmCounters(h.arch) \cup Debug(h.arch)
    \/ ViewAt(addr, h.arch).register \in DOMAIN h.regs

Unmapped(h) == Has(h, MSTATUS, 20)                        \* mstatus.tvm

GetTraps(h, addr) ==
    \/ ~validate_csr_counter_read_access_rights(h, addr)
    \/ addr = SATP /\ Unmapped(h)
    \/ ~IsKnown(h, addr)

Clocks == {MTIME, MTIMEH, MCYCLE, MCYCLEH}

\* Some reads also bring the time, or the cycles, up to date: not those of CYCLE.
RefreshedBy(addr, arch) ==
    Registers(arch) \cap
        CASE addr \in {MTIME, MTIMEH, \hC01, \hC81} -> {MTIME, MTIMEH}
          [] addr \in {MCYCLE, MCYCLEH} -> {MCYCLE, MCYCLEH}
          [] OTHER -> {}

Refreshed(h, addr) ==
    LET clocks == RefreshedBy(addr, h.arch) IN
    IF clocks = {} THEN h
    ELSE [h EXCEPT !.regs = [r \in DOMAIN @ |-> IF r \in clocks THEN h.now[r] ELSE @[r]]]

\* get_csr_value(), where it does not trap.
Value(h, addr) ==
    LET v == ViewAt(addr, h.arch) IN
    CASE addr \in HpmCounters(h.arch) -> {}
      [] addr \in Debug(h.arch) -> IF addr = TSELECT THEN {0} ELSE {}
      [] OTHER -> {b - Up(addr) : b \in Refreshed(h, addr).regs[v.register] \cap v.reads}

\* Mutant: no case for FFLAGS and FRM, which register_mapping does not know.
SetTrapsForFlags(h, addr) ==
    (addr = SATP /\ Unmapped(h)) \/ ~IsKnown(h, addr) \/ addr \in {FFLAGS, FRM}
SetTraps(h, addr) == (addr = SATP /\ Unmapped(h)) \/ ~IsKnown(h, addr)

\* satp.mode on RV64: bare, SV39 or SV48, or it stays what it was.
MODE == 60 .. 63
IsMode(value) == value \cap MODE \in {{}, {63}, {60, 63}}
\* Mutant: any mode.
WithAnyMode(old, value) == value
WithLegalMode(old, value) ==
    IF IsMode(value) THEN value ELSE (value \ MODE) \cup (old \cap MODE)

\* set_csr_value(), where it does not trap.
Set(h, addr, value) ==
    LET v == ViewAt(addr, h.arch)
        old == h.regs[v.register]
        new == (old \ v.writes) \cup ({b + Up(addr) : b \in value} \cap v.writes)
    IN  IF addr \in HpmCounters(h.arch) \cup Debug(h.arch) THEN h
        ELSE [h EXCEPT !.regs[v.register] =
                  IF addr = SATP /\ h.arch = "RV64" THEN WithLegalMode(old, new) ELSE new]

(***************************************************************************)
(* An instruction: CSRRW, CSRRS or CSRRC (op), with rs1 or an immediate as *)
(* its operand (imm); it has none with x0, or the immediate 0 (source),    *)
(* and no destination with x0 (rd).                                        *)
(***************************************************************************)
Operated(op, value, operand) ==
    CASE op = "CSRRW" -> operand
      [] op = "CSRRS" -> value \cup operand
      [] op = "CSRRC" -> value \ operand

\* On RV32 the immediate forms ask for a write that they may not do.
ClaimsWrite(h, i) == i.op = "CSRRW" \/ i.source \/ (i.imm /\ h.arch = "RV32")

Trapped(h) == [hart |-> h, trapped |-> TRUE]
Done(h) == [hart |-> h, trapped |-> FALSE]

Execute(h, i) ==
    LET reads == i.op # "CSRRW" \/ i.rd
        Read(value) == [Refreshed(h, i.addr) EXCEPT !.rd = IF i.rd THEN value ELSE @]
        Write(g, value) ==
            IF i.op # "CSRRW" /\ ~i.source THEN Done(g)
            ELSE IF SetTraps(g, i.addr) THEN Trapped(g)
            ELSE Done(Set(g, i.addr, Operated(i.op, value, i.operand)))
    IN  CASE is_invalid_csr_access(h, i.addr, ClaimsWrite(h, i)) -> Trapped(h)
          [] reads /\ GetTraps(h, i.addr) -> Trapped(h)
          [] reads -> Write(Read(Value(h, i.addr)), Value(h, i.addr))
          [] OTHER -> Write(h, {})
-----------------------------------------------------------------------------
(***************************************************************************)
(* What RISC-V says of the registers: the level a bit belongs to, and the  *)
(* bits that may be 1.                                                     *)
(***************************************************************************)
Owner(register, bit, arch) ==
    CASE register = MSTATUS -> IF bit \in {0, 4} THEN 0
                               ELSE IF bit \in {1, 5, 8, 13, 14, 15, 16, 18, 19, Top(arch)} \cup UXL
                               THEN 1 ELSE 3
      [] register \in {MIE, MIP} -> bit % 4
      [] OTHER -> LevelOf(register)

Extensions(arch) == {0, 2, 5, 8, 12, 13, 18, 20} \cup IF arch = "RV64" THEN {3} ELSE {}
Possible(register, arch) ==
    CASE register = MSTATUS -> {0, 1, 3, 4, 5, 7, 8} \cup 11 .. 22 \cup {Top(arch)}
                               \cup IF arch = "RV64" THEN {33, 35} ELSE {}
      [] register \in {MIE, MIP, MIDELEG, SIDELEG} -> {0, 1, 3, 4, 5, 7, 8, 9, 11}
      [] register = MEDELEG -> 0 .. 15 \ {10, 14}
      [] register = SEDELEG -> 0 .. 15 \ {9, 10, 11, 14}
      [] register \in {MCOUNTEREN, SCOUNTEREN} -> {0, 1, 2}
      [] register = MCOUNTINHIBIT -> {0, 2}
      [] register \in {MTVEC, STVEC, UTVEC} -> Bits(arch) \ {1}
      [] register \in {MEPC, SEPC, UEPC} -> Bits(arch) \ {0}
      [] register = FCSR -> 0 .. 7
      [] register = SATP /\ arch = "RV32" -> 0 .. 21 \cup {31}
      [] register = SATP /\ arch = "RV64" -> 0 .. 43 \cup {60, 63}
      [] register \in Identity -> {}
      [] register = MISA -> Extensions(arch) \cup {Top(arch) - (IF arch = "RV32" THEN 1 ELSE 0)}
      [] OTHER -> Bits(arch)

\* The bits that are always 1: the extensions and the widths.
Fixed(register, arch) ==
    CASE register = MISA -> Possible(MISA, arch)
      [] register = MSTATUS /\ arch = "RV64" -> {33, 35}
      [] OTHER -> {}

IsLegal(h, r) ==
    /\ Fixed(r, h.arch) \subseteq h.regs[r] /\ h.regs[r] \subseteq Possible(r, h.arch)
    /\ r = SATP /\ h.arch = "RV64" => IsMode(h.regs[r])

\* The register that an address stands for.
Meant(addr, arch) ==
    CASE addr \in Counters(arch) -> CounterRegister(addr)
      [] addr \in {SSTATUS, USTATUS} -> MSTATUS
      [] addr \in {SIE, UIE} -> MIE
      [] addr \in {SIP, UIP} -> MIP
      [] addr \in {FFLAGS, FRM} -> FCSR
      [] OTHER -> addr

Differing(h, g) == {r \in DOMAIN h.regs : h.regs[r] # g.regs[r]}
Differences(a, b) == (a \ b) \cup (b \ a)

\* The registers as a level sees them: what belongs to others is 0, but for the counters
\* and for what decides on access.
Hidden(regs, prv, arch) ==
    LET kept == {MISA, MCOUNTEREN, SCOUNTEREN} \cup {CounterRegister(c) : c \in Counters(arch)}
    IN  [r \in DOMAIN regs |->
            IF r \in kept THEN regs[r]
            ELSE {b \in regs[r] : Owner(r, b, arch) <= prv \/ (r = MSTATUS /\ b = 20)}]
-----------------------------------------------------------------------------
\* In each: from h an instruction i leads to the result r.

\* An instruction that traps has done nothing.
IsAtomic(h, r) == r.trapped => r.hart = h

\* It changes the register it names and no other, and there only what belongs to the
\* hart's level or one below; what is legal stays so.
ChangesItsOwn(h, i, r) ==
    \A c \in Differing(h, r.hart) \ RefreshedBy(i.addr, h.arch) :
        /\ c = Meant(i.addr, h.arch)
        /\ \A b \in Differences(h.regs[c], r.hart.regs[c]) : Owner(c, b, h.arch) <= h.prv
        /\ IsLegal(h, c) /\ IsLegal(r.hart, c)

\* It reads nothing that belongs to a higher level.
ReadsItsOwn(hidden, i, r) == Execute(hidden, i).hart.rd = r.hart.rd

\* What it has read can be written back, and everything is as before.
WriteBack(i, value) ==
    [op |-> "CSRRW", imm |-> FALSE, addr |-> i.addr, rd |-> FALSE, source |-> TRUE,
     operand |-> value]
CanBeUndone(h, i, r) ==
    ~r.trapped /\ i.rd /\ ~IsReadOnly(i.addr) =>
        \E undone \in {Execute(r.hart, WriteBack(i, r.hart.rd))} :
            ~undone.trapped /\ undone.hart.regs = Refreshed(h, i.addr).regs

\* `hidden' is the same hart with Hidden registers.
AccessIsRight(h, hidden, i) ==
    \E r \in {Execute(h, i)} :
        /\ IsAtomic(h, r) /\ ChangesItsOwn(h, i, r)
        /\ ReadsItsOwn(hidden, i, r) /\ CanBeUndone(h, i, r)
=============================================================================
