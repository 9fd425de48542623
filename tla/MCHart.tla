-------------------------------- MODULE MCHart --------------------------------
(***************************************************************************)
(* Three things of one hart that share no state, one in each behaviour:    *)
(* its traps, with a machine timer and a supervisor external interrupt,    *)
(* one exception, and the delegations of a kernel in S mode and of         *)
(* handlers in U mode; one instruction: how any halfword and the words of  *)
(* any encoding are decoded, what it does to two operands of 4 bits or to  *)
(* a CSR; and the times of the pipeline.                                   *)
(***************************************************************************)
EXTENDS TrapUnit, PipelineLatencies, Instr

CONSTANTS mti, sei, fault, zero, a0

MCHome == (mti :> M) @@ (sei :> S)
MCRank == (mti :> 0) @@ (sei :> 1)

To(m, s) == (M :> m) @@ (S :> s)
Bits(i, e) == [interrupts |-> i, exceptions |-> e]
MCDelegations ==
    {To(Bits({sei}, {fault}), Bits({}, {})),
     To(Bits({mti, sei}, {fault}), Bits({sei}, {fault}))}

\* A word, one of its bytes, and a half of the next word.
MCRegs == {zero, a0}
Bytes(first, end) == [start |-> first, end |-> end]
MCRanges == {Bytes(0, 4), Bytes(1, 2), Bytes(4, 6)}

MCWidth == 4

Alu == INSTANCE Interpreter
Fpu == INSTANCE Floats
Csr == INSTANCE Csr

VARIABLES kind,                                   \* what the behaviour is about
          input,                                  \* of an instruction
          pending, mult, div, stores, num_total_cycles, failed

timeVars == <<pending, mult, div, stores, num_total_cycles, failed>>

Timing == INSTANCE PipelineTiming

Halfwords == {n \in 0 .. 2^16 - 1 : n % 4 # 3}

\* Every register and every view of one; counters and addresses that are none.
CsrAddresses ==
    Csr!Registers("RV32") \cup Csr!Counters("RV32") \cup Csr!Debug("RV32")
    \cup {Csr!USTATUS, Csr!UIE, Csr!UIP, Csr!FFLAGS, Csr!FRM, Csr!SSTATUS, Csr!SIE, Csr!SIP}
    \cup {\h323, \h33F, \hB03, \hB9F, \hC03, \hC1F, \hC83, \hC9F}
    \cup {\h006, \h107, \h1C0, \h200, \h307, \h345, \hC20, \hF10}

\* On RV64 these stand for other registers (rv64/csr.h:640).
CsrAccesses ==
    {i \in [arch : Archs, addr : CsrAddresses, prv : Levels, op : {"CSRRW", "CSRRS", "CSRRC"},
            imm : BOOLEAN, rd : BOOLEAN, operand : {0, 1, 2, 3}, registers : {1, 3, 7}] :
        i.arch = "RV64" => i.addr \notin {\h3A2, \h3A3}}

\* Operands and registers with every bit, or with every k-th of those they may have; 0 for x0.
Every(k, arch) == {b \in Csr!Bits(arch) : k # 0 /\ b % k = 0}
Filled == [arch \in Archs, k \in {1, 3, 7} |->
    [r \in Csr!Registers(arch) |->
        (Csr!Possible(r, arch) \cap Every(k, arch)) \cup Csr!Fixed(r, arch)]]
HiddenFrom == [l \in Levels, arch \in Archs, k \in {1, 3, 7} |->
    Csr!Hidden(Filled[arch, k], l, arch)]
Clocks == [arch \in Archs |-> [r \in Csr!Clocks |-> Every(2, arch)]]

HartOf(i, regs) ==
    [arch |-> i.arch, prv |-> i.prv, regs |-> regs, now |-> Clocks[i.arch], rd |-> {64}]
InstructionOf(i) ==
    [op |-> i.op, imm |-> i.imm, addr |-> i.addr, rd |-> i.rd, source |-> i.operand # 0,
     operand |-> Every(i.operand, i.arch) \cap (IF i.imm THEN 0 .. 4 ELSE Csr!Bits(i.arch))]

\* Every instruction with any two numbers; and in any state, with any rounding mode.
FloatData ==
    UNION {[hart : {Fpu!Hart("RV64", TRUE, "clean", 0, {})},
            instr : [op : Fpu!Ops, fmt : {fmt}, a : Fpu!Contents(fmt), b : Fpu!Contents(fmt),
                     c : {Fpu!box(3), Fpu!box(19)}, rm : {0}, result : {1}, raises : {{}}]] :
           fmt \in {"S", "D"}}
FloatStates ==
    [hart : {Fpu!Hart(arch, isa, fs, frm, fflags) : arch \in Archs, isa \in BOOLEAN,
                 fs \in {"off", "clean", "dirty"}, frm \in {0, 3, 4, 7}, fflags \in {{}, {"DZ"}}},
     instr : [op : Fpu!Ops, fmt : {"S", "D"}, a : {Fpu!box(1), Fpu!box(Fpu!defaultNaN("S"))},
              b : {Fpu!box(0)}, c : {Fpu!box(0)}, rm : {0, 4, 5, 7}, result : {1},
              raises : {{}, {"NX"}}]]

Inputs ==
    [halfword : Halfwords, arch : Archs]
    \cup [name : DOMAIN EncodingOf("RV32"), arch : Archs]
    \cup [first : Alu!Values(MCWidth), second : Alu!Values(MCWidth)]
    \cup CsrAccesses \cup FloatData \cup FloatStates

\* What the behaviour is not about keeps one of its first values.
NoTraps ==
    /\ prv = M /\ mie = {} /\ ie = [l \in Levels |-> FALSE]
    /\ deleg = CHOOSE d \in Delegations : TRUE
NoTime == num_total_cycles = 0
NoInstruction == input = None

AllInit ==
    /\ Init /\ Timing!Init
    /\ \/ kind = "traps" /\ NoInstruction /\ NoTime
       \/ kind = "timing" /\ NoInstruction /\ NoTraps
       \/ kind = "instruction" /\ input \in Inputs /\ NoTraps /\ NoTime

\* An instruction has no second step, and the pipeline is watched for MaxCycles.
Over == kind = "instruction" \/ num_total_cycles >= MaxCycles

AllNext ==
    /\ UNCHANGED <<kind, input>>
    /\ \/ kind = "traps" /\ Next /\ UNCHANGED timeVars
       \/ kind = "timing" /\ Timing!Next /\ UNCHANGED vars
       \/ Over /\ UNCHANGED <<vars, timeVars>>

AllSpec ==
    /\ AllInit /\ [][AllNext]_<<kind, input, vars, timeVars>>
    /\ WF_vars(kind = "traps" /\ Step)
    /\ WF_vars(kind = "traps" /\ CheckInterrupts)
    /\ WF_vars(kind = "traps" /\ DeltaNotify)
-----------------------------------------------------------------------------
(* The decoder finds every instruction from every word that its mask admits (instr.cpp:1379);
   every halfword becomes the instruction that RISC-V says it stands for, or is illegal;
   the four products and the divisions, which C++ does in other types than the
   registers', are the exact ones, with no trap for 0 and for the overflow; and an access
   to a CSR is right (Csr!AccessIsRight) at every level, for every address and operand. *)
InstructionsAreRight ==
    kind = "instruction" =>
        CASE "halfword" \in DOMAIN input -> CompressedIsRight(input.halfword, input.arch)
          [] "name" \in DOMAIN input -> EncodingIsDecoded(input.name, input.arch)
          [] "first" \in DOMAIN input ->
               /\ Alu!ProductIsExact(input.first, input.second, MCWidth)
               /\ Alu!DivisionIsExact(input.first, input.second, MCWidth)
               /\ \A w \in {MCWidth \div 2, MCWidth} :
                      /\ Alu!SumIsExact(input.first, input.second, w)
                      /\ Alu!ShiftIsExact(input.first, Alu!shamt(input.second, w), w)
               /\ {input.first, input.second} \subseteq Alu!Values(MCWidth \div 2) =>
                      Alu!DivisionIsExact(input.first, input.second, MCWidth \div 2)
          [] "hart" \in DOMAIN input -> Fpu!FloatIsRight(input.hart, input.instr)
          [] OTHER ->
               \E h \in {HartOf(input, Filled[input.arch, input.registers])},
                  hidden \in {HartOf(input, HiddenFrom[input.prv, input.arch, input.registers])},
                  i \in {InstructionOf(input)} : Csr!AccessIsRight(h, hidden, i)

(* PipelineTiming's times, asked only where the pipeline is what runs. *)
KeepsTheTimes ==
    /\ Timing!Abstract!Init
    /\ [][kind = "timing" => Timing!Abstract!Next]_<<timeVars>>
    /\ []~failed
=============================================================================
