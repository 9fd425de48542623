-------------------------------- MODULE Instr --------------------------------
(***************************************************************************)
(* Compressed instructions (vp/src/core/common/instr.cpp, instr.h): how a  *)
(* halfword, a number here, is decoded and expanded into a word of 32      *)
(* bits, which is decoded in its turn.                                     *)
(***************************************************************************)
EXTENDS Encoding, FiniteSetsExt

Slice(n, hi, lo) == (n \div 2^lo) % 2^(hi - lo + 1)     \* BIT_SLICE
Bit(n, b) == Slice(n, b, b)                             \* BIT_SINGLE_P1
\* EXTRACT_SIGN_BIT: all bits from `to' on are the bit b.
Sign(n, b, to) == -(2^to) * Bit(n, b)

c_opcode(n) == Slice(n, 15, 13)
c_rd(n) == Slice(n, 11, 7)
c_rs2(n) == Slice(n, 6, 2)
c_rd_small(n) == Slice(n, 9, 7) + 8
c_rs2_small(n) == Slice(n, 4, 2) + 8
c_imm(n) == Slice(n, 6, 2) + Sign(n, 12, 5)
c_uimm(n) == Slice(n, 6, 2) + Bit(n, 12) * 2^5

C_ADDI4SPN_NZUIMM(n) ==
    Slice(n, 12, 11) * 2^4 + Slice(n, 10, 7) * 2^6 + Bit(n, 6) * 2^2 + Bit(n, 5) * 2^3
C_LW_UIMM(n) == Slice(n, 12, 10) * 2^3 + Bit(n, 6) * 2^2 + Bit(n, 5) * 2^6
C_LD_UIMM(n) == Slice(n, 12, 10) * 2^3 + Slice(n, 6, 5) * 2^6
\* Mutant: bits 6 and 7 of the offset exchanged.
JalExchanged(n) ==
    Sign(n, 12, 11) + Bit(n, 11) * 2^4 + Slice(n, 10, 9) * 2^8 + Bit(n, 8) * 2^10
    + Bit(n, 7) * 2^7 + Bit(n, 6) * 2^6 + Slice(n, 5, 3) * 2 + Bit(n, 2) * 2^5
C_JAL_IMM(n) ==
    Sign(n, 12, 11) + Bit(n, 11) * 2^4 + Slice(n, 10, 9) * 2^8 + Bit(n, 8) * 2^10
    + Bit(n, 7) * 2^6 + Bit(n, 6) * 2^7 + Slice(n, 5, 3) * 2 + Bit(n, 2) * 2^5
C_ADDI16SP_NZIMM(n) ==
    Sign(n, 12, 9) + Bit(n, 6) * 2^4 + Bit(n, 5) * 2^6 + Slice(n, 4, 3) * 2^7 + Bit(n, 2) * 2^5
C_LUI_NZIMM(n) == Sign(n, 12, 17) + Slice(n, 6, 2) * 2^12
C_BRANCH_IMM(n) ==
    Sign(n, 12, 8) + Slice(n, 11, 10) * 2^3 + Slice(n, 6, 5) * 2^6 + Slice(n, 4, 3) * 2
    + Bit(n, 2) * 2^5
C_LWSP_UIMM(n) == Bit(n, 12) * 2^5 + Slice(n, 6, 4) * 2^2 + Slice(n, 3, 2) * 2^6
C_SWSP_UIMM(n) == Slice(n, 12, 9) * 2^2 + Slice(n, 8, 7) * 2^6
C_LDSP_UIMM(n) == Bit(n, 12) * 2^5 + Slice(n, 6, 5) * 2^3 + Slice(n, 4, 2) * 2^6
C_SDSP_UIMM(n) == Slice(n, 12, 10) * 2^3 + Slice(n, 9, 7) * 2^6
-----------------------------------------------------------------------------
Quadrant0(n, arch) ==
    << IF n = 0 THEN Undef ELSE "C_ADDI4SPN", "C_FLD", "C_LW",
       IF arch = "RV32" THEN "C_FLW" ELSE "C_LD", Undef, "C_FSD", "C_SW",
       IF arch = "RV32" THEN "C_FSW" ELSE "C_SD" >>[c_opcode(n) + 1]

Arithmetic(n) ==
    IF Slice(n, 11, 10) # 3 THEN << "C_SRLI", "C_SRAI", "C_ANDI" >>[Slice(n, 11, 10) + 1]
    ELSE IF Bit(n, 12) = 1 THEN << "C_SUBW", "C_ADDW", Undef, Undef >>[Slice(n, 6, 5) + 1]
    ELSE << "C_SUB", "C_XOR", "C_OR", "C_AND" >>[Slice(n, 6, 5) + 1]

Quadrant1(n, arch) ==
    << IF n = 1 THEN "C_NOP" ELSE "C_ADDI", IF arch = "RV32" THEN "C_JAL" ELSE "C_ADDIW", "C_LI",
       IF c_rd(n) = 2 THEN "C_ADDI16SP" ELSE "C_LUI", Arithmetic(n), "C_J", "C_BEQZ",
       "C_BNEZ" >>[c_opcode(n) + 1]

Registers(n) ==
    IF Bit(n, 12) = 0 THEN (IF c_rs2(n) # 0 THEN "C_MV" ELSE "C_JR")
    ELSE IF c_rd(n) = 0 THEN "C_EBREAK"
    ELSE IF c_rs2(n) # 0 THEN "C_ADD" ELSE "C_JALR"

Quadrant2(n, arch) ==
    << "C_SLLI", "C_FLDSP", "C_LWSP", IF arch = "RV32" THEN "C_FLWSP" ELSE "C_LDSP",
       Registers(n), "C_FSDSP", "C_SWSP",
       IF arch = "RV32" THEN "C_FSWSP" ELSE "C_SDSP" >>[c_opcode(n) + 1]

\* C_Illegal and C_Reserved are both expanded to UNDEF.
decode_compressed(n, arch) ==
    << Quadrant0(n, arch), Quadrant1(n, arch), Quadrant2(n, arch) >>[Slice(n, 1, 0) + 1]
-----------------------------------------------------------------------------
\* InstructionFactory: the opcodes and functs of its instructions, by format.
RType(opcode, f3, f7, rd, rs1, rs2) == Word(opcode, rd, f3, rs1, rs2, f7)
IType(opcode, f3, rd, rs1, imm) == Word(opcode, rd, f3, rs1, Slice(imm, 4, 0), Slice(imm, 11, 5))
SType(opcode, f3, rs1, rs2, imm) == Word(opcode, Slice(imm, 4, 0), f3, rs1, rs2, Slice(imm, 11, 5))
Shift(f3, f7, rd, rs1, shamt) == Word(19, rd, f3, rs1, Slice(shamt, 4, 0), f7 + Bit(shamt, 5))
Branch(f3, rs1, imm) ==
    Word(99, Slice(imm, 4, 1) * 2 + Bit(imm, 11), f3, rs1, 0, Bit(imm, 12) * 64 + Slice(imm, 10, 5))
Lui(rd, imm) ==
    Word(55, rd, Slice(imm, 14, 12), Slice(imm, 19, 15), Slice(imm, 24, 20), Slice(imm, 31, 25))
Jal(rd, imm) ==
    Word(111, rd, Slice(imm, 14, 12), Slice(imm, 19, 15),
         Slice(imm, 4, 1) * 2 + Bit(imm, 11), Bit(imm, 20) * 64 + Slice(imm, 10, 5))

Is(op, word) == [op |-> op, word |-> word]
Nothing == Is(Undef, Word(0, 0, 0, 0, 0, 0))
Unless(reserved, is) == IF reserved THEN Nothing ELSE is

expand_compressed(n, c_op, arch) ==
    LET rd == c_rd(n)  rs2 == c_rs2(n)  rds == c_rd_small(n)  rs2s == c_rs2_small(n)
        IsTooLong == arch = "RV32" /\ c_uimm(n) > 31
    IN CASE c_op = Undef -> Nothing
         [] c_op = "C_NOP" -> Is("ADD", RType(51, 0, 0, 0, 0, 0))
         [] c_op = "C_ADD" -> Is("ADD", RType(51, 0, 0, rd, rd, rs2))
         [] c_op = "C_MV" -> Is("ADD", RType(51, 0, 0, rd, 0, rs2))
         [] c_op = "C_AND" -> Is("AND", RType(51, 7, 0, rds, rds, rs2s))
         [] c_op = "C_OR" -> Is("OR", RType(51, 6, 0, rds, rds, rs2s))
         [] c_op = "C_XOR" -> Is("XOR", RType(51, 4, 0, rds, rds, rs2s))
         [] c_op = "C_SUB" -> Is("SUB", RType(51, 0, 32, rds, rds, rs2s))
         [] c_op = "C_ADDW" -> Is("ADDW", RType(59, 0, 0, rds, rds, rs2s))
         [] c_op = "C_SUBW" -> Is("SUBW", RType(59, 0, 32, rds, rds, rs2s))
         [] c_op = "C_LW" -> Is("LW", IType(3, 2, rs2s, rds, C_LW_UIMM(n)))
         [] c_op = "C_LD" -> Is("LD", IType(3, 3, rs2s, rds, C_LD_UIMM(n)))
         [] c_op = "C_FLW" -> Is("FLW", IType(7, 2, rs2s, rds, C_LW_UIMM(n)))
         [] c_op = "C_FLD" -> Is("FLD", IType(7, 3, rs2s, rds, C_LD_UIMM(n)))
         [] c_op = "C_SW" -> Is("SW", SType(35, 2, rds, rs2s, C_LW_UIMM(n)))
         [] c_op = "C_SD" -> Is("SD", SType(35, 3, rds, rs2s, C_LD_UIMM(n)))
         [] c_op = "C_FSW" -> Is("FSW", SType(39, 2, rds, rs2s, C_LW_UIMM(n)))
         [] c_op = "C_FSD" -> Is("FSD", SType(39, 3, rds, rs2s, C_LD_UIMM(n)))
         [] c_op = "C_ADDI4SPN" ->
              Unless(C_ADDI4SPN_NZUIMM(n) = 0, Is("ADDI", IType(19, 0, rs2s, 2, C_ADDI4SPN_NZUIMM(n))))
         [] c_op = "C_ADDI" -> Is("ADDI", IType(19, 0, rd, rd, c_imm(n)))
         [] c_op = "C_JAL" -> Is("JAL", Jal(1, C_JAL_IMM(n)))
         \* the word is that of ADDI
         [] c_op = "C_ADDIW" -> Unless(rd = 0, Is("ADDIW", IType(19, 0, rd, rd, c_imm(n))))
         [] c_op = "C_LI" -> Is("ADDI", IType(19, 0, rd, 0, c_imm(n)))
         [] c_op = "C_ADDI16SP" ->
              Unless(C_ADDI16SP_NZIMM(n) = 0, Is("ADDI", IType(19, 0, 2, 2, C_ADDI16SP_NZIMM(n))))
         [] c_op = "C_LUI" -> Unless(C_LUI_NZIMM(n) = 0, Is("LUI", Lui(rd, C_LUI_NZIMM(n))))
         [] c_op = "C_SLLI" -> Unless(IsTooLong, Is("SLLI", Shift(1, 0, rd, rd, c_uimm(n))))
         [] c_op = "C_SRLI" -> Unless(IsTooLong, Is("SRLI", Shift(5, 0, rds, rds, c_uimm(n))))
         [] c_op = "C_SRAI" -> Unless(IsTooLong, Is("SRAI", Shift(5, 32, rds, rds, c_uimm(n))))
         [] c_op = "C_ANDI" -> Is("ANDI", IType(19, 7, rds, rds, c_imm(n)))
         [] c_op = "C_J" -> Is("JAL", Jal(0, C_JAL_IMM(n)))
         [] c_op = "C_BEQZ" -> Is("BEQ", Branch(0, rds, C_BRANCH_IMM(n)))
         [] c_op = "C_BNEZ" -> Is("BNE", Branch(1, rds, C_BRANCH_IMM(n)))
         [] c_op = "C_LWSP" -> Unless(rd = 0, Is("LW", IType(3, 2, rd, 2, C_LWSP_UIMM(n))))
         [] c_op = "C_LDSP" -> Unless(rd = 0, Is("LD", IType(3, 3, rd, 2, C_LDSP_UIMM(n))))
         [] c_op = "C_FLWSP" -> Is("FLW", IType(7, 2, rd, 2, C_LWSP_UIMM(n)))
         [] c_op = "C_FLDSP" -> Is("FLD", IType(7, 3, rd, 2, C_LDSP_UIMM(n)))
         [] c_op = "C_SWSP" -> Is("SW", SType(35, 2, 2, rs2, C_SWSP_UIMM(n)))
         [] c_op = "C_SDSP" -> Is("SD", SType(35, 3, 2, rs2, C_SDSP_UIMM(n)))
         [] c_op = "C_FSWSP" -> Is("FSW", SType(39, 2, 2, rs2, C_SWSP_UIMM(n)))
         [] c_op = "C_FSDSP" -> Is("FSD", SType(39, 3, 2, rs2, C_SDSP_UIMM(n)))
         [] c_op = "C_EBREAK" -> Is("EBREAK", Word(115, 0, 0, 0, 1, 0))
         [] c_op = "C_JR" -> Unless(rd = 0, Is("JALR", IType(103, 0, 0, rd, 0)))
         [] c_op = "C_JALR" -> Is("JALR", IType(103, 0, 1, rd, 0))

decode_and_expand_compressed(n, arch) == expand_compressed(n, decode_compressed(n, arch), arch)
-----------------------------------------------------------------------------
\* The immediates of a word, and its shift amount.
Signed(f7) == IF f7 >= 64 THEN f7 - 128 ELSE f7
I_imm(w) == Signed(w.funct7) * 2^5 + w.rs2
S_imm(w) == Signed(w.funct7) * 2^5 + w.rd
B_imm(w) ==
    Sign(w.funct7, 6, 12) + Bit(w.rd, 0) * 2^11 + Slice(w.funct7, 5, 0) * 2^5 + Slice(w.rd, 4, 1) * 2
U_imm(w) == Signed(w.funct7) * 2^25 + w.rs2 * 2^20 + w.rs1 * 2^15 + w.funct3 * 2^12
J_imm(w) ==
    Sign(w.funct7, 6, 20) + w.rs1 * 2^15 + w.funct3 * 2^12 + Bit(w.rs2, 0) * 2^11
    + Slice(w.funct7, 5, 0) * 2^5 + Slice(w.rs2, 4, 1) * 2
shamt(w) == Bit(w.funct7, 0) * 2^5 + w.rs2

\* iss.cpp of RV32 raises an illegal instruction for these, after the decoding.
OnlyRV64 == {"LD", "LWU", "SD", "ADDIW", "ADDW", "SUBW", "SLLW", "SRLW", "SRAW",
             "MULW", "DIVW", "DIVUW", "REMW", "REMUW"}
IsIllegal(op, arch) == op = Undef \/ (arch = "RV32" /\ op \in OnlyRV64)
-----------------------------------------------------------------------------
(***************************************************************************)
(* What RISC-V says of the compressed formats: the bit of the immediate    *)
(* that each of the bits 12 .. 2 of the halfword holds, and Else where it  *)
(* holds something else.                                                   *)
(***************************************************************************)
Else == -1
Layout == [
    CI       |-> << 5, Else, Else, Else, Else, Else, 4, 3, 2, 1, 0 >>,
    Upper    |-> << 17, Else, Else, Else, Else, Else, 16, 15, 14, 13, 12 >>,
    Sp16     |-> << 9, Else, Else, Else, Else, Else, 4, 6, 8, 7, 5 >>,
    Sp4      |-> << 5, 4, 9, 8, 7, 6, 2, 3, Else, Else, Else >>,
    LoadSp4  |-> << 5, Else, Else, Else, Else, Else, 4, 3, 2, 7, 6 >>,
    LoadSp8  |-> << 5, Else, Else, Else, Else, Else, 4, 3, 8, 7, 6 >>,
    StoreSp4 |-> << 5, 4, 3, 2, 7, 6, Else, Else, Else, Else, Else >>,
    StoreSp8 |-> << 5, 4, 3, 8, 7, 6, Else, Else, Else, Else, Else >>,
    Access4  |-> << 5, 4, 3, Else, Else, Else, 2, 6, Else, Else, Else >>,
    Access8  |-> << 5, 4, 3, Else, Else, Else, 7, 6, Else, Else, Else >>,
    CB       |-> << 8, 4, 3, Else, Else, Else, 7, 6, 2, 1, 5 >>,
    CJ       |-> << 11, 4, 9, 8, 10, 6, 7, 3, 2, 1, 5 >>]

\* Bit 12 is the sign where the immediate has one.
Immediate(n, layout, signed) ==
    LET Weight(i) == IF i = 1 /\ signed THEN -(2^Layout[layout][i]) ELSE 2^Layout[layout][i]
    IN  MapThenSumSet(LAMBDA i : Bit(n, 13 - i) * Weight(i),
                      {i \in 1 .. 11 : Layout[layout][i] # Else})

\* An instruction and its operands, 0 for one that it does not have.
Means(op, rd, rs1, rs2, imm) == [op |-> op, rd |-> rd, rs1 |-> rs1, rs2 |-> rs2, imm |-> imm]
Reserved == Means(Undef, 0, 0, 0, 0)

\* The registers that a halfword names: any, or one of x8 .. x15.
Full(n, lo) == Slice(n, lo + 4, lo)
Small(n, lo) == 8 + Slice(n, lo + 2, lo)

Load(op, n, layout) == Means(op, Small(n, 2), Small(n, 7), 0, Immediate(n, layout, FALSE))
Store(op, n, layout) == Means(op, 0, Small(n, 7), Small(n, 2), Immediate(n, layout, FALSE))
LoadSp(op, n, layout) == Means(op, Full(n, 7), 2, 0, Immediate(n, layout, FALSE))
StoreSp(op, n, layout) == Means(op, 0, 2, Full(n, 2), Immediate(n, layout, FALSE))
Update(op, n) == Means(op, Small(n, 7), Small(n, 7), Small(n, 2), 0)
UnlessZero(m) == IF m.imm = 0 THEN Reserved ELSE m
WithRegister(n, m) == IF Full(n, 7) = 0 THEN Reserved ELSE m

Meaning0(n, rv32) ==
    << UnlessZero(Means("ADDI", Small(n, 2), 2, 0, Immediate(n, "Sp4", FALSE))),
       Load("FLD", n, "Access8"), Load("LW", n, "Access4"),
       IF rv32 THEN Load("FLW", n, "Access4") ELSE Load("LD", n, "Access8"),
       Reserved,
       Store("FSD", n, "Access8"), Store("SW", n, "Access4"),
       IF rv32 THEN Store("FSW", n, "Access4") ELSE Store("SD", n, "Access8") >>

\* A shift by 32 or more is reserved on RV32.
MeaningOfShift(op, n, rd, rv32) ==
    IF rv32 /\ Bit(n, 12) = 1 THEN Reserved ELSE Means(op, rd, rd, 0, Immediate(n, "CI", FALSE))

MeaningOfArithmetic(n, rv32) ==
    LET rd == Small(n, 7) IN
    CASE Slice(n, 11, 10) = 0 -> MeaningOfShift("SRLI", n, rd, rv32)
      [] Slice(n, 11, 10) = 1 -> MeaningOfShift("SRAI", n, rd, rv32)
      [] Slice(n, 11, 10) = 2 -> Means("ANDI", rd, rd, 0, Immediate(n, "CI", TRUE))
      [] Slice(n, 12, 10) = 3 -> Update(<< "SUB", "XOR", "OR", "AND" >>[Slice(n, 6, 5) + 1], n)
      [] Slice(n, 12, 10) = 7 /\ ~rv32 /\ Slice(n, 6, 5) < 2 ->
           Update(<< "SUBW", "ADDW" >>[Slice(n, 6, 5) + 1], n)
      [] OTHER -> Reserved

Meaning1(n, rv32) ==
    LET rd == Full(n, 7) IN
    << Means("ADDI", rd, rd, 0, Immediate(n, "CI", TRUE)),
       IF rv32 THEN Means("JAL", 1, 0, 0, Immediate(n, "CJ", TRUE))
       ELSE WithRegister(n, Means("ADDIW", rd, rd, 0, Immediate(n, "CI", TRUE))),
       Means("ADDI", rd, 0, 0, Immediate(n, "CI", TRUE)),
       UnlessZero(IF rd = 2 THEN Means("ADDI", 2, 2, 0, Immediate(n, "Sp16", TRUE))
                  ELSE Means("LUI", rd, 0, 0, Immediate(n, "Upper", TRUE))),
       MeaningOfArithmetic(n, rv32),
       Means("JAL", 0, 0, 0, Immediate(n, "CJ", TRUE)),
       Means("BEQ", 0, Small(n, 7), 0, Immediate(n, "CB", TRUE)),
       Means("BNE", 0, Small(n, 7), 0, Immediate(n, "CB", TRUE)) >>

MeaningOfRegisters(n) ==
    LET rd == Full(n, 7)  rs2 == Full(n, 2) IN
    CASE Bit(n, 12) = 0 /\ rs2 = 0 -> WithRegister(n, Means("JALR", 0, rd, 0, 0))
      [] Bit(n, 12) = 0 /\ rs2 # 0 -> Means("ADD", rd, 0, rs2, 0)
      [] Bit(n, 12) = 1 /\ rs2 = 0 ->
           IF rd = 0 THEN Means("EBREAK", 0, 0, 0, 0) ELSE Means("JALR", 1, rd, 0, 0)
      [] OTHER -> Means("ADD", rd, rd, rs2, 0)

Meaning2(n, rv32) ==
    << MeaningOfShift("SLLI", n, Full(n, 7), rv32),
       LoadSp("FLD", n, "LoadSp8"), WithRegister(n, LoadSp("LW", n, "LoadSp4")),
       IF rv32 THEN LoadSp("FLW", n, "LoadSp4") ELSE WithRegister(n, LoadSp("LD", n, "LoadSp8")),
       MeaningOfRegisters(n),
       StoreSp("FSD", n, "StoreSp8"), StoreSp("SW", n, "StoreSp4"),
       IF rv32 THEN StoreSp("FSW", n, "StoreSp4") ELSE StoreSp("SD", n, "StoreSp8") >>

Meaning(n, arch) ==
    << Meaning0(n, arch = "RV32"), Meaning1(n, arch = "RV32"),
       Meaning2(n, arch = "RV32") >>[(n % 4) + 1][Slice(n, 15, 13) + 1]
-----------------------------------------------------------------------------
\* The operands that the interpreter takes from a word, by the kind of the instruction.
OperandsOf(op, w) ==
    CASE op \in {"SLLI", "SRLI", "SRAI"} -> Means(op, w.rd, w.rs1, 0, shamt(w))
      [] op \in {"ADDI", "ADDIW", "ANDI", "LW", "LD", "FLW", "FLD", "JALR"} ->
           Means(op, w.rd, w.rs1, 0, I_imm(w))
      [] op \in {"SW", "SD", "FSW", "FSD"} -> Means(op, 0, w.rs1, w.rs2, S_imm(w))
      [] op \in {"BEQ", "BNE"} -> Means(op, 0, w.rs1, w.rs2, B_imm(w))
      [] op = "LUI" -> Means(op, w.rd, 0, 0, U_imm(w))
      [] op = "JAL" -> Means(op, w.rd, 0, 0, J_imm(w))
      [] op = "EBREAK" -> Means(op, 0, 0, 0, 0)
      [] OTHER -> Means(op, w.rd, w.rs1, w.rs2, 0)

\* Halfwords that do nothing, whatever stands for it: C.NOP, which becomes an ADD to x0,
\* and the hints C.ADD x0, rs2, which decode_compressed takes for C.EBREAK.
DoesNothing(n) ==
    \/ n = 1
    \/ Slice(n, 1, 0) = 2 /\ Slice(n, 15, 12) = 9 /\ Full(n, 7) = 0 /\ Full(n, 2) # 0

\* A halfword becomes the instruction that RISC-V says it stands for, and is illegal if
\* and only if it is reserved; its word decodes to the same instruction (ADDIW's is ADDI's).
CompressedIsRight(n, arch) ==
    LET is == decode_and_expand_compressed(n, arch)
        meant == Meaning(n, arch)
    IN  \/ DoesNothing(n)
        \/ meant = Reserved /\ IsIllegal(is.op, arch)
        \/ /\ meant # Reserved
           /\ OperandsOf(is.op, is.word) = meant
           /\ is.op = "ADDIW" \/ decode_normal(is.word, arch) = is.op
=============================================================================
