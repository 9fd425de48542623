------------------------------- MODULE Encoding -------------------------------
(***************************************************************************)
(* The words of 32 bits (vp/src/core/common/instr.cpp, instr.h): the       *)
(* encoding of each instruction, and the switches that find the            *)
(* instruction of a word.  A word is a record of its fields, since         *)
(* immediates lie across them.                                             *)
(***************************************************************************)
EXTENDS Integers, Sequences, TLC

Archs == {"RV32", "RV64"}
Undef == "UNDEF"

Word(opcode, rd, f3, rs1, rs2, f7) ==
    [opcode |-> opcode, rd |-> rd, funct3 |-> f3, rs1 |-> rs1, rs2 |-> rs2, funct7 |-> f7]

funct12(w) == w.funct7 * 32 + w.rs2
-----------------------------------------------------------------------------
(***************************************************************************)
(* The constants X_MASK and X_ENCODING: a mask covers fields, and the      *)
(* encoding says what they hold.                                           *)
(***************************************************************************)
OfOpcode == [LUI |-> <<55>>, AUIPC |-> <<23>>, JAL |-> <<111>>]

\* CUSTOM0_MASK equals CUSTOM0_ENCODING, and so on: decode_normal does not compare them.
\* These are the opcodes of their cases.
OfCustom == [CUSTOM0 |-> <<11>>, CUSTOM1 |-> <<43>>, CUSTOM2 |-> <<91>>, CUSTOM3 |-> <<123>>]

\* Opcode and funct3.
OfBase == [
    JALR |-> <<103, 0>>, BEQ |-> <<99, 0>>, BNE |-> <<99, 1>>, BLT |-> <<99, 4>>,
    BGE |-> <<99, 5>>, BLTU |-> <<99, 6>>, BGEU |-> <<99, 7>>, LB |-> <<3, 0>>, LH |-> <<3, 1>>,
    LW |-> <<3, 2>>, LBU |-> <<3, 4>>, LHU |-> <<3, 5>>, SB |-> <<35, 0>>, SH |-> <<35, 1>>,
    SW |-> <<35, 2>>, ADDI |-> <<19, 0>>, SLTI |-> <<19, 2>>, SLTIU |-> <<19, 3>>,
    XORI |-> <<19, 4>>, ORI |-> <<19, 6>>, ANDI |-> <<19, 7>>]

OfCsr == [
    FENCE |-> <<15, 0>>, FENCE_I |-> <<15, 1>>, CSRRW |-> <<115, 1>>, CSRRS |-> <<115, 2>>,
    CSRRC |-> <<115, 3>>, CSRRWI |-> <<115, 5>>, CSRRSI |-> <<115, 6>>, CSRRCI |-> <<115, 7>>]

OfWide == [LWU |-> <<3, 6>>, LD |-> <<3, 3>>, SD |-> <<35, 3>>, ADDIW |-> <<27, 0>>]

OfFloat == [FLW |-> <<7, 2>>, FSW |-> <<39, 2>>, FLD |-> <<7, 3>>, FSD |-> <<39, 3>>]

\* Opcode, funct3 and funct7.
OfRegisters == [
    ADD |-> <<51, 0, 0>>, SUB |-> <<51, 0, 32>>, SLL |-> <<51, 1, 0>>, SLT |-> <<51, 2, 0>>,
    SLTU |-> <<51, 3, 0>>, XOR |-> <<51, 4, 0>>, SRL |-> <<51, 5, 0>>, SRA |-> <<51, 5, 32>>,
    OR |-> <<51, 6, 0>>, AND |-> <<51, 7, 0>>]

OfProducts == [
    MUL |-> <<51, 0, 1>>, MULH |-> <<51, 1, 1>>, MULHSU |-> <<51, 2, 1>>, MULHU |-> <<51, 3, 1>>,
    DIV |-> <<51, 4, 1>>, DIVU |-> <<51, 5, 1>>, REM |-> <<51, 6, 1>>, REMU |-> <<51, 7, 1>>]

OfWords == [
    SLLIW |-> <<27, 1, 0>>, SRLIW |-> <<27, 5, 0>>, SRAIW |-> <<27, 5, 32>>,
    ADDW |-> <<59, 0, 0>>, SUBW |-> <<59, 0, 32>>, SLLW |-> <<59, 1, 0>>, SRLW |-> <<59, 5, 0>>,
    SRAW |-> <<59, 5, 32>>, MULW |-> <<59, 0, 1>>, DIVW |-> <<59, 4, 1>>, DIVUW |-> <<59, 5, 1>>,
    REMW |-> <<59, 6, 1>>, REMUW |-> <<59, 7, 1>>]

\* Opcode, funct3 and funct6, or the same number for funct7.
OfShifts == [SLLI |-> <<19, 1, 0>>, SRLI |-> <<19, 5, 0>>, SRAI |-> <<19, 5, 16>>]
OfShifts32 == [SLLI |-> <<19, 1, 0>>, SRLI |-> <<19, 5, 0>>, SRAI |-> <<19, 5, 32>>]

\* The whole word but for its opcode: rd, funct3, rs1, rs2, funct7.
OfSystem == [
    ECALL |-> <<0, 0, 0, 0, 0>>, EBREAK |-> <<0, 0, 0, 1, 0>>, URET |-> <<0, 0, 0, 2, 0>>,
    SRET |-> <<0, 0, 0, 2, 8>>, MRET |-> <<0, 0, 0, 2, 24>>, WFI |-> <<0, 0, 0, 5, 8>>]

\* funct3 and funct5.
OfAtomics == [
    SC_W |-> <<2, 3>>, AMOSWAP_W |-> <<2, 1>>, AMOADD_W |-> <<2, 0>>, AMOXOR_W |-> <<2, 4>>,
    AMOAND_W |-> <<2, 12>>, AMOOR_W |-> <<2, 8>>, AMOMIN_W |-> <<2, 16>>,
    AMOMAX_W |-> <<2, 20>>, AMOMINU_W |-> <<2, 24>>, AMOMAXU_W |-> <<2, 28>>]
OfAtomics64 == [
    SC_D |-> <<3, 3>>, AMOSWAP_D |-> <<3, 1>>, AMOADD_D |-> <<3, 0>>, AMOXOR_D |-> <<3, 4>>,
    AMOAND_D |-> <<3, 12>>, AMOOR_D |-> <<3, 8>>, AMOMIN_D |-> <<3, 16>>,
    AMOMAX_D |-> <<3, 20>>, AMOMINU_D |-> <<3, 24>>, AMOMAXU_D |-> <<3, 28>>]

\* Opcode and funct2.
OfFused == [
    FMADD_S |-> <<67, 0>>, FMADD_D |-> <<67, 1>>, FMSUB_S |-> <<71, 0>>, FMSUB_D |-> <<71, 1>>,
    FNMSUB_S |-> <<75, 0>>, FNMSUB_D |-> <<75, 1>>, FNMADD_S |-> <<79, 0>>,
    FNMADD_D |-> <<79, 1>>]

\* funct7; with funct3; with rs2; with both.
OfRounded == [
    FADD_S |-> <<0>>, FADD_D |-> <<1>>, FSUB_S |-> <<4>>, FSUB_D |-> <<5>>, FMUL_S |-> <<8>>,
    FMUL_D |-> <<9>>, FDIV_S |-> <<12>>, FDIV_D |-> <<13>>]
OfUnrounded == [
    FSGNJ_S |-> <<16, 0>>, FSGNJ_D |-> <<17, 0>>, FSGNJN_S |-> <<16, 1>>,
    FSGNJN_D |-> <<17, 1>>, FSGNJX_S |-> <<16, 2>>, FSGNJX_D |-> <<17, 2>>,
    FMIN_S |-> <<20, 0>>, FMIN_D |-> <<21, 0>>, FMAX_S |-> <<20, 1>>, FMAX_D |-> <<21, 1>>,
    FLE_S |-> <<80, 0>>, FLE_D |-> <<81, 0>>, FLT_S |-> <<80, 1>>, FLT_D |-> <<81, 1>>,
    FEQ_S |-> <<80, 2>>, FEQ_D |-> <<81, 2>>]
OfConversions == [
    FCVT_S_D |-> <<32, 1>>, FCVT_D_S |-> <<33, 0>>, FSQRT_S |-> <<44, 0>>,
    FSQRT_D |-> <<45, 0>>, FCVT_W_S |-> <<96, 0>>, FCVT_WU_S |-> <<96, 1>>,
    FCVT_L_S |-> <<96, 2>>, FCVT_LU_S |-> <<96, 3>>, FCVT_W_D |-> <<97, 0>>,
    FCVT_WU_D |-> <<97, 1>>, FCVT_L_D |-> <<97, 2>>, FCVT_LU_D |-> <<97, 3>>,
    FCVT_S_W |-> <<104, 0>>, FCVT_S_WU |-> <<104, 1>>, FCVT_S_L |-> <<104, 2>>,
    FCVT_S_LU |-> <<104, 3>>, FCVT_D_W |-> <<105, 0>>, FCVT_D_WU |-> <<105, 1>>,
    FCVT_D_L |-> <<105, 2>>, FCVT_D_LU |-> <<105, 3>>]
OfMoves == [
    FMV_X_W |-> <<112, 0, 0>>, FCLASS_S |-> <<112, 0, 1>>, FMV_W_X |-> <<120, 0, 0>>,
    FMV_X_D |-> <<113, 0, 0>>, FCLASS_D |-> <<113, 0, 1>>, FMV_D_X |-> <<121, 0, 0>>]

\* What an encoding fixes, as a set of pairs of a field and its value: some that are the same
\* for all of a table, and others.
Entries(same, table, fields) ==
    [op \in DOMAIN table |->
        {<<fields[i], table[op][i]>> : i \in DOMAIN fields} \cup same]

Opcode(n) == {<<"opcode", n>>}

\* SLLI_32 and so on fix one bit more.
ShiftsOf(arch) ==
    IF arch = "RV32" THEN Entries({}, OfShifts32, <<"opcode", "funct3", "funct7">>)
    ELSE Entries({}, OfShifts, <<"opcode", "funct3", "funct6">>)

EncodingOf(arch) ==
    LET opcode == <<"opcode">>
        funct3 == <<"opcode", "funct3">>
        funct7 == <<"opcode", "funct3", "funct7">>
    IN  Entries({}, OfOpcode, opcode) @@ Entries({}, OfCustom, opcode)
        @@ Entries({}, OfBase, funct3) @@ Entries({}, OfCsr, funct3)
        @@ Entries({}, OfWide, funct3) @@ Entries({}, OfFloat, funct3)
        @@ Entries({}, OfRegisters, funct7) @@ Entries({}, OfProducts, funct7)
        @@ Entries({}, OfWords, funct7) @@ ShiftsOf(arch)
        @@ Entries(Opcode(115), OfSystem, <<"rd", "funct3", "rs1", "rs2", "funct7">>)
        @@ "SFENCE_VMA" :> {<<"opcode", 115>>, <<"rd", 0>>, <<"funct3", 0>>, <<"funct7", 9>>}
        @@ Entries(Opcode(47), OfAtomics @@ OfAtomics64, <<"funct3", "funct5">>)
        @@ Entries(Opcode(47) \cup {<<"funct5", 2>>, <<"rs2", 0>>},
                   [LR_W |-> <<2>>, LR_D |-> <<3>>], <<"funct3">>)
        @@ Entries({}, OfFused, <<"opcode", "funct2">>)
        @@ Entries(Opcode(83), OfRounded, <<"funct7">>)
        @@ Entries(Opcode(83), OfUnrounded, <<"funct7", "funct3">>)
        @@ Entries(Opcode(83), OfConversions, <<"funct7", "rs2">>)
        @@ Entries(Opcode(83), OfMoves, <<"funct7", "rs2", "funct3">>)

Encoding == [arch \in Archs |-> EncodingOf(arch)]

Field(w, f) ==
    CASE f = "funct6" -> w.funct7 \div 2
      [] f = "funct5" -> w.funct7 \div 4
      [] f = "funct2" -> w.funct7 % 4
      [] OTHER -> w[f]

\* (data() & X_MASK) == X_ENCODING.
Matches(w, op, arch) == \A fixed \in Encoding[arch][op] : Field(w, fixed[1]) = fixed[2]
-----------------------------------------------------------------------------
(***************************************************************************)
(* The switches of decode_normal.  A case lists the labels of the next     *)
(* switch, of funct3 where it says nothing else.                           *)
(***************************************************************************)
ByOpcode == (55 :> "LUI") @@ (23 :> "AUIPC") @@ (111 :> "JAL") @@ (103 :> "JALR")
    @@ (11 :> "CUSTOM0") @@ (43 :> "CUSTOM1") @@ (91 :> "CUSTOM2") @@ (123 :> "CUSTOM3")

ByFunct3 ==
    99 :> << "BEQ", "BNE", Undef, Undef, "BLT", "BGE", "BLTU", "BGEU" >>
    @@ 3 :> << "LB", "LH", "LW", "LD", "LBU", "LHU", "LWU" >>
    @@ 35 :> << "SB", "SH", "SW", "SD" >>
    @@ 7 :> << Undef, Undef, "FLW", "FLD" >>
    @@ 39 :> << Undef, Undef, "FSW", "FSD" >>
    @@ 15 :> << "FENCE", "FENCE_I" >>
    @@ 115 :> << Undef, "CSRRW", "CSRRS", "CSRRC", Undef, "CSRRWI", "CSRRSI", "CSRRCI" >>
    @@ 19 :> << "ADDI", "SLLI", "SLTI", "SLTIU", "XORI", Undef, "ORI", "ANDI" >>
    @@ 27 :> << "ADDIW", "SLLIW" >>

\* Of opcodes and funct7.
ByFunct7 ==
    <<51, 0>> :> << "ADD", "SLL", "SLT", "SLTU", "XOR", "SRL", "OR", "AND" >>
    @@ <<51, 32>> :> << "SUB", Undef, Undef, Undef, Undef, "SRA" >>
    @@ <<51, 1>> :> << "MUL", "MULH", "MULHSU", "MULHU", "DIV", "DIVU", "REM", "REMU" >>
    @@ <<59, 0>> :> << "ADDW", "SLLW", Undef, Undef, Undef, "SRLW" >>
    @@ <<59, 32>> :> << "SUBW", Undef, Undef, Undef, Undef, "SRAW" >>
    @@ <<59, 1>> :> << "MULW", Undef, Undef, Undef, "DIVW", "DIVUW", "REMW", "REMUW" >>

BySystem == (0 :> "ECALL") @@ (1 :> "EBREAK") @@ (2 :> "URET") @@ (258 :> "SRET")
    @@ (770 :> "MRET") @@ (261 :> "WFI")

\* Of funct5: for words, which every funct3 but one stands for, and for double words.
ByFunct5 ==
    2 :> << "LR_W", "LR_D" >> @@ 3 :> << "SC_W", "SC_D" >>
    @@ 1 :> << "AMOSWAP_W", "AMOSWAP_D" >> @@ 0 :> << "AMOADD_W", "AMOADD_D" >>
    @@ 4 :> << "AMOXOR_W", "AMOXOR_D" >> @@ 12 :> << "AMOAND_W", "AMOAND_D" >>
    @@ 8 :> << "AMOOR_W", "AMOOR_D" >> @@ 16 :> << "AMOMIN_W", "AMOMIN_D" >>
    @@ 20 :> << "AMOMAX_W", "AMOMAX_D" >> @@ 24 :> << "AMOMINU_W", "AMOMINU_D" >>
    @@ 28 :> << "AMOMAXU_W", "AMOMAXU_D" >>

\* Of opcodes: by funct2.
ByFunct2 == 67 :> << "FMADD_S", "FMADD_D" >> @@ 71 :> << "FMSUB_S", "FMSUB_D" >>
    @@ 75 :> << "FNMSUB_S", "FNMSUB_D" >> @@ 79 :> << "FNMADD_S", "FNMADD_D" >>

\* Of funct7 of OP_FADD_S: nothing more, funct3, or rs2.
Arithmetics == (0 :> "FADD_S") @@ (1 :> "FADD_D") @@ (4 :> "FSUB_S") @@ (5 :> "FSUB_D")
    @@ (8 :> "FMUL_S") @@ (9 :> "FMUL_D") @@ (12 :> "FDIV_S") @@ (13 :> "FDIV_D")
    @@ (32 :> "FCVT_S_D") @@ (33 :> "FCVT_D_S") @@ (44 :> "FSQRT_S") @@ (45 :> "FSQRT_D")
    @@ (120 :> "FMV_W_X") @@ (121 :> "FMV_D_X")
Comparisons ==
    80 :> << "FLE_S", "FLT_S", "FEQ_S" >> @@ 81 :> << "FLE_D", "FLT_D", "FEQ_D" >>
    @@ 16 :> << "FSGNJ_S", "FSGNJN_S", "FSGNJX_S" >>
    @@ 17 :> << "FSGNJ_D", "FSGNJN_D", "FSGNJX_D" >>
    @@ 20 :> << "FMIN_S", "FMAX_S" >> @@ 21 :> << "FMIN_D", "FMAX_D" >>
    @@ 112 :> << "FMV_X_W", "FCLASS_S" >> @@ 113 :> << "FMV_X_D", "FCLASS_D" >>
\* Mutant: FCVT.D.W as unsigned, and the other way round.
ConversionsExchanged ==
    104 :> << "FCVT_S_W", "FCVT_S_WU", "FCVT_S_L", "FCVT_S_LU" >>
    @@ 105 :> << "FCVT_D_WU", "FCVT_D_W", "FCVT_D_L", "FCVT_D_LU" >>
    @@ 97 :> << "FCVT_W_D", "FCVT_WU_D", "FCVT_L_D", "FCVT_LU_D" >>
    @@ 96 :> << "FCVT_W_S", "FCVT_WU_S", "FCVT_L_S", "FCVT_LU_S" >>
Conversions ==
    104 :> << "FCVT_S_W", "FCVT_S_WU", "FCVT_S_L", "FCVT_S_LU" >>
    @@ 105 :> << "FCVT_D_W", "FCVT_D_WU", "FCVT_D_L", "FCVT_D_LU" >>
    @@ 97 :> << "FCVT_W_D", "FCVT_WU_D", "FCVT_L_D", "FCVT_LU_D" >>
    @@ 96 :> << "FCVT_W_S", "FCVT_WU_S", "FCVT_L_S", "FCVT_LU_S" >>

\* A label of a switch, if it has it: of a sequence of labels from 0 on, or of a function.
Label(labels, n) == IF n + 1 \in DOMAIN labels THEN labels[n + 1] ELSE Undef
Of(table, n) == IF n \in DOMAIN table THEN table[n] ELSE << >>

\* What a right shift is depends on funct6 on RV32 too.
RightShift(f, logic, arithmetic, bit) ==
    CASE f = 0 -> logic [] f = bit -> arithmetic [] OTHER -> Undef

Floating(w) ==
    IF w.funct7 \in DOMAIN Arithmetics THEN Arithmetics[w.funct7]
    ELSE IF w.funct7 \in DOMAIN Comparisons THEN Label(Comparisons[w.funct7], w.funct3)
    ELSE Label(Of(Conversions, w.funct7), w.rs2)

\* The instruction that a word is, if its encoding agrees.
Candidate(w) ==
    CASE w.opcode \in DOMAIN ByOpcode -> ByOpcode[w.opcode]
      [] w.opcode = 19 /\ w.funct3 = 5 -> RightShift(w.funct7 \div 2, "SRLI", "SRAI", 16)
      [] w.opcode = 27 /\ w.funct3 = 5 -> RightShift(w.funct7, "SRLIW", "SRAIW", 32)
      [] w.opcode = 115 /\ w.funct3 = 0 ->
           IF funct12(w) \in DOMAIN BySystem THEN BySystem[funct12(w)] ELSE "SFENCE_VMA"
      [] w.opcode \in {51, 59} -> Label(Of(ByFunct7, <<w.opcode, w.funct7>>), w.funct3)
      [] w.opcode = 47 -> Label(Of(ByFunct5, w.funct7 \div 4), IF w.funct3 = 3 THEN 1 ELSE 0)
      [] w.opcode = 83 -> Floating(w)
      [] w.opcode \in DOMAIN ByFunct2 -> Label(ByFunct2[w.opcode], w.funct7 % 4)
      [] OTHER -> Label(Of(ByFunct3, w.opcode), w.funct3)

\* MATCH_AND_RETURN_INSTR2.
decode_normal(w, arch) ==
    LET op == Candidate(w) IN
    IF op = Undef \/ op \in DOMAIN OfCustom \/ Matches(w, op, arch) THEN op ELSE Undef
-----------------------------------------------------------------------------
Free(op, arch, field, values) ==
    LET fixed == {v \in values : <<field, v>> \in Encoding[arch][op]}
    IN  IF fixed # {} THEN fixed ELSE values

\* The words of an instruction, some of them where an operand is free.
WordsOf(op, arch) ==
    LET Has(field) == \E fixed \in Encoding[arch][op] : fixed[1] = field
        registers == {0, 31}
    IN  {w \in [opcode : {n \in 0 .. 127 : <<"opcode", n>> \in Encoding[arch][op]},
                rd : Free(op, arch, "rd", registers), rs1 : Free(op, arch, "rs1", registers),
                rs2 : Free(op, arch, "rs2", 0 .. 5 \cup {31}),
                funct3 : Free(op, arch, "funct3", 0 .. 7),
                funct7 : IF \E f \in {"funct7", "funct6", "funct5", "funct2"} : Has(f)
                         THEN 0 .. 127 ELSE {0, 1, 32, 127}] :
            Matches(w, op, arch)}

\* The switches reach every instruction from every word that its mask admits, and so no word
\* is two of them; on RV32, a shift by 32 or more is none.
EncodingIsDecoded(op, arch) == \A w \in WordsOf(op, arch) : decode_normal(w, arch) = op
=============================================================================
