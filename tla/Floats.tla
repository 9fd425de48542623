-------------------------------- MODULE Floats --------------------------------
(***************************************************************************)
(* Floating point in both interpreters (vp/src/core/rv64/iss.cpp,          *)
(* rv32/iss.cpp, common/fp.h), which hand the numbers to softfloat and     *)
(* keep registers, rounding mode, flags and mstatus.FS.  A hart h has      *)
(* these; an instruction i has the contents of its three registers and     *)
(* what softfloat answers to it.  A single has 5 bits here, a double 10.   *)
(***************************************************************************)
EXTENDS Integers, Sequences

Bits == [S |-> 5, D |-> 10]
Fraction == [S |-> 2, D |-> 6]

SignBit(fmt) == 2^(Bits[fmt] - 1)                          \* F32_SIGN_BIT, F64_SIGN_BIT
Unsigned(v, fmt) == v % SignBit(fmt)                       \* v & ~F32_SIGN_BIT
Infinity(fmt) == SignBit(fmt) - 2^Fraction[fmt]
defaultNaN(fmt) == Infinity(fmt) + 2^(Fraction[fmt] - 1)
isNegative(v, fmt) == v >= SignBit(fmt)
isNaN(v, fmt) == Unsigned(v, fmt) > Infinity(fmt)
neg(v, fmt) == (v + SignBit(fmt)) % 2^Bits[fmt]

\* FpRegs: a register holds a double, or a single below ones.
is_boxed(x) == x \div 2^Bits.S = 2^Bits.S - 1
box(v) == (2^Bits.S - 1) * 2^Bits.S + v
Raw(x, fmt) == x % 2^Bits[fmt]                             \* FpRegs::u32
Operand(x, fmt) ==
    IF fmt = "D" THEN x ELSE IF is_boxed(x) THEN Raw(x, "S") ELSE defaultNaN("S")

\* Softfloat: its comparisons, which raise NV for a signaling NaN, or for any.
isSignaling(v, fmt) == isNaN(v, fmt) /\ Unsigned(v, fmt) < defaultNaN(fmt)
Order(v, fmt) == IF isNegative(v, fmt) THEN -Unsigned(v, fmt) ELSE v
Ordered(a, b, fmt) == ~isNaN(a, fmt) /\ ~isNaN(b, fmt)
lt(a, b, fmt) == Ordered(a, b, fmt) /\ Order(a, fmt) < Order(b, fmt)
eq(a, b, fmt) == Ordered(a, b, fmt) /\ Order(a, fmt) = Order(b, fmt)
InvalidQuiet(a, b, fmt) == IF isSignaling(a, fmt) \/ isSignaling(b, fmt) THEN {"NV"} ELSE {}
Invalid(a, b, fmt) == IF Ordered(a, b, fmt) THEN {} ELSE {"NV"}
-----------------------------------------------------------------------------
FRM_RMM == 4
FRM_DYN == 7

\* softfloat_exceptionFlags are h.raised, h.f or h.x the register that i
\* writes, if it has.
fp_set_dirty(h) == [h EXCEPT !.fs = "dirty"]
fp_update_exception_flags(h) ==
    IF h.raised = {} THEN h
    ELSE [fp_set_dirty(h) EXCEPT !.fflags = @ \cup h.raised, !.raised = {}]
\* Mutant: the flags of an instruction replace the ones before.
FinishForgetting(h) == [fp_set_dirty(h) EXCEPT !.fflags = h.raised, !.raised = {}]
fp_finish_instr(h) == fp_update_exception_flags(fp_set_dirty(h))

Illegal(h) == [h EXCEPT !.trap = TRUE]
Raise(h, flags) == [h EXCEPT !.raised = @ \cup flags]
Write(h, fmt, v) == [h EXCEPT !.f = <<IF fmt = "S" THEN box(v) ELSE v>>]
WriteX(h, v) == [h EXCEPT !.x = <<v>>]

\* fp_setup_rm.
RoundingMode(h, i) == IF i.rm = FRM_DYN THEN h.frm ELSE i.rm

Loads == {"FLW", "FSW"}
Arithmetics == {"FADD", "FSUB", "FMUL", "FDIV"}
ToInteger == {"FCVT_W_F", "FCVT_WU_F", "FCVT_L_F", "FCVT_LU_F"}
FromInteger == {"FCVT_F_W", "FCVT_F_WU", "FCVT_F_L", "FCVT_F_LU"}
Calculations == Arithmetics \cup ToInteger \cup FromInteger
    \cup {"FSQRT", "FMADD", "FMSUB", "FNMADD", "FNMSUB", "FCVT_F_F"}
Injections == {"FSGNJ", "FSGNJN", "FSGNJX"}
Comparisons == {"FEQ", "FLT", "FLE"}
Extremes == {"FMIN", "FMAX"}
Moves == {"FMV_F_X", "FMV_X_F", "FCLASS"}
Ops == Loads \cup Calculations \cup Injections \cup Comparisons \cup Extremes \cup Moves

Other(fmt) == IF fmt = "S" THEN "D" ELSE "S"

\* The operands of the softfloat function that i calls: f32_add for FADD, and so on.
Call(i) ==
    LET fmt == i.fmt
        a == Operand(i.a, fmt)  b == Operand(i.b, fmt)  c == Operand(i.c, fmt)
    IN  CASE i.op \in Arithmetics -> <<a, b>>
          [] i.op = "FMADD" -> <<a, b, c>>
          [] i.op = "FMSUB" -> <<a, b, neg(c, fmt)>>
          [] i.op = "FNMADD" -> <<neg(a, fmt), b, neg(c, fmt)>>
          [] i.op = "FNMSUB" -> <<neg(a, fmt), b, c>>
          [] i.op = "FCVT_F_F" -> <<Operand(i.a, Other(fmt))>>
          [] i.op \in FromInteger -> << >>
          [] OTHER -> <<a>>

Calculate(h, i) ==
    IF RoundingMode(h, i) >= FRM_RMM THEN Illegal(h)
    ELSE LET called == Raise([h EXCEPT !.call = Call(i)], i.raises) IN
         fp_finish_instr(IF i.op \in ToInteger THEN WriteX(called, i.result)
                         ELSE Write(called, i.fmt, i.result))

Minimum(a, b, fmt) ==
    LET rs1_smaller == lt(a, b, fmt) \/ (eq(a, b, fmt) /\ isNegative(a, fmt))
    IN  IF rs1_smaller THEN a ELSE b
Maximum(a, b, fmt) ==
    LET rs1_greater == lt(b, a, fmt) \/ (eq(b, a, fmt) /\ isNegative(b, fmt))
    IN  IF rs1_greater THEN a ELSE b

Extreme(h, i) ==
    LET fmt == i.fmt  a == Operand(i.a, fmt)  b == Operand(i.b, fmt) IN
    fp_finish_instr(Write(Raise(h, InvalidQuiet(a, b, fmt)), fmt,
        IF isNaN(a, fmt) /\ isNaN(b, fmt) THEN defaultNaN(fmt)
        ELSE IF i.op = "FMIN" THEN Minimum(a, b, fmt) ELSE Maximum(a, b, fmt)))

Inject(h, i) ==
    LET fmt == i.fmt  a == Operand(i.a, fmt)  b == Operand(i.b, fmt)
        sign == b - Unsigned(b, fmt)
    IN  fp_set_dirty(Write(h, fmt,
            CASE i.op = "FSGNJ" -> Unsigned(a, fmt) + sign
              [] i.op = "FSGNJN" -> Unsigned(a, fmt) + SignBit(fmt) - sign
              [] i.op = "FSGNJX" -> (a + sign) % 2^Bits[fmt]))

Compare(h, i) ==
    LET fmt == i.fmt  a == Operand(i.a, fmt)  b == Operand(i.b, fmt)
        flags == IF i.op = "FEQ" THEN InvalidQuiet(a, b, fmt) ELSE Invalid(a, b, fmt)
    IN  fp_update_exception_flags(WriteX(Raise(h, flags),
            CASE i.op = "FEQ" -> eq(a, b, fmt)
              [] i.op = "FLT" -> lt(a, b, fmt)
              [] i.op = "FLE" -> lt(a, b, fmt) \/ eq(a, b, fmt)))

Move(h, i) ==
    CASE i.op = "FMV_F_X" -> fp_set_dirty(Write(h, i.fmt, Raw(i.a, i.fmt)))
      [] i.op = "FMV_X_F" -> WriteX(h, Raw(i.a, i.fmt))
      [] i.op = "FCLASS" -> WriteX([h EXCEPT !.call = Call(i)], i.result)

\* Neither asks for FS nor sets it; the word that FLW loads is in i.a.
LoadOrStore(h, i) ==
    IF i.op = "FLW" THEN Write(h, i.fmt, Raw(i.a, i.fmt)) ELSE WriteX(h, Raw(i.a, i.fmt))

\* RV64's interpreter does not ask whether misa has the extension (h.isa).
Execute(h, i) ==
    CASE h.arch = "RV32" /\ ~h.isa -> Illegal(h)
      [] OTHER ->
           CASE i.op \in Loads -> LoadOrStore(h, i)
             [] i.op \notin Loads /\ h.fs = "off" -> Illegal(h)
             [] OTHER ->
                  CASE i.op \in Calculations -> Calculate(h, i)
                    [] i.op \in Extremes -> Extreme(h, i)
                    [] i.op \in Injections -> Inject(h, i)
                    [] i.op \in Comparisons -> Compare(h, i)
                    [] i.op \in Moves -> Move(h, i)
-----------------------------------------------------------------------------
(***************************************************************************)
(* What RISC-V's extensions F and D say of it.                             *)
(***************************************************************************)
Nothing == << >>
Untouched(h) == h.f = Nothing /\ h.x = Nothing

\* Mode 4, nearest with ties away from zero, is not supported.
Refused(h, i) ==
    \/ h.arch = "RV32" /\ ~h.isa
    \/ i.op \notin Loads /\ h.fs = "off"
    \/ i.op \in Calculations /\ RoundingMode(h, i) \notin 0 .. 3

\* The flags that are due: a comparison for order signals for every NaN.
Due(i) ==
    LET operands == {Operand(i.a, i.fmt), Operand(i.b, i.fmt)} IN
    CASE i.op \in Calculations -> i.raises
      [] i.op \in {"FLT", "FLE"} -> {"NV" : v \in {v \in operands : isNaN(v, i.fmt)}}
      [] i.op \in {"FEQ"} \cup Extremes -> {"NV" : v \in {v \in operands : isSignaling(v, i.fmt)}}
      [] OTHER -> {}

\* Loads leave FS as it is: a kernel that saves registers only if FS is dirty loses what they load.
SaysDirty(h, g, i) == g.fflags # h.fflags \/ (g.f # Nothing /\ i.op # "FLW") => g.fs = "dirty"

\* -0 is less than +0, and a NaN is no number, but FMIN and FMAX return rs2 if only that is one.
Key(v, fmt) == IF isNegative(v, fmt) THEN -Unsigned(v, fmt) - 1 ELSE v
IsExtreme(i, v) ==
    LET numbers == {n \in {Operand(i.a, i.fmt), Operand(i.b, i.fmt)} : ~isNaN(n, i.fmt)} IN
    IF numbers = {} THEN v = defaultNaN(i.fmt)
    ELSE \/ isNaN(Operand(i.b, i.fmt), i.fmt)
         \/ /\ v \in numbers
            /\ \A n \in numbers : IF i.op = "FMIN" THEN Key(v, i.fmt) <= Key(n, i.fmt)
                                  ELSE Key(v, i.fmt) >= Key(n, i.fmt)

\* rs1 * rs2 + rs3 with a sign for the whole, and one for rs3.
Negated == [FMADD |-> <<FALSE, FALSE>>, FMSUB |-> <<FALSE, TRUE>>,
            FNMSUB |-> <<TRUE, TRUE>>, FNMADD |-> <<TRUE, FALSE>>]
IsFused(i, call) ==
    LET fmt == i.fmt  given == <<i.a, i.b, i.c>>
        Negative(v) == isNegative(v, fmt)
        Original(k) == Operand(given[k], fmt)
    IN  /\ \A k \in 1 .. 3 : Unsigned(call[k], fmt) = Unsigned(Original(k), fmt)
        /\ (Negative(call[1]) # Negative(call[2]))
              = (Negated[i.op][1] # (Negative(Original(1)) # Negative(Original(2))))
        /\ Negative(call[3]) = (Negated[i.op][1] # (Negated[i.op][2] # Negative(Original(3))))

\* Of the three relations of two numbers one holds, and none of a NaN with anything.
IsCompared(i, x) ==
    LET a == Operand(i.a, i.fmt)  b == Operand(i.b, i.fmt)
        number == ~isNaN(a, i.fmt) /\ ~isNaN(b, i.fmt)
        Zeros == Unsigned(a, i.fmt) = 0 /\ Unsigned(b, i.fmt) = 0
        before == ~Zeros /\ Key(a, i.fmt) < Key(b, i.fmt)
    IN  x = (number /\ CASE i.op = "FLT" -> before
                         [] i.op = "FEQ" -> a = b \/ Zeros
                         [] i.op = "FLE" -> before \/ a = b \/ Zeros)

IsInjected(i, v) ==
    LET fmt == i.fmt  a == Operand(i.a, fmt)  b == Operand(i.b, fmt) IN
    /\ Unsigned(v, fmt) = Unsigned(a, fmt)
    /\ isNegative(v, fmt) = CASE i.op = "FSGNJ" -> isNegative(b, fmt)
                              [] i.op = "FSGNJN" -> ~isNegative(b, fmt)
                              [] i.op = "FSGNJX" -> isNegative(a, fmt) # isNegative(b, fmt)

\* An instruction that traps has no other effect; one that does not leaves no flag to the next,
\* whose assertion would fail; a single is written so that it is read back.
FloatIsRight(h, i) ==
    \E g \in {Execute(h, i)} :
        /\ g.trap = Refused(h, i)
        /\ IF g.trap THEN Untouched(g) /\ g.fs = h.fs /\ g.fflags = h.fflags
           ELSE /\ g.raised = {} /\ g.fflags = h.fflags \cup Due(i)
                /\ SaysDirty(h, g, i)
                /\ (g.f = Nothing) # (g.x = Nothing)
                /\ g.f # Nothing /\ i.fmt = "S" => box(Operand(g.f[1], "S")) = g.f[1]
                /\ i.op \in DOMAIN Negated => IsFused(i, g.call)
                /\ i.op \in Extremes => IsExtreme(i, Operand(g.f[1], i.fmt))
                /\ i.op \in Comparisons => IsCompared(i, g.x[1])
                /\ i.op \in Injections => IsInjected(i, Operand(g.f[1], i.fmt))
-----------------------------------------------------------------------------
\* Zeros, subnormals, numbers, infinities and NaNs of both signs; a register that holds no single.
Magnitudes(fmt) ==
    {0, 1, 2^Fraction[fmt], Infinity(fmt) - 1, Infinity(fmt), Infinity(fmt) + 1,
     defaultNaN(fmt), SignBit(fmt) - 1}
Values(fmt) == Magnitudes(fmt) \cup {v + SignBit(fmt) : v \in Magnitudes(fmt)}
Contents(fmt) == IF fmt = "D" THEN Values("D") ELSE {box(v) : v \in Values("S")} \cup {0, 9}

Hart(arch, isa, fs, frm, fflags) ==
    [arch |-> arch, isa |-> isa, fs |-> fs, frm |-> frm, fflags |-> fflags, raised |-> {},
     trap |-> FALSE, call |-> << >>, f |-> Nothing, x |-> Nothing]
=============================================================================
