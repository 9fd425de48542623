------------------------------ MODULE Interpreter ------------------------------
(***************************************************************************)
(* The integer instructions of both interpreters (vp/src/core/rv32/iss.cpp,*)
(* rv64/iss.cpp), with C++ integers of a register's width w, a power of 2, *)
(* of twice that for a product, and of half for RV64's words.              *)
(***************************************************************************)
EXTENDS Integers, FiniteSetsExt

U(x, w) == x % 2^w                                        \* (uint32_t)x
I(x, w) == ((x + 2^(w - 1)) % 2^w) - 2^(w - 1)            \* (int32_t)x
Values(w) == -(2^(w - 1)) .. 2^(w - 1) - 1
REG_MIN(w) == -(2^(w - 1))

\* The operators &, |, ^ and ~ on the bits of a number.
Set(x, w) == {k \in 0 .. w - 1 : (x \div 2^k) % 2 = 1}
Number(bits, w) == I(MapThenSumSet(LAMBDA k : 2^k, bits), w)
XOR(a, b, w) ==
    Number((Set(a, w) \ Set(b, w)) \cup (Set(b, w) \ Set(a, w)), w)

\* By s places; with half of the width SLLW, SRLW and SRAW.
shamt(b, w) == b % w
SLL(a, s, w) == I(U(a, w) * 2^s, w)
SRL(a, s, w) == I(U(a, w) \div 2^s, w)
\* Mutant: the shift of a word takes the bits above it.
SraOfRegister(a, s, w) == I(a \div 2^s, w)
SRA(a, s, w) == I(I(a, w) \div 2^s, w)

SLT(a, b, w) == IF a < b THEN 1 ELSE 0
\* The immediate of SLTIU is signed until it is compared.
SLTU(a, b, w) == IF U(a, w) < U(b, w) THEN 1 ELSE 0

\* With half of the width ADDW and SUBW.
ADD(a, b, w) == I(I(a, w) + I(b, w), w)
SUB(a, b, w) == I(I(a, w) - I(b, w), w)
AND(a, b, w) == Number(Set(a, w) \cap Set(b, w), w)
OR(a, b, w) == Number(Set(a, w) \cup Set(b, w), w)

\* C++ rounds towards 0.
Magnitude(x) == IF x < 0 THEN -x ELSE x
Quotient(a, b) ==
    LET q == Magnitude(a) \div Magnitude(b) IN IF (a < 0) = (b < 0) THEN q ELSE -q
Remainder(a, b) == a - b * Quotient(a, b)

High(product, w) == I(U(product, 2 * w) \div 2^w, w)
MUL(a, b, w) == I(a * b, w)
MULH(a, b, w) == High(a * b, w)
MULHU(a, b, w) == High(U(a, w) * U(b, w), w)
\* Mutant: the second operand signed too.
MulhsuSigned(a, b, w) == High(a * b, w)
MULHSU(a, b, w) == High(a * U(b, w), w)
MULW(a, b, w) == I(I(a * b, w), w \div 2)

\* DIV, or with w of half the width DIVW, and so on.
DIV(a, b, w) ==
    IF b = 0 THEN -1 ELSE IF a = REG_MIN(w) /\ b = -1 THEN a ELSE Quotient(a, b)
DIVU(a, b, w) == IF b = 0 THEN -1 ELSE I(Quotient(U(a, w), U(b, w)), w)
REM(a, b, w) ==
    IF b = 0 THEN a ELSE IF a = REG_MIN(w) /\ b = -1 THEN 0 ELSE Remainder(a, b)
REMU(a, b, w) == IF b = 0 THEN a ELSE I(Remainder(U(a, w), U(b, w)), w)
-----------------------------------------------------------------------------
Bit(x, k) == (x \div 2^k) % 2

\* A shift moves bits; of a word, none comes from above it.
ShiftIsExact(a, s, w) ==
    \A k \in 0 .. w - 1 :
        /\ Bit(SLL(a, s, w), k) = IF k < s THEN 0 ELSE Bit(a, k - s)
        /\ Bit(SRL(a, s, w), k) = IF k + s < w THEN Bit(a, k + s) ELSE 0
        /\ Bit(SRA(a, s, w), k) = Bit(a, IF k + s < w THEN k + s ELSE w - 1)

\* Sums and differences wrap around; the bits that two numbers do not share and twice those
\* they do make up their sum; and numbers are in the order that unsigned ones have whose
\* highest bits are turned over.
SumIsExact(a, b, w) ==
    /\ ADD(a, b, w) = I(a + b, w) /\ ADD(SUB(a, b, w), b, w) = I(a, w)
    /\ ADD(XOR(a, b, w), 2 * AND(a, b, w), w) = ADD(a, b, w)
    /\ ADD(XOR(a, b, w), AND(a, b, w), w) = OR(a, b, w)
    /\ SLT(I(a, w), I(b, w), w) = SLTU(a + REG_MIN(w), b + REG_MIN(w), w)

\* The two halves of a product are the product, whichever operands are unsigned.
ProductIsExact(a, b, w) ==
    LET Whole(high) == high * 2^w + U(MUL(a, b, w), w) IN
    /\ Whole(MULH(a, b, w)) = a * b
    /\ Whole(MULHSU(a, b, w)) = a * U(b, w)
    /\ Whole(U(MULHU(a, b, w), w)) = U(a, w) * U(b, w)
    /\ (MULW(a, b, w) - a * b) % 2^(w \div 2) = 0 /\ MULW(a, b, w) \in Values(w \div 2)

Divides(a, b, q, r) == a = b * q + r /\ Magnitude(r) < Magnitude(b) /\ r * a >= 0

\* Quotient and remainder are those of Euclid with the sign of the dividend, all ones
\* and the dividend for a division by 0, and wrap around in the one case of overflow.
DivisionIsExact(a, b, w) ==
    LET q == DIV(a, b, w)  r == REM(a, b, w)
        p == DIVU(a, b, w)  s == REMU(a, b, w)
    IN  /\ {q, r, p, s} \subseteq Values(w)
        /\ b = 0 => q = -1 /\ r = a /\ p = -1 /\ s = a
        /\ b # 0 => /\ Divides(U(a, w), U(b, w), U(p, w), U(s, w))
                    /\ \/ Divides(a, b, q, r)
                       \/ b = -1 /\ -a \notin Values(w) /\ q = a /\ r = 0
=============================================================================
