---------------------------- MODULE Accelerators ----------------------------
(***************************************************************************)
(* The accelerators SM3 and SM4 of the platform tiny32 with the hart that  *)
(* drives them: through a register socket (SM3_Socket, SM4_Socket) or the  *)
(* AHB (AHB_Socket), which wait inside a bus transaction, in each of the   *)
(* three timings of define.h.  The clock's edges lie between the times at  *)
(* which the hart resumes; a delta cycle follows another while signals     *)
(* change.  The guests are those of sw/sm3_hw and sw/sm4_hw.               *)
(***************************************************************************)
EXTENDS Sequences, SequencesExt, Sm4

CONSTANTS None,
          NoRegister,              \* the address 0xfff
          ReadsBack                \* the ports where a guest also reads what it has written

Sm3 == INSTANCE Sm3

VARIABLES device, variant, port,   \* SM3 or SM4; AC, AP or NO; socket or AHB
          regs,                    \* what was written: x_in_reg .., or x_in ..
          out,                     \* message_out ..: what a socket shows the device
          bank,                    \* the AHB's other signals
          sm3, sm4, changed,       \* the devices; the signals the last delta cycle changed
          at, op, results          \* the guest: next step, transaction under way, what it read

vars == <<device, variant, port, regs, out, bank, sm3, sm4, changed, at, op, results>>

x(k) == <<"x", k>>
rst == <<"rst", 0>>
opt == <<"opt", 0>>
ready == <<"ready", 0>>
control == <<"control", 0>>
state == <<"state", 0>>
y == <<"y", 0>>

Write(reg, value) == [do |-> "write", reg |-> reg, value |-> value]
Poll(reg, value) == [do |-> "poll", reg |-> reg, value |-> value]
Read(value) == [do |-> "read", reg |-> y, value |-> value]
Look(reg) == [do |-> "look", reg |-> reg, value |-> None]

\* sm3_test: a message of one block and one of two.
ResetSM3 == <<Write(rst, "1"), Poll(ready, 0), Write(rst, "0")>>
HashSM3(block, n) ==
    [k \in 1 .. 16 |-> Write(x(k - 1), block)]
    \o <<Write(opt, "1"), Write(opt, "0"), Poll(ready, n)>>
sm3_test ==
    ResetSM3 \o HashSM3("a", 1) \o <<Read(<<{"a"}>>)>>
    \o ResetSM3 \o HashSM3("b", 1) \o HashSM3("c", 2) \o <<Read(<<{"b"}, {"c"}>>)>>

\* sm4_test, with one key after the other.
OpSM4(block, code, done) ==
    [k \in 1 .. 4 |-> Write(x(k - 1), block)] \o <<Write(control, code), Poll(state, done)>>
WithKeySM4(key, plain, cipher) ==
    <<Write(control, "0")>> \o OpSM4(key, "1", 2)
    \o OpSM4(plain, "2", 4) \o <<Read({key, plain, "enc"})>>
    \o OpSM4(cipher, "3", 6) \o <<Read({key, cipher, "dec"})>>
sm4_test == WithKeySM4("k", "p", "q") \o WithKeySM4("l", "r", "s")

Program == IF device = "SM3" THEN sm3_test ELSE sm4_test
-----------------------------------------------------------------------------
(***************************************************************************)
(* The registers on the AHB (SM3_REG_AHB.cpp, and SM4_REG_AHB.cpp with the *)
(* same methods): at an edge of the clock each of them reads what the      *)
(* signals were before it.  The master never takes HSEL back, so that the  *)
(* last transfer goes on.                                                  *)
(***************************************************************************)
\* `value' is what the register at HADDR holds.
BankAtEdge(b, value) ==
    [b EXCEPT
        !.addr = IF b.HSEL THEN b.HADDR ELSE NoRegister,
        !.write_en = b.HSEL /\ b.HWRITE,
        !.read_en = b.HSEL /\ ~b.HWRITE,
        !.hrdata = IF b.read_en THEN value ELSE @]

Written(b) ==
    IF b.write_en /\ b.addr \in DOMAIN regs THEN [regs EXCEPT ![b.addr] = b.HWDATA] ELSE regs

\* What the master does at the start of a transfer, two cycles later, and one more later.
Select(b, write) == [b EXCEPT !.HSEL = TRUE, !.HWRITE = write]
Address(b, addr) == [b EXCEPT !.HADDR = addr]
Data(b, data) == [b EXCEPT !.HWDATA = data]
-----------------------------------------------------------------------------
\* What the device sees of the registers, and what is read from it, with the register's name.
Seen == IF port = "AHB" THEN regs ELSE out
Message == [k \in 0 .. IF device = "SM3" THEN 15 ELSE 3 |-> Seen[x(k)]]
Value(reg) == <<reg[1],
    CASE reg = ready -> sm3.V_ready_out
      [] reg = state -> sm4.data_state
      [] reg = y /\ device = "SM3" -> sm3.V_out
      [] reg = y /\ device = "SM4" -> sm4.data_out
      [] OTHER -> regs[reg]>>

Hashed == Sm3!SM3_hash(sm3, Seen[rst], Seen[opt], Message, variant)
ChangesTo(c) == {f \in SIGNALS : c[f] # sm4[f]}

\* The hart resumes: it waits for its next edge otherwise.
Resumes == op # None /\ op.left = 0

\* A rising edge: every method of the clock.
Clock ==
    /\ changed = {} /\ ~Resumes
    /\ op' = IF op = None THEN None ELSE [op EXCEPT !.left = @ - 1]
    /\ bank' = IF port = "AHB" THEN BankAtEdge(bank, Value(bank.HADDR)) ELSE bank
    /\ regs' = IF port = "AHB" THEN Written(bank) ELSE regs
    /\ sm3' = IF device = "SM3" /\ variant # "NO" THEN Hashed ELSE sm3
    /\ IF device = "SM4" /\ variant # "NO"
       THEN /\ sm4' = AtEdge(sm4, Seen[control], Message, variant)
            /\ changed' = ChangesTo(sm4')
       ELSE UNCHANGED <<sm4, changed>>
    /\ UNCHANGED <<device, variant, port, out, at, results>>

\* The methods that are sensitive to what has changed.
Delta ==
    /\ changed # {}
    /\ IF device = "SM3"
       THEN sm3' = Hashed /\ changed' = {} /\ UNCHANGED sm4
       ELSE /\ sm4' = AfterChange(sm4, changed, Seen[control], Message, variant)
            /\ changed' = ChangesTo(sm4')
            /\ UNCHANGED sm3
    /\ UNCHANGED <<device, variant, port, regs, out, bank, at, op, results>>

\* The hart begins a transaction; a socket's read does not wait.
Transaction(step) ==
    LET writes == step.do = "write" IN
    /\ changed = {} /\ op = None
    /\ IF port = "AHB"
       THEN /\ bank' = Select(bank, writes)
            /\ op' = [step |-> step, phase |-> "select", left |-> 2]
            /\ UNCHANGED regs
       ELSE /\ regs' = IF writes THEN [regs EXCEPT ![step.reg] = step.value] ELSE regs
            /\ op' = [step |-> step, phase |-> "data", left |-> IF writes THEN 1 ELSE 0]
            /\ UNCHANGED bank
    /\ UNCHANGED <<device, variant, port, out, sm3, sm4, changed, at, results>>

Begin == at <= Len(Program) /\ Transaction(Program[at])
LookBack == port \in ReadsBack /\ \E reg \in DOMAIN regs : Transaction(Look(reg))

AddressPhase ==
    /\ changed = {} /\ Resumes /\ op.phase = "select"
    /\ bank' = Address(bank, op.step.reg)
    /\ op' = [op EXCEPT !.phase = "data", !.left = 1]
    /\ UNCHANGED <<device, variant, port, regs, out, sm3, sm4, changed, at, results>>

DataPhase == changed = {} /\ Resumes /\ op.phase = "data"

EndWrite ==
    /\ DataPhase /\ op.step.do = "write"
    /\ IF port = "AHB" THEN bank' = Data(bank, op.step.value) /\ UNCHANGED <<out, changed>>
       ELSE /\ out' = regs
            /\ changed' = IF variant # "NO" THEN {}
                          ELSE {IF r = control THEN "data_opt" ELSE r[1] :
                                r \in {r \in DOMAIN regs \cap {rst, opt, control} : out[r] # regs[r]}}
            /\ UNCHANGED bank
    /\ op' = None /\ at' = at + 1
    /\ UNCHANGED <<device, variant, port, regs, sm3, sm4, results>>

EndRead ==
    /\ DataPhase /\ op.step.do # "write"
    /\ LET value == IF port = "AHB" THEN bank.hrdata ELSE Value(op.step.reg)
           over == \/ op.step.do = "read"
                   \/ op.step.do = "poll" /\ value = <<op.step.reg[1], op.step.value>>
       IN  /\ at' = IF over THEN at + 1 ELSE at
           /\ results' = IF op.step.do = "read" THEN Append(results, value) ELSE results
    /\ op' = None
    /\ UNCHANGED <<device, variant, port, regs, out, bank, sm3, sm4, changed>>

Init ==
    /\ device \in {"SM3", "SM4"}
    /\ \/ port = "socket" /\ variant \in {"AC", "AP", "NO"}
       \/ port = "AHB" /\ variant = "AC"
    /\ regs = LET initially == IF port = "AHB" THEN "ffffffff" ELSE "0" IN
              IF device = "SM3"
              THEN [r \in {rst, opt} \cup {x(k) : k \in 0 .. 15} |->
                    IF r \in {rst, opt} THEN initially ELSE "0"]
              ELSE [r \in {control} \cup {x(k) : k \in 0 .. 3} |->
                    IF r = control THEN initially ELSE "0"]
    /\ out = regs
    /\ bank = [HSEL |-> FALSE, HWRITE |-> FALSE, HADDR |-> x(0), HWDATA |-> "0",
               addr |-> NoRegister, write_en |-> FALSE, read_en |-> FALSE,
               hrdata |-> <<"none", "ffffffff">>]
    /\ sm3 = Sm3!First /\ sm4 = First /\ changed = {}
    /\ at = 1 /\ op = None /\ results = << >>

Guest == Begin \/ LookBack \/ AddressPhase \/ EndWrite \/ EndRead
Next == Clock \/ Delta \/ Guest

\* The kernel runs what is due, and time goes on, in a loop that polls too: each of its
\* instructions takes some.  A guest goes on at the end of it, whatever the delta cycles
\* between, and with its program.  (These are SF_vars of Clock, Begin and Guest and
\* WF_vars(Delta), with the guards of the actions for ENABLED.)
Fairness ==
    /\ <>[](changed # {} \/ Resumes) \/ []<><<Clock>>_vars
    /\ []<>(changed = {}) \/ []<><<Delta>>_vars
    /\ <>[](changed # {} \/ op # None \/ at > Len(Program)) \/ []<><<Begin>>_vars
    /\ <>[](changed # {} \/ ~Resumes) \/ []<><<Guest>>_vars

Spec == Init /\ [][Next]_vars /\ Fairness
-----------------------------------------------------------------------------
Expected == LET reads == SelectSeq(Program, LAMBDA step : step.do = "read")
            IN  [k \in 1 .. Len(reads) |-> <<reads[k].reg[1], reads[k].value>>]

(* Every result a guest reads was computed from its message or its key and its block and
   from nothing else, by every round, in every timing and through both ports; and no round
   follows the last one, which would write past SM4's arrays. *)
ResultsAreRight == IsPrefix(results, Expected) /\ ~sm4.overrun

(* A guest's polling ends: no ready state is taken back, or raised too late to be seen. *)
ResultsArrive == <>(at > Len(Program))
=============================================================================
