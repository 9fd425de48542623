----------------------------- MODULE Scoreboard -----------------------------
(***************************************************************************)
(* What a pipeline that issues one instruction after the other promises,   *)
(* in absolute times: an instruction waits until the registers it uses are *)
(* ready and its unit is free, and leaves a time at which its result is.   *)
(* A time that has passed is kept as 0.                                    *)
(***************************************************************************)
EXTENDS PipelineLatencies

VARIABLES now, ready, multFree, divFree, stored

vars == <<now, ready, multFree, divFree, stored>>

Bytes(range) == range.start .. range.end - 1

Latest(S) == CHOOSE t \in S : \A u \in S : u <= t

\* When an instruction that uses these registers can go on.
Issue(regs) == Latest({now} \cup {ready[r] : r \in regs})

At(t, u) == IF u > t THEN u ELSE 0

\* The instruction went on at t, and leaves these times.
Leaves(t, results, mult, div, stores) ==
    /\ now' = t + 1
    /\ ready' = [r \in Regs |-> At(t + 1, results[r])]
    /\ multFree' = At(t + 1, mult)
    /\ divFree' = At(t + 1, div)
    /\ stored' = {s \in stores : s.until > t + 1}

Init ==
    /\ now \in FirstCycles
    /\ ready = [r \in Regs |-> 0]
    /\ multFree = 0 /\ divFree = 0
    /\ stored = {}

Simple(regs) == Leaves(Issue(regs), ready, multFree, divFree, stored)

Mult(rs1, rs2, rd) ==
    LET t == Latest({Issue({rs1, rs2, rd}), multFree})
    IN  Leaves(t, [ready EXCEPT ![rd] = t + MultLatency + 1], t + MultLatency, divFree, stored)

Div(rs1, rs2, rd) ==
    \E l \in DivLatencies :
        LET t == Latest({Issue({rs1, rs2, rd}), divFree})
        IN  Leaves(t, [ready EXCEPT ![rd] = t + l], multFree, t + l, stored)

Csr(rs1, rd) ==
    LET t == Issue({rs1, rd})
    IN  Leaves(t, [ready EXCEPT ![rd] = t + CsrLatency], multFree, divFree, stored)

Store(rs1, rs2, range) ==
    LET t == Issue({rs1, rs2})
    IN  Leaves(t, ready, multFree, divFree,
               stored \cup {[range |-> range, until |-> t + StoreLatency + 1]})

Load(rs1, rd, range) ==
    LET t == Issue({rs1, rd})
        hit == \E s \in stored : s.until > t /\ Bytes(s.range) \cap Bytes(range) # {}
        latency == IF Cardinality(Bytes(range)) >= 4 THEN 2 ELSE IF hit THEN 5 ELSE 3
        u == IF hit THEN t + 5 ELSE t
    IN  Leaves(u, [ready EXCEPT ![rd] = u + latency], multFree, divFree, stored)

Next ==
    \/ \E rs1, rs2, rd \in Regs :
          \/ \E regs \in SUBSET {rs1, rs2, rd} : Simple(regs)
          \/ Mult(rs1, rs2, rd) \/ Div(rs1, rs2, rd)
    \/ \E rs1 \in Regs, rd \in Regs \ {Zero} : Csr(rs1, rd)
    \/ \E rs1, rs2 \in Regs, range \in Ranges : Store(rs1, rs2, range) \/ Load(rs1, rs2, range)

Spec == Init /\ [][Next]_vars
=============================================================================
