------------------------------ MODULE FU540Plic ------------------------------
(***************************************************************************)
(* The interrupt controller of the Linux platforms and its harts           *)
(* (vp/src/platform/common/fu540_plic.cpp), with handlers that work as the *)
(* driver of Linux does: they claim and complete until a claim returns 0.  *)
(* A context is a hart with one of its privilege levels; hart 0 has no     *)
(* supervisor mode.                                                        *)
(***************************************************************************)
EXTENDS Integers

CONSTANTS NUMIRQ,
          NumHarts,
          Used,          \* the contexts software enables interrupts for
          Devices,       \* the interrupts that devices trigger
          MAX_PRIO, MAX_THR,
          Written,       \* the values software writes to priorities and thresholds
          Masks,         \* and to the enables while interrupts arrive
          Reconfigures   \* FALSE: software configures the controller before the
                         \* first interrupt, TRUE: at any time

Irqs == 1 .. NUMIRQ
Harts == 0 .. NumHarts - 1
Contexts == (Harts \X {"M", "S"}) \ {<<0, "S">>}

\* What Used is in the runs: hart 0 in machine mode, hart 1 as Linux uses it.
OneLevelEach == {<<0, "M">>, <<1, "S">>}
OnlyHart0 == {<<0, "M">>}

ASSUME FU540PlicAssumption ==
    /\ NUMIRQ \in Nat \ {0}
    /\ NumHarts \in Nat \ {0}
    /\ Used \subseteq Contexts
    /\ Devices \subseteq Irqs
    /\ MAX_PRIO \in Nat /\ MAX_THR \in Nat
    /\ Written \subseteq Nat
    /\ Masks \subseteq SUBSET Devices
    /\ Reconfigures \subseteq BOOLEAN

VARIABLES priorities,    \* the words of regs_interrupt_priorities
          pending,       \* the bits of pending_interrupts
          enabled,       \* the bits of enabled_irqs, by context
          threshold,     \* by context
          eip,           \* the contexts whose external interrupt is raised
          e_run,         \* e_run is notified
          handler,       \* the contexts in their interrupt handler
          serving,       \* the interrupt each of them has claimed, 0 for none
          dynamic,       \* which of Reconfigures it is
          unannounced,   \* what a register write has made deliverable (history)
          aborted        \* an assert has failed

config == <<priorities, enabled, threshold>>
software == <<handler, serving>>
vars == <<config, pending, eip, e_run, software, dynamic, unannounced, aborted>>

Words == 0 .. NUMIRQ - 1

TypeOK ==
    /\ priorities \in [Words -> 0 .. MAX_PRIO]
    /\ pending \subseteq Irqs
    /\ enabled \in [Contexts -> SUBSET Irqs]
    /\ threshold \in [Contexts -> 0 .. MAX_THR]
    /\ eip \subseteq Contexts
    /\ e_run \in BOOLEAN
    /\ handler \subseteq Contexts
    /\ serving \in [Contexts -> {0} \cup Irqs]
    /\ dynamic \in BOOLEAN
    /\ unannounced \subseteq Contexts \X Irqs
    /\ aborted \in BOOLEAN

Clamped(v, max) == IF v > max THEN max ELSE v

Init ==
    /\ dynamic \in Reconfigures
    /\ IF dynamic
       THEN /\ priorities = [w \in Words |-> 0]
            /\ enabled = [c \in Contexts |-> {}]
            /\ threshold = [c \in Contexts |-> 0]
       ELSE /\ priorities \in [Words -> {Clamped(v, MAX_PRIO) : v \in Written}]
            /\ enabled \in {e \in [Contexts -> SUBSET Devices] :
                               \A c \in Contexts \ Used : e[c] = {}}
            /\ threshold \in [Contexts -> {Clamped(v, MAX_THR) : v \in Written}]
    /\ pending = {}
    /\ eip = {}
    /\ e_run = FALSE
    /\ handler = {}
    /\ serving = [c \in Contexts |-> 0]
    /\ unannounced = {}
    /\ aborted = FALSE
-----------------------------------------------------------------------------
\* The word the driver writes for an interrupt: the registers start at 0x4.
ProgrammedWord(i) == i - 1

\* The word next_pending_irq reads, an index into the same registers.
ReadWord(i) == i

\* ArrayView::operator[] asserts that its index is in range.
OutOfRange(c) == \E i \in enabled[c] \cap pending : ReadWord(i) \notin Words

Candidates(c) ==
    {i \in enabled[c] \cap pending : ReadWord(i) \in Words /\ priorities[ReadWord(i)] > 0}

\* A threshold masks what is below it.
Passes(c, i) == priorities[ReadWord(i)] >= threshold[c]
Deliverable(c) == {i \in Candidates(c) : Passes(c, i)}

\* next_pending_irq: of the highest priority the first, 0 for none.
IsNext(i, C) ==
    \/ /\ i \in C
       /\ \A j \in C : LET p == priorities[ReadWord(j)]
                           q == priorities[ReadWord(i)]
                       IN  p < q \/ (p = q /\ i <= j)
    \/ i = 0 /\ C = {}

GatewayTrigger(i) ==
    /\ pending' = pending \cup {i}
    /\ e_run' = TRUE
    /\ UNCHANGED <<config, eip, software, dynamic, unannounced, aborted>>

\* has_pending_irq names one level of a hart, the supervisor's first.
HasDeliverable == {c \in Contexts : Deliverable(c) # {}}
ToldOfFirst == {c \in HasDeliverable : \A d \in HasDeliverable : c[1] <= d[1]}
Told == {c \in HasDeliverable : c[2] = "M" => <<c[1], "S">> \notin HasDeliverable}

Run ==
    /\ e_run
    /\ IF \E c \in Contexts : OutOfRange(c)
       THEN aborted' = TRUE /\ UNCHANGED <<e_run, eip, unannounced>>
       ELSE /\ e_run' = FALSE
            /\ eip' = eip \cup Told
            /\ unannounced' = {}
            /\ aborted' = aborted
    /\ UNCHANGED <<config, pending, software, dynamic>>

TakeInterrupt(c) ==
    /\ c \in eip \ handler
    /\ handler' = handler \cup {c}
    /\ UNCHANGED <<config, pending, eip, e_run, serving, dynamic, unannounced, aborted>>

\* read_hartctx at the claim register, whatever the threshold.
Cleared(i) == pending \ {i}

Claim(c) ==
    /\ c \in handler /\ serving[c] = 0
    /\ IF OutOfRange(c)
       THEN aborted' = TRUE /\ UNCHANGED <<pending, software, unannounced>>
       ELSE \E i \in Irqs \cup {0} :
              /\ IsNext(i, Candidates(c))
              /\ pending' = Cleared(i)
              /\ serving' = [serving EXCEPT ![c] = i]
              /\ handler' = IF i = 0 THEN handler \ {c} ELSE handler
              /\ unannounced' = {u \in unannounced : u[2] # i}
              /\ aborted' = aborted
    /\ UNCHANGED <<config, eip, e_run, dynamic>>

\* write_hartctx at the claim register lowers the interrupt and looks no further.
StillRaised(c) == eip
Lowered(c) == eip \ {c}

Complete(c) ==
    /\ serving[c] # 0
    /\ eip' = Lowered(c)
    /\ serving' = [serving EXCEPT ![c] = 0]
    /\ UNCHANGED <<config, pending, e_run, handler, dynamic, unannounced, aborted>>

\* No register write makes run() look again.
Configured ==
    /\ dynamic
    /\ UNCHANGED <<pending, eip, e_run, software, dynamic, aborted>>
    /\ unannounced' = {u \in Contexts \X Irqs :
          /\ u[2] \in Deliverable(u[1])'
          /\ u[2] \in Deliverable(u[1]) => u \in unannounced}

WritePriority(i, v) ==
    /\ priorities' = [priorities EXCEPT ![ProgrammedWord(i)] = Clamped(v, MAX_PRIO)]
    /\ UNCHANGED <<enabled, threshold>>
    /\ Configured

WriteEnabled(c, s) ==
    /\ enabled' = [enabled EXCEPT ![c] = s]
    /\ UNCHANGED <<priorities, threshold>>
    /\ Configured

WriteThreshold(c, v) ==
    /\ threshold' = [threshold EXCEPT ![c] = Clamped(v, MAX_THR)]
    /\ UNCHANGED <<priorities, enabled>>
    /\ Configured

Software(c) ==
    \/ TakeInterrupt(c) \/ Claim(c) \/ Complete(c)
    \/ \E s \in Masks : WriteEnabled(c, s)
    \/ \E v \in Written : WriteThreshold(c, v)

Next ==
    /\ ~aborted
    /\ \/ Run
       \/ \E i \in Devices : GatewayTrigger(i)
       \/ \E i \in Irqs, v \in Written : WritePriority(i, v)
       \/ \E c \in Used : Software(c)

Spec == Init /\ [][Next]_vars

\* The kernel reaches the time of e_run, and every hart executes.
Fairness ==
    /\ WF_vars(Run)
    /\ \A c \in Used : WF_vars(TakeInterrupt(c) \/ Claim(c) \/ Complete(c))

FairSpec == Spec /\ Fairness
-----------------------------------------------------------------------------
OneLevelPerHart == \A c, d \in Used : c[1] = d[1] => c = d

\* No other context may take c's interrupts from it.
Alone(c) == \A d \in Contexts \ {c} : enabled[d] \cap enabled[c] = {}

(* While a hart serves only one privilege level, an interrupt it is to be told
   of is raised, or run() will look at it, or its handler is still claiming,
   although a completion lowers the interrupt without looking for others; only
   a register write leaves an interrupt unannounced. *)
NoLostInterrupt ==
    OneLevelPerHart /\ ~aborted /\ ~e_run =>
        \A c \in Contexts \ (eip \cup handler) :
            \A i \in Deliverable(c) : <<c, i>> \in unannounced

(* A raised interrupt finds something to claim, so that the handler returns
   with the interrupt lowered, unless interrupts are shared with another
   context or reconfigured meanwhile. *)
NoInterruptStorm ==
    ~dynamic =>
        \A c \in eip \ handler : Alone(c) => Candidates(c) # {}

(* An interrupt is raised exactly when it is due: a completion, which lowers it
   without looking (fu540_plic.cpp:139), and run(), which looks for both levels
   of a hart at once (204), neither lose one nor leave one raised in vain. *)
RaisedWhenDue == NoLostInterrupt /\ NoInterruptStorm

(* An interrupt that one context serves reaches another only if its device
   triggers it again. *)
ClaimNeedsTrigger ==
    [][\A c \in Contexts, i \in Irqs :
          serving'[c] = i /\ serving[c] # i => i \in pending /\ i \notin pending']_vars

(* The first of a context's own interrupts is claimed once it is triggered. *)
FirstIsServed ==
    \A c \in Used, i \in Irqs :
        (/\ OneLevelPerHart /\ ~dynamic
         /\ i \in Deliverable(c) /\ Alone(c) /\ IsNext(i, enabled[c]))
            ~> serving[c] = i

(* "Returns next enabled pending interrupt with highest priority": no claim
   passes over an interrupt that software has given a higher priority. *)
ClaimsHighest ==
    [][\A c \in Contexts, i, j \in Irqs :
          /\ serving[c] # i /\ serving'[c] = i
          /\ j \in enabled[c] \cap pending
          => priorities[ProgrammedWord(j)] <= priorities[ProgrammedWord(i)]]_vars
=============================================================================
