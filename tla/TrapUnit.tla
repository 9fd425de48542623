------------------------------ MODULE TrapUnit ------------------------------
(***************************************************************************)
(* The traps of one hart (vp/src/core/rv32/iss.cpp): run_step executes an  *)
(* instruction and then takes an interrupt or the exception it raised; the *)
(* xRET instructions return from a handler; WFI sleeps on wfi_event, which *)
(* the interrupt controllers notify when they set a bit of mip.            *)
(*                                                                         *)
(* A hart has one set of trap CSRs per privilege level, so a second trap   *)
(* to a level overwrites what the first one has to return to.  Software    *)
(* keeps the rules of trap handlers: while the CSRs of a level hold the    *)
(* only copy of an interrupted context (Exposed), it neither enables the   *)
(* interrupts of that level nor raises an exception that goes there, it    *)
(* saves that copy before it does (Save) and writes it back (Restore), and *)
(* it leaves a handler with the xRET of the handler's level.  Nothing else *)
(* is assumed of it: it may write mie, mip and the delegation registers of *)
(* its level, and those below, whenever it likes.                          *)
(*                                                                         *)
(* What executes has a number for a pc: 0 is the program that was started, *)
(* n the n-th of the handlers that are nested on top of it.                *)
(***************************************************************************)
EXTENDS Naturals, Sequences, FiniteSets

U == 0
S == 1
M == 3
Levels == {U, S, M}     \* PrivilegeLevel

CONSTANTS Interrupts,   \* the bits of mip and mie
          Rank,         \* the order in which prepare_interrupt looks at them
          Home,         \* the level an interrupt's bit is named after
          Software,     \* the software interrupts among them
          External,     \* the external interrupts, which a PLIC sets and clears
          Local,        \* the timer and software interrupt of the CLINT
          Exceptions,   \* the reasons of a SimulationTrap
          Delegations,  \* the values software gives mideleg, sideleg, medeleg and sedeleg
          None,
          MaxSaved      \* how many interrupted contexts software has saved at once

Causes == Interrupts \cup Exceptions

\* What a trap to a level interrupts: where, at which level, and xIE there; with why.
Context == [pc : Nat, prv : Levels, ie : BOOLEAN, cause : Causes]

Delegation == [{M, S} -> [interrupts : SUBSET Interrupts, exceptions : SUBSET Exceptions]]

ASSUME TrapUnitAssumption ==
    /\ Home \in [Interrupts -> Levels]
    /\ Rank \in [Interrupts -> Nat]
    /\ \A p \in (SUBSET Interrupts) \ {{}} :
           \E i \in p : \A j \in p \ {i} : Rank[i] < Rank[j]
    /\ Software \subseteq Interrupts
    /\ External \subseteq Interrupts
    /\ Local \subseteq Interrupts
    /\ None \notin Interrupts \cup Exceptions \cup Levels \cup Context
    /\ Delegations \subseteq Delegation /\ Delegations # {}
    /\ MaxSaved \in Nat

VARIABLES thread,       \* "ready", "check" (between exec_step and the traps) or "asleep"
          wfi_event,    \* a zero-time notification of wfi_event is pending
          prv, pc,
          ie, pie, pp,  \* xIE, xPIE and xPP of mstatus (UPP is not a field: always U)
          epc, cause,   \* xepc and xcause
          mip, mie,
          deleg,        \* mideleg and medeleg are deleg[M], sideleg and sedeleg deleg[S]
          frames        \* the contexts that wait to be returned to (history)

status == <<ie, pie, pp, epc, cause>>
vars == <<thread, wfi_event, prv, pc, status, mip, mie, deleg, frames>>

\* A frame's copy is what the handler saved of its CSRs in memory.
Frame == [level : Levels, of : Context, copy : Context \cup {None}]

TypeOK ==
    /\ thread \in {"ready", "check", "asleep"}
    /\ wfi_event \in BOOLEAN
    /\ prv \in Levels
    /\ pc \in Nat
    /\ ie \in [Levels -> BOOLEAN]
    /\ pie \in [Levels -> BOOLEAN]
    /\ pp \in [Levels -> Levels]
    /\ epc \in [Levels -> Nat]
    /\ cause \in [Levels -> Causes \cup {None}]
    /\ mip \subseteq Interrupts
    /\ mie \subseteq Interrupts
    /\ deleg \in Delegation
    /\ frames \in Seq(Frame)

\* A hart starts in machine mode; a program of a lower level is what that has started.
Init ==
    /\ thread = "ready"
    /\ wfi_event = FALSE
    /\ prv \in Levels
    /\ pc = 0
    /\ ie \in [Levels -> BOOLEAN]
    /\ pie = [l \in Levels |-> FALSE]
    /\ pp = [l \in Levels |-> U]
    /\ epc = [l \in Levels |-> 0]
    /\ cause = [l \in Levels |-> None]
    /\ mip = {}
    /\ mie \in SUBSET Interrupts
    /\ deleg \in Delegations
    /\ frames = <<>>
-----------------------------------------------------------------------------
\* compute_pending_interrupts(): the interrupts each level would be asked to handle,
PendingAt(l) ==
    CASE l = M -> (mie \cap mip) \ deleg[M].interrupts
      [] l = S -> (mie \cap mip \cap deleg[M].interrupts) \ deleg[S].interrupts
      [] l = U -> mie \cap mip \cap deleg[M].interrupts \cap deleg[S].interrupts

\* those it would take,
TakenAtWhenever(l) == IF prv <= l THEN PendingAt(l) ELSE {}
TakenAt(l) == IF prv < l \/ (prv = l /\ ie[l]) THEN PendingAt(l) ELSE {}

\* and the level that does: the highest; None if no interrupt is taken.
InterruptLevel ==
    IF TakenAt(M) # {} THEN M
    ELSE IF TakenAt(S) # {} THEN S
    ELSE IF TakenAt(U) # {} THEN U
    ELSE None

\* prepare_interrupt(): the cause it writes.
FirstOf(pending) == CHOOSE i \in pending : \A j \in pending \ {i} : Rank[i] < Rank[j]

\* prepare_trap(): the level that handles an exception.
ExceptionLevelDelegated(e) ==
    IF e \notin deleg[M].exceptions THEN M
    ELSE IF e \notin deleg[S].exceptions THEN S ELSE U
ExceptionLevel(e) ==
    IF prv = M \/ e \notin deleg[M].exceptions THEN M
    ELSE IF prv = S \/ e \notin deleg[S].exceptions THEN S
    ELSE U

\* switch_to_trap_handler() clears the interrupt enable of its level.
Disabled(l) == [ie EXCEPT ![l] = FALSE]

\* switch_to_trap_handler(), with the cause that prepare_interrupt or prepare_trap wrote.
SwitchToTrapHandler(l, why) ==
    /\ prv' = l
    /\ epc' = [epc EXCEPT ![l] = pc]
    /\ pie' = [pie EXCEPT ![l] = ie[l]]
    /\ ie' = Disabled(l)
    /\ pp' = [pp EXCEPT ![l] = IF l = U THEN U ELSE prv]
    /\ cause' = [cause EXCEPT ![l] = why]
    /\ pc' = Len(frames) + 1
    /\ frames' = Append(frames,
           [level |-> l, of |-> [pc |-> pc, prv |-> prv, ie |-> ie[l], cause |-> why],
            copy |-> None])

Handles(l) == frames # <<>> /\ frames[Len(frames)].level = l
Copy == frames[Len(frames)].copy

\* Level l's CSRs are the only copy of a context that is still to be returned to.
Exposed(l) ==
    \E n \in DOMAIN frames : frames[n].level = l /\ frames[n].copy = None

Saved == {n \in DOMAIN frames : frames[n].copy # None}
-----------------------------------------------------------------------------
\* exec_step(): the instruction changes only what is given; traps are looked at next.
Executes == thread = "ready" /\ thread' = "check"

Compute == Executes /\ UNCHANGED <<wfi_event, prv, pc, status, mip, mie, deleg, frames>>

\* set_csr_value() of mie, sie or uie, through the mask of its level.
WriteIe ==
    /\ Executes
    /\ \E v \in SUBSET Interrupts :
           mie' = {i \in Interrupts : IF Home[i] <= prv THEN i \in v ELSE i \in mie}
    /\ UNCHANGED <<wfi_event, prv, pc, status, mip, deleg, frames>>

\* MIP_WRITE_MASK, SIP_MASK and UIP_MASK.
Writable(l) ==
    {i \in Interrupts : IF l = M THEN Home[i] < M ELSE Home[i] <= l /\ i \in Software}

\* set_csr_value() of mip, sip or uip.
WriteIp ==
    /\ Executes
    /\ \E v \in SUBSET Writable(prv) : mip' = (mip \ Writable(prv)) \cup v
    /\ UNCHANGED <<wfi_event, prv, pc, status, mie, deleg, frames>>

\* set_csr_value() of mideleg and medeleg, or of sideleg and sedeleg.
WriteDelegation ==
    /\ Executes
    /\ deleg' \in Delegations
    /\ \A l \in {M, S} : l > prv => deleg'[l] = deleg[l]
    /\ UNCHANGED <<wfi_event, prv, pc, status, mip, mie, frames>>

\* set_csr_value() of mstatus, sstatus or ustatus: the interrupt enable of a level.
WriteStatus ==
    /\ Executes
    /\ \E l \in Levels, b \in BOOLEAN :
        /\ l <= prv
        /\ b => ~Exposed(l)
        /\ ie' = [ie EXCEPT ![l] = b]
    /\ UNCHANGED <<wfi_event, prv, pc, pie, pp, epc, cause, mip, mie, deleg, frames>>

\* A handler stores its trap CSRs.
Save ==
    /\ Executes
    /\ Handles(prv) /\ Copy = None
    /\ Cardinality(Saved) < MaxSaved
    /\ frames' = [frames EXCEPT ![Len(frames)].copy =
           [pc |-> epc[prv], prv |-> pp[prv], ie |-> pie[prv], cause |-> cause[prv]]]
    /\ UNCHANGED <<wfi_event, prv, pc, status, mip, mie, deleg>>

\* Having disabled the interrupts of its level, it writes them back.
Restore ==
    /\ Executes
    /\ Handles(prv) /\ Copy # None /\ ~ie[prv]
    /\ epc' = [epc EXCEPT ![prv] = Copy.pc]
    /\ pp' = [pp EXCEPT ![prv] = Copy.prv]
    /\ pie' = [pie EXCEPT ![prv] = Copy.ie]
    /\ cause' = [cause EXCEPT ![prv] = Copy.cause]
    /\ frames' = [frames EXCEPT ![Len(frames)].copy = None]
    /\ UNCHANGED <<wfi_event, prv, pc, ie, mip, mie, deleg>>

\* The level return_from_trap_handler(l) returns to.
ReturnLevel(l) == IF l = U THEN U ELSE pp[l]

\* MRET, SRET and URET, on a hart with user mode.
Return ==
    /\ Executes
    /\ Handles(prv) /\ Copy = None
    /\ prv' = ReturnLevel(prv)
    /\ ie' = [ie EXCEPT ![prv] = pie[prv]]
    /\ pie' = [pie EXCEPT ![prv] = TRUE]
    /\ pp' = [pp EXCEPT ![prv] = U]
    /\ pc' = epc[prv]
    /\ frames' = SubSeq(frames, 1, Len(frames) - 1)
    /\ UNCHANGED <<wfi_event, epc, cause, mip, mie, deleg>>

\* has_local_pending_enabled_interrupts() looks at no global enable and no level.
MaySleepMasked == InterruptLevel = None
MaySleep == mie \cap mip = {}

\* WFI: illegal in user mode; it waits for wfi_event at most once.
Wfi ==
    /\ thread = "ready" /\ prv # U
    /\ thread' = IF MaySleep THEN "asleep" ELSE "check"
    /\ UNCHANGED <<wfi_event, prv, pc, status, mip, mie, deleg, frames>>

\* An instruction raises a SimulationTrap, and run_step takes it.
Exception ==
    /\ thread = "ready"
    /\ \E e \in Exceptions :
        /\ ~Exposed(ExceptionLevel(e))
        /\ SwitchToTrapHandler(ExceptionLevel(e), e)
    /\ UNCHANGED <<thread, wfi_event, mip, mie, deleg>>

\* run_step() after an instruction that did not trap.
CheckInterrupts ==
    /\ thread = "check"
    /\ thread' = "ready"
    /\ IF InterruptLevel # None
       THEN SwitchToTrapHandler(InterruptLevel, FirstOf(TakenAt(InterruptLevel)))
       ELSE UNCHANGED <<prv, pc, status, frames>>
    /\ UNCHANGED <<wfi_event, mip, mie, deleg>>

\* trigger_external_interrupt(), and the other triggers with status TRUE.
TriggerSilently(i) ==
    /\ thread # "check"
    /\ mip' = mip \cup {i}
    /\ UNCHANGED <<thread, wfi_event, prv, pc, status, mie, deleg, frames>>

Trigger(i) ==
    /\ thread # "check"
    /\ mip' = mip \cup {i}
    /\ wfi_event' = TRUE
    /\ UNCHANGED <<thread, prv, pc, status, mie, deleg, frames>>

\* clear_external_interrupt() does not notify; with status FALSE the others do.
Clear(i) ==
    /\ thread # "check"
    /\ mip' = mip \ {i}
    /\ wfi_event' = (wfi_event \/ i \in Local)
    /\ UNCHANGED <<thread, prv, pc, status, mie, deleg, frames>>

\* The delta cycle that resumes whoever waits on wfi_event.
DeltaNotify ==
    /\ thread # "check" /\ wfi_event
    /\ wfi_event' = FALSE
    /\ thread' = IF thread = "asleep" THEN "check" ELSE thread
    /\ UNCHANGED <<prv, pc, status, mip, mie, deleg, frames>>

Step ==
    \/ Compute \/ WriteIe \/ WriteIp \/ WriteDelegation \/ WriteStatus
    \/ Save \/ Restore \/ Return \/ Wfi \/ Exception
Devices == \E i \in External \cup Local : Trigger(i) \/ Clear(i)

Next == Step \/ CheckInterrupts \/ DeltaNotify \/ Devices

Spec == Init /\ [][Next]_vars

(***************************************************************************)
(* The kernel runs a thread that can run, in fairness with the devices.    *)
(***************************************************************************)
FairSpec ==
    /\ Spec
    /\ WF_vars(Step) /\ WF_vars(CheckInterrupts) /\ WF_vars(DeltaNotify)
-----------------------------------------------------------------------------
(* What a nested trap must not destroy: while a context waits to be returned to,
   the CSRs of its handler's level, or the copy that handler saved of them, hold
   where and how to return (switch_to_trap_handler overwrites xepc, xPIE, xPP and
   xcause of its target level only, and clears xIE). *)
ContextsAreKept ==
    \A n \in DOMAIN frames :
        LET f == frames[n] IN
        IF f.copy # None THEN f.copy = f.of
        ELSE /\ epc[f.level] = f.of.pc
             /\ pie[f.level] = f.of.ie
             /\ cause[f.level] = f.of.cause
             /\ pp[f.level] = f.of.prv

(* Every xRET goes back to the code that its handler interrupted: what executes is
   always the innermost context that has not been left. *)
RunsTheInnermost == pc = Len(frames)

(* Both: nested traps unwind in order, each to the place it interrupted. *)
NestingUnwinds == ContextsAreKept /\ RunsTheInnermost

(* No wake-up from WFI is lost: a hart does not sleep with an enabled interrupt
   pending unless its notification is on the way (the trigger functions). *)
NoLostWakeup == thread = "asleep" /\ mie \cap mip # {} => wfi_event

(* A trap never lowers the privilege level, whatever is delegated (prepare_trap,
   compute_pending_interrupts), and a return never raises it. *)
TrapsKeepPrivilege ==
    [][/\ Len(frames') > Len(frames) => prv' >= prv
       /\ Len(frames') < Len(frames) => prv' <= prv]_vars

(* The hart catches up with its interrupts: one that would be taken does not stay
   so for ever, it is taken, or a device or software withdraws it, even if the hart
   sleeps in WFI or runs into exceptions (run_step looks at interrupts only after
   an instruction that raised none). *)
CatchesUp == InterruptLevel # None ~> InterruptLevel = None
=============================================================================
