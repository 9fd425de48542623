------------------------------ MODULE FE310Plic ------------------------------
(***************************************************************************)
(* The interrupt controller of the bare-metal platforms and its only hart  *)
(* (vp/src/platform/common/fe310_plic.h), with the software that claims    *)
(* and completes interrupts.  `e_run' says that the event which wakes the  *)
(* run() thread is notified: run() executes 10 ns after the gateway, and   *)
(* the hart performs any number of accesses before that, because it runs   *)
(* ahead of the SystemC time until its quantum is used up.                 *)
(***************************************************************************)
EXTENDS Integers

CONSTANTS NumberInterrupts,  \* the interrupts are 1 .. NumberInterrupts - 1
          MaxPriority,
          WrittenValues,     \* what software writes to priorities and threshold
          Polls,             \* software reads the claim register unprompted
          Nests,             \* software claims before it has completed
          Reconfigures       \* FALSE: software configures the controller before the
                             \* first interrupt, TRUE: at any time

ASSUME FE310PlicAssumption ==
    /\ NumberInterrupts \in Nat \ {0}
    /\ MaxPriority \in Nat \ {0}
    /\ WrittenValues \subseteq Nat
    /\ Polls \in BOOLEAN /\ Nests \in BOOLEAN
    /\ Reconfigures \subseteq BOOLEAN

Ids == 1 .. NumberInterrupts - 1

VARIABLES priority,      \* interrupt_priorities
          pending,       \* the bits of pending_interrupts
          enabled,       \* the bits of hart_enabled_interrupts
          threshold,     \* priority_threshold
          hart_eip,      \* what the controller believes of the hart
          meip,          \* the bit of the hart's mip
          e_run,         \* e_run is notified
          claimed,       \* ids software has claimed (0: none) and not completed
          dynamic,       \* which of Reconfigures it is
          unannounced,   \* ids a register write has made deliverable (history)
          aborted        \* an assert has failed

config == <<priority, enabled, threshold>>
vars == <<config, pending, hart_eip, meip, e_run, claimed, dynamic, unannounced, aborted>>

TypeOK ==
    /\ priority \in [Ids -> 0 .. MaxPriority]
    /\ pending \subseteq Ids
    /\ enabled \subseteq Ids
    /\ threshold \in WrittenValues \cup {0}
    /\ hart_eip \in BOOLEAN
    /\ meip \in BOOLEAN
    /\ e_run \in BOOLEAN
    /\ claimed \subseteq Ids \cup {0}
    /\ dynamic \in BOOLEAN
    /\ unannounced \subseteq Ids
    /\ aborted \in BOOLEAN

Init ==
    /\ dynamic \in Reconfigures
    /\ IF dynamic
       THEN priority = [i \in Ids |-> 1] /\ enabled = {} /\ threshold = 0
       ELSE /\ priority \in [Ids -> 0 .. MaxPriority]
            /\ enabled \in SUBSET Ids
            /\ threshold \in WrittenValues \cup {0}
    /\ pending = {}
    /\ hart_eip = FALSE
    /\ meip = FALSE
    /\ e_run = FALSE
    /\ claimed = {}
    /\ unannounced = {}
    /\ aborted = FALSE
-----------------------------------------------------------------------------
Claimable == {i \in enabled \cap pending : priority[i] > 0}

\* The interrupts the hart is to be told of, under a given configuration.
DeliverableIn(p, e, t) == {i \in e \cap pending : p[i] > 0 /\ p[i] > t}
Deliverable == DeliverableIn(priority, enabled, threshold)

\* The loop of hart_get_next_pending_interrupt up to id i, over candidates C.
Beats(p, q) == p > q

Scan(C) ==
    LET scan[i \in 0 .. NumberInterrupts - 1] ==
            IF i = 0 THEN [min_id |-> 0, max_priority |-> 0]
            ELSE IF i \in C /\ Beats(priority[i], scan[i - 1].max_priority)
                 THEN [min_id |-> i, max_priority |-> priority[i]]
                 ELSE scan[i - 1]
    IN  scan[NumberInterrupts - 1].min_id

\* What that loop computes: of the highest priority the lowest id, 0 for none.
IsNext(i, C) ==
    \/ /\ i \in C
       /\ \A j \in C : \/ priority[j] < priority[i]
                       \/ priority[j] = priority[i] /\ i <= j
    \/ i = 0 /\ C = {}

\* A non-queued edge trigger.
GatewayTrigger(i) ==
    /\ pending' = pending \cup {i}
    /\ e_run' = TRUE
    /\ UNCHANGED <<config, hart_eip, meip, claimed, dynamic, unannounced, aborted>>

\* trigger_external_interrupt, and the note that it has been called.
RaiseUnnoted == meip' = TRUE /\ hart_eip' = hart_eip
Raise == meip' = TRUE /\ hart_eip' = TRUE

Run ==
    /\ e_run
    /\ e_run' = FALSE
    /\ IF ~hart_eip /\ Deliverable # {}
       THEN Raise
       ELSE UNCHANGED <<hart_eip, meip>>
    /\ unannounced' = {}
    /\ UNCHANGED <<config, pending, claimed, dynamic, aborted>>

\* pre_read_hart_config: the threshold plays no role in a claim.
AfterClaim(i) == pending \ {i}

Claim(i) ==
    /\ Polls \/ meip
    /\ Nests \/ claimed = {}
    /\ IsNext(i, Claimable)
    /\ pending' = AfterClaim(i)
    /\ claimed' = claimed \cup {i}
    /\ unannounced' = unannounced \ {i}
    /\ UNCHANGED <<config, hart_eip, meip, e_run, dynamic, aborted>>

\* post_write_hart_config: the value written is ignored, and the interrupt
\* stays raised, or is lowered if nothing is left to deliver.
StaysRaisedNever == FALSE
StaysRaised == Deliverable # {}

Complete(i) ==
    /\ i \in claimed
    /\ claimed' = claimed \ {i}
    /\ IF StaysRaised
       THEN IF hart_eip
            THEN meip' = TRUE /\ UNCHANGED <<hart_eip, aborted>>
            ELSE aborted' = TRUE /\ UNCHANGED <<hart_eip, meip>>
       ELSE hart_eip' = FALSE /\ meip' = FALSE /\ aborted' = aborted
    /\ unannounced' = {}
    /\ UNCHANGED <<config, pending, e_run, dynamic>>

\* No register write but that of a completion makes run() look again.
Configured ==
    /\ unannounced' = (unannounced \cup
          (DeliverableIn(priority', enabled', threshold') \ Deliverable))
             \cap DeliverableIn(priority', enabled', threshold')
    /\ UNCHANGED <<pending, hart_eip, meip, e_run, claimed, dynamic, aborted>>

Clamped(v) == IF v > MaxPriority THEN MaxPriority ELSE v

WritePriority(i, v) ==
    /\ dynamic
    /\ priority' = [priority EXCEPT ![i] = Clamped(v)]
    /\ UNCHANGED <<enabled, threshold>>
    /\ Configured

WriteEnabled(e) ==
    /\ dynamic
    /\ enabled' = e
    /\ UNCHANGED <<priority, threshold>>
    /\ Configured

WriteThreshold(v) ==
    /\ dynamic
    /\ threshold' = v
    /\ UNCHANGED <<priority, enabled>>
    /\ Configured

Hardware == Run \/ \E i \in Ids : GatewayTrigger(i)

Software ==
    \/ \E i \in Ids \cup {0} : Claim(i) \/ Complete(i)
    \/ \E i \in Ids, v \in WrittenValues : WritePriority(i, v)
    \/ \E e \in SUBSET Ids : WriteEnabled(e)
    \/ \E v \in WrittenValues : WriteThreshold(v)

Next == ~aborted /\ (Hardware \/ Software)

Spec == Init /\ [][Next]_vars

\* The kernel reaches the time of e_run; the hart takes an enabled interrupt,
\* and its handler claims and completes.
Fairness ==
    /\ WF_vars(Run)
    /\ WF_vars(\E i \in Ids \cup {0} : Claim(i))
    /\ WF_vars(\E i \in Ids \cup {0} : Complete(i))

FairSpec == Spec /\ Fairness
-----------------------------------------------------------------------------
(* An interrupt that the hart is to be told of has raised meip or e_run will
   make run() look at it, whatever the order of triggers, claims, completions
   and register writes; only a register write can leave one unannounced. *)
NoLostInterrupt ==
    ~aborted => e_run \/ meip \/ Deliverable \subseteq unannounced

(* The assert in post_write_hart_config: the hart has been told of an
   interrupt that is left at a completion. *)
NoAssertFails == ~aborted

(* An interrupt that is in service is not handed out again, unless its device
   has triggered it again. *)
ClaimNeedsTrigger ==
    [][\A i \in Ids : i \in claimed' \ claimed => i \in pending /\ i \notin pending']_vars

(* Of a controller that is left alone, the enabled interrupt that comes first
   by its priority and its id is claimed once it is triggered. *)
FirstIsServed ==
    \A i \in Ids :
        ~dynamic /\ i \in Deliverable /\ IsNext(i, enabled) ~> i \in claimed
=============================================================================
