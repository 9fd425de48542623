--------------------------- MODULE FU540PlicProof ---------------------------
(***************************************************************************)
(* What FU540Plic promises for every number of harts and interrupts, and   *)
(* every way software sets priorities, enables and thresholds.             *)
(***************************************************************************)
EXTENDS FU540Plic, TLAPS

\* Only the contexts in use have interrupts enabled, and they serve in their handlers.
SoftwareInv ==
    /\ \A c \in Contexts \ Used : enabled[c] = {}
    /\ \A c \in Contexts : serving[c] # 0 => c \in handler

\* What c is to be told of is raised, being claimed, about to be looked at, or unannounced.
Announced(c) ==
    c \in eip \cup handler \/ e_run \/ \A i \in Deliverable(c) : <<c, i>> \in unannounced

\* A raised context that is not serving has something to claim.
Worthwhile(c) == c \in eip /\ serving[c] = 0 /\ Alone(c) => Candidates(c) # {}

IInv ==
    /\ TypeOK
    /\ SoftwareInv
    /\ OneLevelPerHart /\ ~aborted => \A c \in Contexts : Announced(c)
    /\ ~dynamic => \A c \in Contexts : Worthwhile(c)

LEMMA ConstantTypes ==
    /\ NUMIRQ \in Nat /\ MAX_PRIO \in Nat /\ MAX_THR \in Nat
    /\ Used \subseteq Contexts /\ Devices \subseteq Irqs /\ Written \subseteq Nat
    /\ Masks \subseteq SUBSET Devices /\ Reconfigures \subseteq BOOLEAN
    /\ 0 \notin Irqs
  BY FU540PlicAssumption DEF FU540PlicAssumption, Irqs

\* Clamping yields a value within the bound.
LEMMA ClampedType == ASSUME NEW v \in Nat, NEW max \in Nat PROVE Clamped(v, max) \in 0 .. max
  BY DEF Clamped

\* What is deliverable is enabled, pending and an interrupt.
LEMMA CandidatesAreInterrupts ==
    ASSUME TypeOK, NEW c \in Contexts
    PROVE  /\ Deliverable(c) \subseteq Candidates(c)
           /\ Candidates(c) \subseteq enabled[c] \cap pending
           /\ enabled[c] \cap pending \subseteq Irqs
  BY DEF TypeOK, Deliverable, Candidates

LEMMA InitIInv == Init => IInv
  <1> SUFFICES ASSUME Init PROVE IInv
    OBVIOUS
  <1>1. /\ priorities \in [Words -> 0 .. MAX_PRIO]
        /\ threshold \in [Contexts -> 0 .. MAX_THR]
        /\ enabled \in [Contexts -> SUBSET Irqs]
        /\ \A c \in Contexts \ Used : enabled[c] = {}
    <2>1. CASE dynamic
      BY <2>1, ConstantTypes DEF Init
    <2>2. CASE ~dynamic
      <3>1. {Clamped(v, MAX_PRIO) : v \in Written} \subseteq 0 .. MAX_PRIO
        BY ConstantTypes, ClampedType
      <3>2. {Clamped(v, MAX_THR) : v \in Written} \subseteq 0 .. MAX_THR
        BY ConstantTypes, ClampedType
      <3>3. SUBSET Devices \subseteq SUBSET Irqs
        BY ConstantTypes
      <3> QED
        BY <2>2, <3>1, <3>2, <3>3 DEF Init
    <2> QED
      BY <2>1, <2>2
  <1>2. TypeOK
    BY <1>1, ConstantTypes DEF Init, TypeOK
  <1>3. SoftwareInv
    BY <1>1 DEF Init, SoftwareInv
  <1>4. ASSUME NEW c \in Contexts PROVE Announced(c) /\ Worthwhile(c)
    BY DEF Init, Announced, Worthwhile, Deliverable, Candidates
  <1> QED
    BY <1>2, <1>3, <1>4 DEF IInv

\* Every step leaves the registers and the contexts in their types.
LEMMA NextTypeOK == TypeOK /\ [Next]_vars => TypeOK'
  <1> SUFFICES ASSUME TypeOK, [Next]_vars PROVE TypeOK'
    OBVIOUS
  <1> USE ConstantTypes DEF TypeOK
  <1>1. ASSUME NEW i \in Devices, GatewayTrigger(i) PROVE TypeOK'
    BY <1>1 DEF GatewayTrigger, config, software
  <1>2. CASE Run
    <2>1. Told \subseteq Contexts
      BY DEF Told, HasDeliverable
    <2> QED
      BY <1>2, <2>1 DEF Run, config, software
  <1>3. ASSUME NEW c \in Used, TakeInterrupt(c) PROVE TypeOK'
    BY <1>3 DEF TakeInterrupt, config
  <1>4. ASSUME NEW c \in Used, Claim(c) PROVE TypeOK'
    <2>1. CASE OutOfRange(c)
      BY <1>4, <2>1 DEF Claim, config, software
    <2>2. CASE ~OutOfRange(c)
      BY <1>4, <2>2 DEF Claim, Cleared, config
    <2> QED
      BY <2>1, <2>2
  <1>5. ASSUME NEW c \in Used, Complete(c) PROVE TypeOK'
    BY <1>5 DEF Complete, Lowered, config
  <1>6. ASSUME Configured
        PROVE  /\ UNCHANGED <<pending, eip, e_run, handler, serving, dynamic, aborted>>
               /\ unannounced' \subseteq Contexts \X Irqs
    BY <1>6 DEF Configured, software
  <1>7. ASSUME NEW i \in Irqs, NEW v \in Written, WritePriority(i, v) PROVE TypeOK'
    <2>1. priorities' \in [Words -> 0 .. MAX_PRIO]
      BY <1>7, ClampedType DEF WritePriority
    <2> QED
      BY <1>6, <1>7, <2>1 DEF WritePriority
  <1>8. ASSUME NEW c \in Used, NEW s \in Masks, WriteEnabled(c, s) PROVE TypeOK'
    <2>1. s \in SUBSET Irqs
      OBVIOUS
    <2>2. enabled' \in [Contexts -> SUBSET Irqs]
      BY <1>8, <2>1 DEF WriteEnabled
    <2> QED
      BY <1>6, <1>8, <2>2 DEF WriteEnabled
  <1>9. ASSUME NEW c \in Used, NEW v \in Written, WriteThreshold(c, v) PROVE TypeOK'
    <2>1. threshold' \in [Contexts -> 0 .. MAX_THR]
      BY <1>9, ClampedType DEF WriteThreshold
    <2> QED
      BY <1>6, <1>9, <2>1 DEF WriteThreshold
  <1>10. CASE UNCHANGED vars
    BY <1>10 DEF vars, config, software
  <1> QED
    BY <1>1, <1>2, <1>3, <1>4, <1>5, <1>7, <1>8, <1>9, <1>10 DEF Next, Software

LEMMA NextSoftwareInv == TypeOK /\ SoftwareInv /\ [Next]_vars => SoftwareInv'
  <1> SUFFICES ASSUME TypeOK, SoftwareInv, [Next]_vars PROVE SoftwareInv'
    OBVIOUS
  <1> USE ConstantTypes DEF TypeOK, SoftwareInv
  <1>1. ASSUME UNCHANGED <<enabled, software>> PROVE SoftwareInv'
    BY <1>1 DEF software
  <1>2. ASSUME NEW c \in Used, TakeInterrupt(c) PROVE SoftwareInv'
    BY <1>2 DEF TakeInterrupt, config
  <1>3. ASSUME NEW c \in Used, Claim(c) PROVE SoftwareInv'
    <2>1. CASE OutOfRange(c)
      BY <1>3, <2>1 DEF Claim, config, software
    <2>2. CASE ~OutOfRange(c)
      BY <1>3, <2>2 DEF Claim, config
    <2> QED
      BY <2>1, <2>2
  <1>4. ASSUME NEW c \in Used, Complete(c) PROVE SoftwareInv'
    BY <1>4 DEF Complete, config
  <1>5. ASSUME NEW c \in Used, NEW s \in Masks, WriteEnabled(c, s) PROVE SoftwareInv'
    BY <1>5 DEF WriteEnabled, Configured, software
  <1>6. ASSUME (\E i \in Devices : GatewayTrigger(i)) \/ Run \/ UNCHANGED vars
               \/ (\E i \in Irqs, v \in Written : WritePriority(i, v))
               \/ (\E c \in Used, v \in Written : WriteThreshold(c, v))
        PROVE  UNCHANGED <<enabled, software>>
    BY <1>6 DEF GatewayTrigger, Run, WritePriority, WriteThreshold, Configured, vars, config, software
  <1> QED
    BY <1>1, <1>2, <1>3, <1>4, <1>5, <1>6 DEF Next, Software

\* While each hart serves one level, run() tells every context that has something.
LEMMA EveryoneIsTold ==
    ASSUME TypeOK, SoftwareInv, OneLevelPerHart
    PROVE  Told = HasDeliverable
  <1> SUFFICES ASSUME NEW c \in HasDeliverable, c[2] = "M", <<c[1], "S">> \in HasDeliverable
               PROVE  FALSE
    BY DEF Told
  <1> DEFINE s == <<c[1], "S">>
  <1>1. c \in Contexts /\ s \in Contexts /\ Deliverable(c) # {} /\ Deliverable(s) # {}
    BY DEF HasDeliverable
  <1>2. c \in Used /\ s \in Used
    BY <1>1, CandidatesAreInterrupts DEF SoftwareInv
  <1>3. c = s
    BY <1>2 DEF OneLevelPerHart
  <1> QED
    BY <1>3

\* A claim takes a candidate, or there is none.
LEMMA ClaimTakesNext ==
    ASSUME TypeOK, NEW c \in Contexts, NEW i \in Irqs \cup {0}, IsNext(i, Candidates(c))
    PROVE  IF i = 0 THEN Candidates(c) = {} /\ Cleared(i) = pending
                    ELSE i \in Candidates(c) /\ i \in Irqs
  BY CandidatesAreInterrupts, ConstantTypes DEF IsNext, Cleared, TypeOK

\* Without a register write and a new trigger nothing becomes deliverable.
LEMMA FewerPendingFewerDeliverable ==
    ASSUME UNCHANGED config, pending' \subseteq pending, NEW c \in Contexts
    PROVE  /\ Deliverable(c)' = Deliverable(c) \cap pending'
           /\ Candidates(c)' = Candidates(c) \cap pending'
  BY DEF Deliverable, Candidates, Passes, config

LEMMA NextAnnounced ==
    IInv /\ [Next]_vars => (OneLevelPerHart /\ ~aborted => \A c \in Contexts : Announced(c))'
  <1> SUFFICES ASSUME IInv, [Next]_vars, OneLevelPerHart, ~aborted', NEW c \in Contexts
               PROVE  Announced(c)'
    BY DEF OneLevelPerHart
  <1> USE ConstantTypes DEF IInv
  <1>0. ~aborted
    BY DEF Next, vars
  <1>1. Announced(c)
    BY <1>0
  <1>2. CASE \E i \in Devices : GatewayTrigger(i)
    BY <1>2 DEF GatewayTrigger, Announced
  <1>3. CASE Run
    <2>1. /\ eip' = eip \cup HasDeliverable
          /\ UNCHANGED <<config, pending>>
      BY <1>3, EveryoneIsTold DEF Run
    <2>2. Deliverable(c)' = Deliverable(c) \cap pending
      BY <2>1, FewerPendingFewerDeliverable
    <2> QED
      BY <2>1, <2>2 DEF Announced, HasDeliverable
  <1>4. ASSUME NEW d \in Used, TakeInterrupt(d) PROVE Announced(c)'
    <2>1. Deliverable(c)' = Deliverable(c)
      BY <1>4 DEF TakeInterrupt, config, Deliverable, Candidates, Passes
    <2> QED
      BY <1>1, <1>4, <2>1 DEF TakeInterrupt, Announced
  <1>5. ASSUME NEW d \in Used, Claim(d) PROVE Announced(c)'
    <2>1. PICK i \in Irqs \cup {0} :
             /\ IsNext(i, Candidates(d))
             /\ pending' = Cleared(i)
             /\ handler' = IF i = 0 THEN handler \ {d} ELSE handler
             /\ unannounced' = {u \in unannounced : u[2] # i}
             /\ UNCHANGED <<config, eip, e_run>>
      BY <1>0, <1>5 DEF Claim
    <2>2. /\ Deliverable(c)' = Deliverable(c) \cap pending'
          /\ Deliverable(c) \subseteq Irqs
      BY <2>1, FewerPendingFewerDeliverable, CandidatesAreInterrupts DEF Cleared
    <2>3. CASE i = 0 /\ c = d
      BY <2>1, <2>2, <2>3, ClaimTakesNext, CandidatesAreInterrupts DEF Announced
    <2>4. CASE ~(i = 0 /\ c = d)
      <3>1. c \in eip \cup handler => c \in eip' \cup handler'
        BY <2>1, <2>4
      <3>2. \A j \in Deliverable(c)' : j \in Deliverable(c) /\ j # i
        BY <2>1, <2>2 DEF Cleared
      <3> QED
        BY <1>1, <2>1, <3>1, <3>2 DEF Announced
    <2> QED
      BY <2>3, <2>4
  <1>6. ASSUME NEW d \in Used, Complete(d) PROVE Announced(c)'
    <2>1. Deliverable(c)' = Deliverable(c)
      BY <1>6 DEF Complete, config, Deliverable, Candidates, Passes
    <2>2. d \in handler
      BY <1>6 DEF Complete, SoftwareInv
    <2> QED
      BY <1>1, <1>6, <2>1, <2>2 DEF Complete, Lowered, Announced
  <1>7. CASE Configured
    <2>1. Deliverable(c)' \subseteq Irqs
      BY NextTypeOK DEF Deliverable, Candidates, TypeOK
    <2>2. ASSUME ~e_run, c \notin eip \cup handler, NEW i \in Deliverable(c)'
          PROVE  <<c, i>> \in unannounced'
      <3>1. <<c, i>> \in Contexts \X Irqs
        BY <2>1, <2>2
      <3>2. i \in Deliverable(c) => <<c, i>> \in unannounced
        BY <1>1, <2>2 DEF Announced
      <3> QED
        BY <1>7, <2>2, <3>1, <3>2 DEF Configured
    <2> QED
      BY <1>7, <2>2 DEF Announced, Configured, software
  <1>8. CASE UNCHANGED vars
    BY <1>1, <1>8 DEF vars, config, software, Announced, Deliverable, Candidates, Passes
  <1> QED
    BY <1>2, <1>3, <1>4, <1>5, <1>6, <1>7, <1>8
       DEF Next, Software, WritePriority, WriteEnabled, WriteThreshold

LEMMA NextWorthwhile ==
    IInv /\ [Next]_vars => (~dynamic => \A c \in Contexts : Worthwhile(c))'
  <1> SUFFICES ASSUME IInv, [Next]_vars, ~dynamic', NEW c \in Contexts PROVE Worthwhile(c)'
    OBVIOUS
  <1> USE ConstantTypes DEF IInv
  <1>0. ~dynamic
    BY DEF Next, vars, GatewayTrigger, Run, Software, TakeInterrupt, Claim, Complete,
           WritePriority, WriteEnabled, WriteThreshold, Configured
  <1>1. Worthwhile(c)
    BY <1>0
  <1>2. UNCHANGED config
    BY <1>0 DEF Next, vars, GatewayTrigger, Run, Software, TakeInterrupt, Claim, Complete,
                WritePriority, WriteEnabled, WriteThreshold, Configured
  <1>3. Alone(c)' => Alone(c)
    BY <1>2 DEF Alone, config
  <1>4. CASE \E i \in Devices : GatewayTrigger(i)
    BY <1>1, <1>2, <1>3, <1>4 DEF GatewayTrigger, Worthwhile, Candidates, config, software
  <1>5. CASE Run
    <2>1. Candidates(c)' = Candidates(c)
      BY <1>2, <1>5 DEF Run, Candidates, config
    <2>2. c \in eip' \ eip => Candidates(c) # {}
      <3>1. c \in eip' \ eip => c \in HasDeliverable
        BY <1>5 DEF Run, Told
      <3> QED
        BY <3>1, CandidatesAreInterrupts DEF HasDeliverable
    <2> QED
      BY <1>1, <1>3, <1>5, <2>1, <2>2 DEF Run, Worthwhile, software
  <1>6. ASSUME NEW d \in Used, TakeInterrupt(d) PROVE Worthwhile(c)'
    BY <1>1, <1>2, <1>3, <1>6 DEF TakeInterrupt, Worthwhile, Candidates, config
  <1>7. ASSUME NEW d \in Used, Claim(d) PROVE Worthwhile(c)'
    <2>1. CASE OutOfRange(d)
      BY <1>1, <1>2, <1>3, <1>7, <2>1 DEF Claim, Worthwhile, Candidates, config, software
    <2>2. CASE ~OutOfRange(d)
      <3>1. PICK i \in Irqs \cup {0} :
               /\ IsNext(i, Candidates(d))
               /\ pending' = Cleared(i)
               /\ serving' = [serving EXCEPT ![d] = i]
               /\ eip' = eip
        BY <1>7, <2>2 DEF Claim
      <3>2. Candidates(c)' = Candidates(c) \cap pending'
        BY <1>2, <3>1, FewerPendingFewerDeliverable DEF Cleared
      <3>3. serving[d] = 0 /\ serving'[d] = i
        BY <1>7, <3>1 DEF Claim, TypeOK
      <3>4. CASE c = d
        BY <1>1, <1>3, <3>1, <3>2, <3>3, <3>4, ClaimTakesNext DEF Worthwhile
      <3>5. CASE c # d
        <4>1. Alone(c) => i \notin Candidates(c)
          BY <3>1, <3>5, ClaimTakesNext, CandidatesAreInterrupts DEF Alone
        <4>2. serving'[c] = serving[c]
          BY <3>1, <3>5 DEF TypeOK
        <4>3. Alone(c) => Candidates(c)' = Candidates(c)
          BY <3>1, <3>2, <4>1, CandidatesAreInterrupts DEF Cleared
        <4> QED
          BY <1>1, <1>3, <3>1, <4>2, <4>3 DEF Worthwhile
      <3> QED
        BY <3>4, <3>5
    <2> QED
      BY <2>1, <2>2
  <1>8. ASSUME NEW d \in Used, Complete(d) PROVE Worthwhile(c)'
    BY <1>1, <1>2, <1>3, <1>8 DEF Complete, Lowered, Worthwhile, Candidates, config, TypeOK
  <1>9. CASE UNCHANGED vars
    BY <1>1, <1>2, <1>3, <1>9 DEF vars, Worthwhile, Candidates, config, software
  <1> QED
    BY <1>0, <1>4, <1>5, <1>6, <1>7, <1>8, <1>9
       DEF Next, Software, WritePriority, WriteEnabled, WriteThreshold, Configured

\* The invariant holds in every state the controller can reach.
LEMMA Inductive == Spec => []IInv
  <1>1. IInv /\ [Next]_vars => IInv'
    BY NextTypeOK, NextSoftwareInv, NextAnnounced, NextWorthwhile DEF IInv
  <1> QED
    BY InitIInv, <1>1, PTL DEF Spec

(* The registers stay in range: what transport() writes to a priority or a
   threshold is clamped. *)
THEOREM TypeCorrect == Spec => []TypeOK
  <1>1. IInv => TypeOK
    BY DEF IInv
  <1> QED
    BY Inductive, <1>1, PTL

(* A completion, which lowers the interrupt without looking for another
   (fu540_plic.cpp:139), and run(), which names only one level of a hart, lose
   no interrupt of a hart that serves one level; and no handler is entered in
   vain, however many contexts, priorities and thresholds there are. *)
THEOREM InterruptsAreRaisedWhenDue == Spec => []RaisedWhenDue
  <1>1. IInv => NoLostInterrupt
    BY DEF IInv, NoLostInterrupt, Announced
  <1>2. IInv => NoInterruptStorm
    <2> SUFFICES ASSUME IInv, ~dynamic, NEW c \in eip \ handler, Alone(c)
                 PROVE  Candidates(c) # {}
      BY DEF NoInterruptStorm
    <2>1. c \in Contexts /\ Worthwhile(c)
      BY DEF IInv, TypeOK
    <2>2. serving[c] = 0
      BY <2>1 DEF IInv, SoftwareInv
    <2> QED
      BY <2>1, <2>2 DEF Worthwhile
  <1> QED
    BY Inductive, <1>1, <1>2, PTL DEF RaisedWhenDue

(* A claim hands out an interrupt only after a trigger, and consumes it. *)
THEOREM ClaimsConsume == Spec => ClaimNeedsTrigger
  <1>1. ASSUME IInv, [Next]_vars
        PROVE  [\A c \in Contexts, i \in Irqs :
                   serving'[c] = i /\ serving[c] # i => i \in pending /\ i \notin pending']_vars
    <2> SUFFICES ASSUME NEW c \in Contexts, NEW i \in Irqs, serving'[c] = i, serving[c] # i
                 PROVE  i \in pending /\ i \notin pending'
      OBVIOUS
    <2>0. TypeOK /\ serving \in [Contexts -> {0} \cup Irqs]
      BY <1>1 DEF IInv, TypeOK
    <2>1. ASSUME NEW d \in Used, Claim(d) PROVE i \in pending /\ i \notin pending'
      <3>1. ~OutOfRange(d)
        BY <2>1 DEF Claim, software
      <3>2. PICK k \in Irqs \cup {0} :
               /\ IsNext(k, Candidates(d))
               /\ pending' = Cleared(k)
               /\ serving' = [serving EXCEPT ![d] = k]
        BY <2>1, <3>1 DEF Claim
      <3>3. k = i /\ k # 0 /\ d \in Contexts
        BY <2>0, <3>2, ConstantTypes
      <3>4. i \in Candidates(d)
        BY <2>0, <3>2, <3>3, ClaimTakesNext
      <3> QED
        BY <3>2, <3>3, <3>4 DEF Candidates, Cleared
    <2>2. ASSUME NEW d \in Used, Complete(d) PROVE FALSE
      BY <2>0, <2>2, ConstantTypes DEF Complete
    <2>3. ASSUME serving' = serving PROVE FALSE
      BY <2>3
    <2> QED
      BY <1>1, <2>1, <2>2, <2>3
         DEF Next, GatewayTrigger, Run, WritePriority, Software, TakeInterrupt, WriteEnabled,
             WriteThreshold, Configured, software, vars
  <1> QED
    BY Inductive, <1>1, PTL DEF Spec, ClaimNeedsTrigger
=============================================================================
