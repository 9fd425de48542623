---------------------------- MODULE PlatformProof ----------------------------
(***************************************************************************)
(* What FE310Plic promises for every number of interrupts, every priority  *)
(* and every way software uses it, and what only an interrupt-driven       *)
(* handler, which claims once for a raised interrupt, may rely on.  Then   *)
(* the same with the devices of Platform around it, and what these promise *)
(* the driver of the DMA controller, the handler of a pin, and the program *)
(* outside of the simulator that watches a pin.                            *)
(***************************************************************************)
EXTENDS Platform, FiniteSetTheorems, TLAPS

\* The controller's note agrees with the hart's mip, and an id no register
\* write has made deliverable is raised or about to be looked at.
Announced ==
    /\ hart_eip = meip
    /\ ~aborted => e_run \/ hart_eip \/ Deliverable \subseteq unannounced

\* A handler that claims once per interrupt completes while it is raised.
HandlerInv ==
    ~Polls /\ ~Nests =>
        /\ ~aborted
        /\ claimed # {} => hart_eip
        /\ \A i, j \in claimed : i = j

\* Clamping yields a legal priority.
LEMMA ClampedType == ASSUME NEW v \in Nat PROVE Clamped(v) \in 0 .. MaxPriority
  BY FE310PlicAssumption DEF FE310PlicAssumption, Clamped

LEMMA InitInv == Init => TypeOK /\ Announced /\ HandlerInv
  <1> SUFFICES ASSUME Init PROVE TypeOK /\ Announced /\ HandlerInv
    OBVIOUS
  <1>1. TypeOK
    <2>1. priority \in [Ids -> 0 .. MaxPriority]
      BY FE310PlicAssumption DEF FE310PlicAssumption, Init
    <2>2. enabled \subseteq Ids /\ threshold \in WrittenValues \cup {0}
      BY DEF Init
    <2>3. dynamic \in BOOLEAN
      BY FE310PlicAssumption DEF FE310PlicAssumption, Init
    <2> QED
      BY <2>1, <2>2, <2>3 DEF Init, TypeOK
  <1>2. Announced
    BY DEF Init, Announced, Deliverable, DeliverableIn
  <1>3. HandlerInv
    BY DEF Init, HandlerInv
  <1> QED
    BY <1>1, <1>2, <1>3

\* The state stays in its type.
LEMMA NextTypeOK == TypeOK /\ [Next]_vars => TypeOK'
  <1> SUFFICES ASSUME TypeOK, [Next]_vars PROVE TypeOK'
    OBVIOUS
  <1>1. ASSUME NEW i \in Ids, GatewayTrigger(i) PROVE TypeOK'
    BY <1>1 DEF TypeOK, GatewayTrigger, config
  <1>2. CASE Run
    BY <1>2 DEF TypeOK, Run, Raise, config
  <1>3. ASSUME NEW i \in Ids \cup {0}, Claim(i) PROVE TypeOK'
    BY <1>3 DEF TypeOK, Claim, AfterClaim, config
  <1>4. ASSUME NEW i \in Ids \cup {0}, Complete(i) PROVE TypeOK'
    BY <1>4 DEF TypeOK, Complete, config
  <1>5. ASSUME Configured PROVE (pending \subseteq Ids /\ hart_eip \in BOOLEAN
             /\ meip \in BOOLEAN /\ e_run \in BOOLEAN /\ claimed \subseteq Ids \cup {0}
             /\ dynamic \in BOOLEAN /\ unannounced \subseteq Ids /\ aborted \in BOOLEAN)'
    BY <1>5 DEF TypeOK, Configured, DeliverableIn
  <1>6. ASSUME NEW i \in Ids, NEW v \in WrittenValues, WritePriority(i, v) PROVE TypeOK'
    <2>1. v \in Nat
      BY FE310PlicAssumption DEF FE310PlicAssumption
    <2>2. priority' \in [Ids -> 0 .. MaxPriority]
      BY <1>6, <2>1, ClampedType DEF WritePriority, TypeOK
    <2> QED
      BY <1>5, <1>6, <2>2 DEF WritePriority, TypeOK
  <1>7. ASSUME NEW e \in SUBSET Ids, WriteEnabled(e) PROVE TypeOK'
    BY <1>5, <1>7 DEF WriteEnabled, TypeOK
  <1>8. ASSUME NEW v \in WrittenValues, WriteThreshold(v) PROVE TypeOK'
    BY <1>5, <1>8 DEF WriteThreshold, TypeOK
  <1>9. CASE UNCHANGED vars
    BY <1>9 DEF TypeOK, vars, config
  <1> QED
    BY <1>1, <1>2, <1>3, <1>4, <1>6, <1>7, <1>8, <1>9
    DEF Next, Hardware, Software

\* A register write accounts for whatever it makes deliverable.
LEMMA ConfiguredAnnounced ==
    ASSUME Announced, Configured PROVE Announced'
  <1>1. Deliverable' = DeliverableIn(priority', enabled', threshold')
    BY DEF Deliverable, DeliverableIn, Configured
  <1>2. Deliverable \subseteq unannounced => Deliverable' \subseteq unannounced'
    BY <1>1 DEF Configured
  <1> QED
    BY <1>2 DEF Announced, Configured

LEMMA NextAnnounced == TypeOK /\ Announced /\ [Next]_vars => Announced'
  <1> SUFFICES ASSUME TypeOK, Announced, [Next]_vars PROVE Announced'
    OBVIOUS
  <1>1. ASSUME NEW i \in Ids, GatewayTrigger(i) PROVE Announced'
    BY <1>1 DEF Announced, GatewayTrigger
  <1>2. CASE Run
    <2>1. Deliverable' = Deliverable
      BY <1>2 DEF Run, config, Deliverable, DeliverableIn
    <2>2. CASE ~hart_eip /\ Deliverable # {}
      BY <1>2, <2>2 DEF Announced, Run, Raise
    <2>3. CASE hart_eip
      BY <1>2, <2>3 DEF Announced, Run
    <2>4. CASE ~hart_eip /\ Deliverable = {}
      BY <1>2, <2>1, <2>4 DEF Announced, Run
    <2> QED
      BY <2>2, <2>3, <2>4
  <1>3. ASSUME NEW i \in Ids \cup {0}, Claim(i) PROVE Announced'
    <2>1. Deliverable' = Deliverable \ {i}
      BY <1>3 DEF Claim, AfterClaim, config, Deliverable, DeliverableIn
    <2> QED
      BY <1>3, <2>1 DEF Announced, Claim
  <1>4. ASSUME NEW i \in Ids \cup {0}, Complete(i) PROVE Announced'
    <2>1. Deliverable' = Deliverable
      BY <1>4 DEF Complete, config, Deliverable, DeliverableIn
    <2>2. CASE StaysRaised
      BY <1>4, <2>1, <2>2 DEF Announced, Complete
    <2>3. CASE ~StaysRaised
      BY <1>4, <2>1, <2>3 DEF Announced, Complete, StaysRaised
    <2> QED
      BY <2>2, <2>3
  <1>5. ASSUME Configured PROVE Announced'
    BY <1>5, ConfiguredAnnounced
  <1>6. CASE UNCHANGED vars
    BY <1>6 DEF Announced, vars, config, Deliverable, DeliverableIn
  <1> QED
    BY <1>1, <1>2, <1>3, <1>4, <1>5, <1>6
    DEF Next, Hardware, Software, WritePriority, WriteEnabled, WriteThreshold

LEMMA NextHandlerInv == TypeOK /\ Announced /\ HandlerInv /\ [Next]_vars => HandlerInv'
  <1> SUFFICES ASSUME TypeOK, Announced, HandlerInv, [Next]_vars, ~Polls, ~Nests
               PROVE (/\ ~aborted
                      /\ claimed # {} => hart_eip
                      /\ \A i, j \in claimed : i = j)'
    BY DEF HandlerInv
  <1>0. /\ ~aborted
        /\ claimed # {} => hart_eip
        /\ \A i, j \in claimed : i = j
    BY DEF HandlerInv
  <1>1. ASSUME NEW i \in Ids, GatewayTrigger(i) PROVE UNCHANGED <<aborted, claimed, hart_eip>>
    BY <1>1 DEF GatewayTrigger
  <1>2. CASE Run
    BY <1>0, <1>2 DEF Run, Raise
  <1>3. ASSUME NEW i \in Ids \cup {0}, Claim(i)
        PROVE claimed' = {i} /\ hart_eip' /\ ~aborted'
    BY <1>0, <1>3 DEF Claim, Announced
  <1>4. ASSUME NEW i \in Ids \cup {0}, Complete(i)
        PROVE claimed' = {} /\ ~aborted'
    <2>1. claimed' = {} /\ hart_eip
      BY <1>0, <1>4 DEF Complete
    <2> QED
      BY <1>0, <1>4, <2>1 DEF Complete
  <1>5. ASSUME Configured PROVE UNCHANGED <<aborted, claimed, hart_eip>>
    BY <1>5 DEF Configured
  <1>6. CASE UNCHANGED vars
    BY <1>0, <1>6 DEF vars
  <1> QED
    BY <1>0, <1>1, <1>2, <1>3, <1>4, <1>5, <1>6
    DEF Next, Hardware, Software, WritePriority, WriteEnabled, WriteThreshold

\* All three facts hold in every state the controller can reach.
LEMMA Inductive == Spec => [](TypeOK /\ Announced /\ HandlerInv)
  <1>1. TypeOK /\ Announced /\ HandlerInv /\ [Next]_vars
            => (TypeOK /\ Announced /\ HandlerInv)'
    BY NextTypeOK, NextAnnounced, NextHandlerInv
  <1> QED
    BY InitInv, <1>1, PTL DEF Spec

(* The registers stay in range: a priority that software writes is clamped. *)
THEOREM TypeCorrect == Spec => []TypeOK
  BY Inductive, PTL

(* No trigger is lost, whatever software polls, nests or configures: an
   interrupt the hart is to be told of has raised meip, is about to be looked
   at by run(), or became deliverable by a register write. *)
THEOREM NothingIsLost == Spec => []NoLostInterrupt
  <1>1. Announced => NoLostInterrupt
    BY DEF Announced, NoLostInterrupt
  <1> QED
    BY Inductive, <1>1, PTL

(* The assert in post_write_hart_config cannot fail for an interrupt-driven
   handler, even one that reconfigures the controller while it serves. *)
THEOREM HandlerIsSafe == ~Polls /\ ~Nests => (Spec => []NoAssertFails)
  <1> SUFFICES ASSUME ~Polls, ~Nests PROVE Spec => []NoAssertFails
    OBVIOUS
  <1>1. HandlerInv => NoAssertFails
    BY DEF HandlerInv, NoAssertFails
  <1> QED
    BY Inductive, <1>1, PTL

(* A claim hands out an interrupt only after a trigger, and consumes it. *)
THEOREM ClaimsConsume == Spec => ClaimNeedsTrigger
  <1>1. ASSUME [Next]_vars
        PROVE [\A i \in Ids : i \in claimed' \ claimed
                  => i \in pending /\ i \notin pending']_vars
    <2>1. ASSUME NEW i \in Ids, NEW k \in Ids \cup {0}, Claim(k), i \in claimed' \ claimed
          PROVE i \in pending /\ i \notin pending'
      <3>1. i = k
        BY <2>1 DEF Claim
      <3>2. 0 \notin Ids
        BY DEF Ids
      <3> QED
        BY <2>1, <3>1, <3>2 DEF Claim, AfterClaim, IsNext, Claimable
    <2>2. ASSUME NEW k \in Ids \cup {0}, Complete(k) PROVE claimed' \subseteq claimed
      BY <2>2 DEF Complete
    <2>3. ASSUME (\E k \in Ids : GatewayTrigger(k)) \/ Run \/ Configured
          PROVE claimed' = claimed
      BY <2>3 DEF GatewayTrigger, Run, Configured
    <2> QED
      BY <1>1, <2>1, <2>2, <2>3
      DEF Next, Hardware, Software, WritePriority, WriteEnabled, WriteThreshold
  <1> QED
    BY <1>1, PTL DEF Spec, ClaimNeedsTrigger
-----------------------------------------------------------------------------
(***************************************************************************)
(* The platform.  Each of its steps is one of the PLIC's, a step in which  *)
(* devices trigger several interrupts at once, or one that leaves the PLIC *)
(* alone.                                                                  *)
(***************************************************************************)
PlicInv == TypeOK /\ Announced /\ HandlerInv

PinLevels == {"UNSET", "LOW", "HIGH", "IOF"}

\* The pins, their registers and the server's thread are in their types.
GpioTypeOK ==
    /\ registers \in RegisterSets
    /\ pins \in [GpioPins -> PinLevels]
    /\ reg \in [value : SUBSET GpioPins, input_en : SUBSET GpioPins,
                output_en : SUBSET GpioPins, port : SUBSET GpioPins,
                pullup_en : SUBSET GpioPins, rise_intr_en : SUBSET GpioPins,
                rise_intr_pending : SUBSET GpioPins, fall_intr_en : SUBSET GpioPins,
                fall_intr_pending : SUBSET GpioPins, iof_en : SUBSET GpioPins]
    /\ asyncEvent \in BOOLEAN
    /\ snapshot \in [GpioPins -> PinLevels] \/ snapshot = Pins!NoPins
    /\ client.at # "read" => client.pin \in GpioPins /\ client.val \in Pins!Levels
    /\ followed \subseteq GpioPins

LEMMA GpioInitType == Pins!GpioInit => GpioTypeOK
  <1> SUFFICES ASSUME Pins!GpioInit PROVE GpioTypeOK
    OBVIOUS
  <1>1. pins \in [GpioPins -> PinLevels]
    BY DEF Pins!GpioInit, PinLevels
  <1>2. client.at = "read"
    BY DEF Pins!GpioInit, Pins!NoRequest
  <1> QED
    BY <1>1, <1>2 DEF Pins!GpioInit, GpioTypeOK

LEMMA SnapshotType == GpioTypeOK /\ Pins!Snapshot => GpioTypeOK'
  <1> SUFFICES ASSUME GpioTypeOK, Pins!Snapshot PROVE GpioTypeOK'
    OBVIOUS
  <1>1. \A p \in GpioPins : Pins!Pulled(p) \in PinLevels
    BY DEF GpioTypeOK, PinLevels, Pins!Pulled
  <1>2. Pins!Risen \subseteq GpioPins /\ Pins!Fallen \subseteq GpioPins
    BY DEF GpioTypeOK, Pins!Risen, Pins!Fallen
  <1>3. snapshot' \in [GpioPins -> PinLevels]
    BY <1>1 DEF Pins!Snapshot
  <1>4. followed' \subseteq GpioPins
    BY DEF GpioTypeOK, Pins!Snapshot
  <1> QED
    BY <1>2, <1>3, <1>4 DEF GpioTypeOK, Pins!Snapshot

LEMMA ClientStepType == GpioTypeOK /\ Pins!ClientStep => GpioTypeOK'
  <1> SUFFICES ASSUME GpioTypeOK, Pins!ClientStep PROVE GpioTypeOK'
    OBVIOUS
  <1>1. ASSUME NEW p \in GpioPins, NEW val \in Pins!Levels, Pins!SetBit(p, val) PROVE GpioTypeOK'
    BY <1>1 DEF GpioTypeOK, Pins!SetBit
  <1>2. CASE Pins!AsyncOnchangeWrite
    BY <1>2 DEF GpioTypeOK, Pins!AsyncOnchangeWrite, Pins!Levels, PinLevels
  <1>3. CASE Pins!AsyncOnchangeCompare
    BY <1>3 DEF GpioTypeOK, Pins!AsyncOnchangeCompare, Pins!NoRequest
  <1> QED
    BY <1>1, <1>2, <1>3 DEF Pins!ClientStep

LEMMA DrivenType ==
    ASSUME GpioTypeOK, NEW changed, NEW high, Pins!DriveTo(changed, high)
    PROVE  pins' \in [GpioPins -> PinLevels]
  BY DEF GpioTypeOK, PinLevels, Pins!DriveTo

LEMMA RegisterWriteType == GpioTypeOK /\ Pins!RegisterWrite => GpioTypeOK'
  <1> SUFFICES ASSUME GpioTypeOK, NEW nv \in SUBSET GpioPins,
                      \/ Pins!WritePort(nv) \/ Pins!WritePullupEn(nv)
                      \/ Pins!WriteOutputEn(nv) \/ Pins!WriteIofEn(nv)
                      \/ \E register \in registers : Pins!WritePlain(register, nv)
               PROVE  GpioTypeOK'
    BY DEF Pins!RegisterWrite
  <1>1. CASE Pins!WritePort(nv)
    <2>1. pins' \in [GpioPins -> PinLevels]
      BY <1>1, DrivenType DEF Pins!WritePort
    <2> QED
      BY <1>1, <2>1 DEF GpioTypeOK, Pins!WritePort, Pins!Unattended
  <1>2. CASE Pins!WritePullupEn(nv)
    <2>1. pins' \in [GpioPins -> PinLevels]
      BY <1>2, DrivenType DEF Pins!WritePullupEn
    <2> QED
      BY <1>2, <2>1 DEF GpioTypeOK, Pins!WritePullupEn, Pins!Unattended
  <1>3. CASE Pins!WriteOutputEn(nv)
    <2>1. pins' \in [GpioPins -> PinLevels]
      BY <1>3 DEF GpioTypeOK, PinLevels, Pins!WriteOutputEn
    <2> QED
      BY <1>3, <2>1 DEF GpioTypeOK, Pins!WriteOutputEn, Pins!Unattended
  <1>4. CASE Pins!WriteIofEn(nv)
    <2>1. pins' \in [GpioPins -> PinLevels]
      BY <1>4 DEF GpioTypeOK, PinLevels, Pins!WriteIofEn
    <2> QED
      BY <1>4, <2>1 DEF GpioTypeOK, Pins!WriteIofEn, Pins!Unattended
  <1>5. ASSUME NEW register \in registers, Pins!WritePlain(register, nv) PROVE GpioTypeOK'
    BY <1>5 DEF GpioTypeOK, Pins!WritePlain, Pins!Unattended
  <1> QED
    BY <1>1, <1>2, <1>3, <1>4, <1>5

LEMMA RearmType ==
    ASSUME GpioTypeOK, NEW i \in GpioPins, Pins!Rearm({i}) PROVE GpioTypeOK'
  BY DEF GpioTypeOK, Pins!Rearm, Pins!Unattended

LEMMA NextGpioType == GpioTypeOK /\ [PlatformNext]_platformVars => GpioTypeOK'
  <1> SUFFICES ASSUME GpioTypeOK, [PlatformNext]_platformVars PROVE GpioTypeOK'
    OBVIOUS
  <1>1. ASSUME UNCHANGED gpioVars PROVE GpioTypeOK'
    BY <1>1 DEF gpioVars, GpioTypeOK
  <1>2. CASE SynchronousChange
    BY <1>2, SnapshotType DEF SynchronousChange
  <1>3. CASE PinStep
    <2>1. CASE Pins!WriteBack
      BY <2>1 DEF GpioTypeOK, Pins!WriteBack
    <2> QED
      BY <1>3, <2>1, ClientStepType, RegisterWriteType DEF PinStep
  <1>4. ASSUME NEW i \in Ids, Serve(i) PROVE GpioTypeOK'
    BY <1>1, <1>4, RearmType DEF Serve, ServePin, ServeDma, ServeOther
  <1>5. CASE UNCHANGED platformVars
    BY <1>1, <1>5 DEF platformVars, deviceVars
  <1>6. CASE ChannelStep
    BY <1>1, <1>6 DEF ChannelStep, deviceVars
  <1> QED
    BY <1>1, <1>2, <1>3, <1>4, <1>5, <1>6
    DEF PlatformNext, OtherDevice, DmaDone, DmaStep, RunStep, Configure, ClaimStep, CompleteStep

\* What an edge of a pin triggers is an interrupt of a pin.
LEMMA FiresArePins == GpioTypeOK => Pins!Fires \subseteq GpioPins
  BY DEF GpioTypeOK, Pins!Fires, Pins!FiresRise, Pins!FiresFall

\* Devices that trigger together lose no more than one that triggers alone.
LEMMA TriggeredKeeps ==
    ASSUME PlicInv, NEW ids \in SUBSET Ids, Triggered(ids) PROVE PlicInv'
  <1>1. TypeOK'
    BY DEF PlicInv, TypeOK, Triggered, config
  <1>2. ids = {} => Deliverable' = Deliverable
    BY DEF Triggered, config, Deliverable, DeliverableIn
  <1>3. Announced'
    BY <1>2 DEF PlicInv, Announced, Triggered
  <1>4. HandlerInv'
    BY DEF PlicInv, HandlerInv, Triggered
  <1> QED
    BY <1>1, <1>3, <1>4 DEF PlicInv

LEMMA PlicNextKeeps == PlicInv /\ [Next]_vars => PlicInv'
  BY NextTypeOK, NextAnnounced, NextHandlerInv DEF PlicInv

LEMMA PlatformKeepsPlic ==
    PlicInv /\ GpioTypeOK /\ [PlatformNext]_platformVars => PlicInv'
  <1> SUFFICES ASSUME PlicInv, GpioTypeOK, [PlatformNext]_platformVars PROVE PlicInv'
    OBVIOUS
  <1>1. ASSUME [Next]_vars PROVE PlicInv'
    BY <1>1, PlicNextKeeps
  <1>2. CASE SynchronousChange
    BY <1>2, TriggeredKeeps, FiresArePins, IrqAssumption DEF SynchronousChange
  <1>3. CASE DmaDone
    BY <1>3, TriggeredKeeps, IrqAssumption DEF DmaDone
  <1>4. ASSUME ~aborted, OtherDevice \/ RunStep \/ Configure PROVE PlicInv'
    BY <1>1, <1>4 DEF OtherDevice, RunStep, Configure, Next, Hardware, Software
  <1>5. ASSUME ~aborted, NEW i \in Ids \cup {0}, ClaimStep(i) \/ CompleteStep(i) PROVE PlicInv'
    BY <1>1, <1>5 DEF ClaimStep, CompleteStep, Next, Software
  <1>6. CASE UNCHANGED vars
    BY <1>1, <1>6
  <1>7. CASE PinStep \/ DmaStep \/ ChannelStep \/ (\E i \in Ids : Serve(i)) \/ UNCHANGED platformVars
    BY <1>6, <1>7 DEF PinStep, DmaStep, ChannelStep, Serve, platformVars, deviceVars
  <1> QED
    BY <1>2, <1>3, <1>4, <1>5, <1>7 DEF PlatformNext
-----------------------------------------------------------------------------
(***************************************************************************)
(* The DMA controller.  A command is on its way as an event, as a thread   *)
(* that copies, as a pending interrupt or as one that is being served: at  *)
(* one of these at a time, and at none when the driver may command again.  *)
(***************************************************************************)
Copying == thread.at # "wait"
Reported == DmaIrq \in pending
Served == DmaIrq \in claimed \ served

OneReport ==
    /\ live = "dma" =>
        /\ run_event => ~Copying
        /\ run_event \/ Copying => ~Reported
        /\ run_event \/ Copying \/ Reported => ~Served
        /\ run_event \/ Copying \/ Reported \/ Served => busy
    /\ live # "dma" => ~run_event /\ ~Copying
    /\ live # "pins" => ~asyncEvent

DmaTypeOK ==
    /\ thread \in [at : {"wait", "read", "write", "done"}, n : Nat, off : Nat]
    /\ run_event \in BOOLEAN /\ busy \in BOOLEAN
    /\ mem \in [Copier!Addresses -> Copier!Addresses]
    /\ run_event \/ thread.at \in {"read", "write"} => regs \in Commands

\* The memory once the cells of a copy from offset o on are copied.
Finished(o) ==
    [a \in Copier!Addresses |->
        IF a \in regs.dst + o .. regs.dst + regs.len - 1 THEN mem[regs.src + a - regs.dst] ELSE mem[a]]

\* What a copy under way has left to do is what is missing of what was asked for.
CopyInv ==
    /\ run_event => wanted = Copier!Copied(regs)
    /\ thread.at \in {"read", "write"} =>
        /\ regs.op = "MEMCPY"
        /\ thread.off + thread.n = regs.len
        /\ thread.off > 0 => regs.len > BufferSize
        /\ wanted = Finished(thread.off)
    /\ thread.at = "write" =>
        buffer = [i \in 0 .. Copier!Smaller(thread.n, BufferSize) - 1 |-> mem[regs.src + thread.off + i]]
    /\ thread.at = "done" => mem = wanted

DmaInv == OneReport /\ DmaTypeOK /\ CopyInv

LEMMA DmaInitHolds == PlatformInit => DmaInv
  <1> SUFFICES ASSUME PlatformInit PROVE DmaInv
    OBVIOUS
  <1> USE DEF PlatformInit, Copier!DmaInit, Pins!GpioInit
  <1>1. OneReport
    BY DEF OneReport, Copying, Reported, Served, Copier!Idle, Init
  <1>2. DmaTypeOK
    BY DEF DmaTypeOK, Copier!Idle
  <1>3. CopyInv
    BY DEF CopyInv, Copier!Idle
  <1> QED
    BY <1>1, <1>2, <1>3 DEF DmaInv

\* Steps of others keep the controller's state.
LEMMA OthersKeepCopy ==
    ASSUME DmaTypeOK, CopyInv, UNCHANGED dmaVars PROVE DmaTypeOK' /\ CopyInv'
  BY DEF DmaTypeOK, CopyInv, dmaVars, Finished, Copier!Copied, Copier!Addresses, Copier!Smaller

LEMMA CommandKeeps ==
    ASSUME ~Eager, DmaInv, live = "dma", NEW c \in Commands, Copier!Command(c)
    PROVE  DmaTypeOK' /\ CopyInv'
  <1>1. ~run_event /\ thread.at = "wait"
    BY DEF DmaInv, OneReport, Copying, Copier!Command
  <1>2. wanted' = Copier!Copied(regs)'
    BY DEF Copier!Command, Copier!Copied, Copier!Addresses
  <1> QED
    BY <1>1, <1>2 DEF DmaInv, DmaTypeOK, CopyInv, Copier!Command

LEMMA HappenKeeps ==
    ASSUME DmaInv, live = "dma", Copier!Happen PROVE DmaTypeOK' /\ CopyInv'
  <1>1. /\ run_event /\ ~run_event' /\ thread.at = "wait"
        /\ regs \in Commands /\ regs \in [op : {"NOP", "MEMCPY"}, src : Nat, dst : Nat, len : Nat]
        /\ wanted = Copier!Copied(regs)
        /\ regs' = regs /\ mem' = mem /\ wanted' = wanted
    BY DriverAssumption
    DEF DmaInv, DmaTypeOK, CopyInv, OneReport, Copying, Copier!Happen, Copier!DmaAssumption
  <1>2. CASE regs.op = "NOP"
    <2>1. wanted = mem
      BY <1>1, <1>2 DEF DmaInv, DmaTypeOK, Copier!Copied
    <2>2. thread'.at = "done" /\ thread' \in [at : {"wait", "read", "write", "done"}, n : Nat, off : Nat]
      BY <1>1, <1>2 DEF DmaInv, DmaTypeOK, Copier!Happen
    <2> QED
      BY <1>1, <2>1, <2>2 DEF DmaInv, DmaTypeOK, CopyInv, Copier!Happen
  <1>3. CASE regs.op = "MEMCPY"
    <2>1. thread' = [at |-> "read", n |-> regs.len, off |-> 0]
      BY <1>1, <1>3 DEF Copier!Happen
    <2>2. wanted = Finished(0)
      BY <1>1, <1>3 DEF Copier!Copied, Finished
    <2>3. Finished(thread.off)' = Finished(0)
      BY <1>1, <2>1 DEF Finished, Copier!Addresses
    <2>4. DmaTypeOK'
      <3>1. regs.len \in Nat
        BY <1>1
      <3>2. thread' \in [at : {"wait", "read", "write", "done"}, n : Nat, off : Nat]
        BY <2>1, <3>1
      <3> QED
        BY <1>1, <3>2 DEF DmaInv, DmaTypeOK, Copier!Happen
    <2>5. CopyInv'
      BY <1>1, <1>3, <2>1, <2>2, <2>3 DEF CopyInv
    <2> QED
      BY <2>4, <2>5
  <1> QED
    BY <1>1, <1>2, <1>3

LEMMA ReadBlockKeeps ==
    ASSUME DmaInv, Copier!ReadBlock PROVE DmaTypeOK' /\ CopyInv'
  <1>1. thread.at = "read" /\ thread'.at = "write"
    BY DEF DmaInv, DmaTypeOK, Copier!ReadBlock
  <1>2. /\ thread'.off = thread.off /\ thread'.n = thread.n
        /\ thread' \in [at : {"wait", "read", "write", "done"}, n : Nat, off : Nat]
    BY DEF DmaInv, DmaTypeOK, Copier!ReadBlock
  <1>3. Finished(thread.off)' = Finished(thread.off)
    BY <1>2 DEF Copier!ReadBlock, Finished, Copier!Addresses
  <1>4. buffer' = [i \in 0 .. Copier!Smaller(thread'.n, BufferSize) - 1 |-> mem'[regs'.src + thread'.off + i]]
    BY <1>2 DEF Copier!ReadBlock
  <1> QED
    BY <1>1, <1>2, <1>3, <1>4 DEF DmaInv, DmaTypeOK, CopyInv, Copier!ReadBlock, Copier!Copied, Copier!Addresses

\* A block overwrites none of the cells that a later block reads.
LEMMA BlockIsCopied ==
    ASSUME DmaInv, Copier!WriteBlock,
           NEW k \in Nat, k = Copier!Smaller(thread.n, BufferSize),
           NEW a \in Copier!Addresses
    PROVE  IF a \in regs.dst + (thread.off + k) .. regs.dst + regs.len - 1
           THEN mem'[regs.src + a - regs.dst] = wanted[a]
           ELSE mem'[a] = wanted[a]
  <1> DEFINE o == thread.off
             first == regs.dst + o
  <1>1. /\ thread.at = "write" /\ regs \in Commands
        /\ regs.src \in Nat /\ regs.dst \in Nat /\ regs.len \in Nat
        /\ regs.src + regs.len <= Cells /\ regs.dst + regs.len <= Cells
        /\ regs.dst <= regs.src \/ regs.src + regs.len <= regs.dst \/ regs.len <= BufferSize
    BY DriverAssumption DEF DmaInv, DmaTypeOK, Copier!DmaAssumption, Copier!WriteBlock
  <1>2. /\ o \in Nat /\ thread.n \in Nat /\ o + thread.n = regs.len
        /\ o > 0 => regs.len > BufferSize
    BY <1>1 DEF DmaInv, DmaTypeOK, CopyInv
  <1>3. k <= thread.n /\ k <= BufferSize /\ (k < thread.n => k = BufferSize)
    BY <1>2, DriverAssumption DEF Copier!Smaller, Copier!DmaAssumption
  <1>4. buffer = [i \in 0 .. k - 1 |-> mem[regs.src + o + i]] /\ wanted = Finished(o)
    BY <1>1 DEF DmaInv, CopyInv
  <1>5. \A b \in Copier!Addresses :
            mem'[b] = IF b - first \in 0 .. k - 1 THEN mem[regs.src + o + (b - first)] ELSE mem[b]
    BY <1>4 DEF Copier!WriteBlock
  <1>6. wanted[a] = IF a \in first .. regs.dst + regs.len - 1 THEN mem[regs.src + a - regs.dst] ELSE mem[a]
    BY <1>4 DEF Finished
  <1>7. a \in Nat /\ a < Cells
    BY DriverAssumption DEF Copier!Addresses, Copier!DmaAssumption
  <1>8. CASE a \in first + k .. regs.dst + regs.len - 1
    <2> DEFINE b == regs.src + a - regs.dst
    <2>1. b \in Copier!Addresses
      BY <1>1, <1>2, <1>7, <1>8, DriverAssumption DEF Copier!Addresses, Copier!DmaAssumption
    <2>2. ~(b - first \in 0 .. k - 1)
      <3>1. CASE regs.dst <= regs.src
        BY <1>1, <1>2, <1>7, <1>8, <3>1
      <3>2. CASE regs.src + regs.len <= regs.dst
        BY <1>1, <1>2, <1>7, <1>8, <3>2
      <3>3. CASE regs.len <= BufferSize
        BY <1>1, <1>2, <1>3, <1>7, <1>8, <3>3, DriverAssumption DEF Copier!DmaAssumption
      <3> QED
        BY <1>1, <3>1, <3>2, <3>3
    <2>3. mem'[b] = mem[b]
      BY <1>5, <2>1, <2>2
    <2>4. wanted[a] = mem[b]
      BY <1>1, <1>2, <1>6, <1>7, <1>8
    <2> QED
      BY <1>1, <1>2, <1>8, <2>3, <2>4
  <1>9. CASE a \notin first + k .. regs.dst + regs.len - 1
    <2>1. CASE a - first \in 0 .. k - 1
      <3>1. regs.src + o + (a - first) = regs.src + a - regs.dst
        BY <1>1, <1>2, <1>7
      <3>2. mem'[a] = mem[regs.src + a - regs.dst]
        BY <1>5, <2>1, <3>1
      <3>3. a \in first .. regs.dst + regs.len - 1
        BY <1>1, <1>2, <1>3, <1>7, <2>1
      <3> QED
        BY <1>1, <1>2, <1>6, <1>9, <3>2, <3>3
    <2>2. CASE a - first \notin 0 .. k - 1
      <3>1. mem'[a] = mem[a]
        BY <1>5, <2>2
      <3>2. a \notin first .. regs.dst + regs.len - 1
        BY <1>1, <1>2, <1>7, <1>9, <2>2
      <3> QED
        BY <1>1, <1>2, <1>6, <1>9, <3>1, <3>2
    <2> QED
      BY <2>1, <2>2
  <1> QED
    BY <1>1, <1>2, <1>8, <1>9

LEMMA WriteBlockKeeps ==
    ASSUME DmaInv, Copier!WriteBlock PROVE DmaTypeOK' /\ CopyInv'
  <1> DEFINE k == Copier!Smaller(thread.n, BufferSize)
  <1>1. /\ thread.at = "write" /\ regs \in Commands
        /\ thread \in [at : {"wait", "read", "write", "done"}, n : Nat, off : Nat]
        /\ ~run_event /\ run_event' = run_event /\ regs' = regs /\ wanted' = wanted
        /\ thread' = Copier!NextBlock(thread)
        /\ k \in Nat /\ BufferSize \in Nat \ {0}
        /\ regs.op = "MEMCPY" /\ thread.off + thread.n = regs.len /\ regs.len \in Nat
    BY DriverAssumption DEF DmaInv, DmaTypeOK, CopyInv, OneReport, Copying, Copier!DmaAssumption,
       Copier!WriteBlock, Copier!Smaller
  <1>2. /\ thread' \in [at : {"wait", "read", "write", "done"}, n : Nat, off : Nat]
        /\ thread.n > BufferSize =>
              thread' = [at |-> "read", n |-> thread.n - BufferSize, off |-> thread.off + BufferSize]
        /\ ~(thread.n > BufferSize) => thread'.at = "done"
    BY <1>1 DEF Copier!NextBlock
  <1>3. mem' \in [Copier!Addresses -> Copier!Addresses]
    <2>1. ASSUME NEW a \in Copier!Addresses PROVE mem'[a] \in Copier!Addresses
      <3> DEFINE b == a - (regs.dst + thread.off)
      <3>1. mem'[a] = IF b \in DOMAIN buffer THEN buffer[b] ELSE mem[a]
        BY DEF Copier!WriteBlock
      <3>2. buffer = [i \in 0 .. k - 1 |-> mem[regs.src + thread.off + i]]
        BY <1>1 DEF DmaInv, CopyInv
      <3>3. CASE b \in 0 .. k - 1
        <4>1. regs.src + thread.off + b \in Copier!Addresses
          BY <1>1, <3>3, DriverAssumption
          DEF Copier!DmaAssumption, Copier!Smaller, Copier!Addresses
        <4> QED
          BY <3>1, <3>2, <3>3, <4>1 DEF DmaInv, DmaTypeOK
      <3>4. CASE b \notin 0 .. k - 1
        BY <3>1, <3>2, <3>4 DEF DmaInv, DmaTypeOK
      <3> QED
        BY <3>3, <3>4
    <2>2. mem' = [a \in Copier!Addresses |-> mem'[a]]
      BY DEF Copier!WriteBlock
    <2> QED
      BY <2>1, <2>2
  <1>4. wanted = [a \in Copier!Addresses |-> wanted[a]]
    BY <1>1 DEF DmaInv, CopyInv, Finished
  <1>5. CASE thread.n > BufferSize
    <2>1. k = BufferSize
      BY <1>1, <1>5 DEF Copier!Smaller
    <2>2. wanted' = Finished(thread.off)'
      BY <1>1, <1>2, <1>4, <1>5, <2>1, BlockIsCopied DEF Finished, Copier!Addresses
    <2>3. thread'.off + thread'.n = regs.len /\ regs.len > BufferSize
      BY <1>1, <1>2, <1>5
    <2> QED
      BY <1>1, <1>2, <1>3, <1>5, <2>2, <2>3 DEF DmaTypeOK, CopyInv, Copier!WriteBlock, DmaInv
  <1>6. CASE ~(thread.n > BufferSize)
    <2>1. k = thread.n
      BY <1>1, <1>6 DEF Copier!Smaller
    <2>2. \A a \in Copier!Addresses : mem'[a] = wanted[a]
      <3> SUFFICES ASSUME NEW a \in Copier!Addresses PROVE mem'[a] = wanted[a]
        OBVIOUS
      <3>1. ~(a \in regs.dst + (thread.off + k) .. regs.dst + regs.len - 1)
        BY <1>1, <2>1, DriverAssumption DEF Copier!DmaAssumption, Copier!Addresses
      <3> QED
        BY <1>1, <3>1, BlockIsCopied
    <2>3. mem' = wanted
      BY <1>3, <1>4, <2>2
    <2> QED
      BY <1>1, <1>2, <1>3, <1>6, <2>3 DEF DmaTypeOK, CopyInv, Copier!WriteBlock, DmaInv
  <1> QED
    BY <1>5, <1>6

\* What a step of the PLIC does to an interrupt of the controller.
LEMMA ClaimMovesReport ==
    ASSUME NEW i \in Ids \cup {0}, Claim(i), served' = served
    PROVE  /\ Reported' => Reported
           /\ Served' => Served \/ (Reported /\ ~Reported')
  <1>1. DmaIrq \in Ids /\ 0 \notin Ids
    BY IrqAssumption DEF Ids
  <1>2. i = DmaIrq => Reported /\ ~Reported'
    BY <1>1 DEF Claim, AfterClaim, IsNext, Claimable, Reported
  <1> QED
    BY <1>2 DEF Claim, AfterClaim, Reported, Served

LEMMA CompleteKeepsReport ==
    ASSUME NEW i \in Ids \cup {0}, Complete(i), served' = served \ {i}
    PROVE  (Reported' => Reported) /\ (Served' => Served)
  BY DEF Complete, Reported, Served

LEMMA PlatformKeepsReport ==
    ASSUME ~Eager, DmaInv, GpioTypeOK, [PlatformNext]_platformVars PROVE OneReport'
  <1> USE DEF DmaInv, OneReport
  <1>1. CASE OtherDevice
    BY <1>1 DEF OtherDevice, GatewayTrigger, gpioVars, dmaVars, Copying
  <1>2. CASE SynchronousChange
    <2>1. live = "pins"
      BY <1>2 DEF SynchronousChange, Pins!Snapshot
    <2> QED
      BY <1>2, <2>1 DEF SynchronousChange, dmaVars, Copying
  <1>3. CASE PinStep
    BY <1>3 DEF PinStep, dmaVars, Copying
  <1>4. CASE DmaDone
    <2>1. live = "dma" /\ Copying /\ ~Copying'
      BY <1>4 DEF DmaDone, Copier!Finish, Copying, Copier!Idle
    <2>2. Served' = Served
      BY <1>4 DEF DmaDone, Triggered, Served
    <2> QED
      BY <1>4, <2>1, <2>2 DEF DmaDone, Copier!Finish, gpioVars
  <1>5. CASE DmaStep
    <2>1. live = "dma" /\ live' = live /\ asyncEvent' = asyncEvent /\ Reported' = Reported /\ Served' = Served
      BY <1>5 DEF DmaStep, gpioVars, vars, Reported, Served
    <2>2. ASSUME NEW c \in Commands, Copier!Command(c) PROVE OneReport'
      <3>1. Copying' = Copying /\ ~run_event /\ ~Copying /\ ~Reported /\ ~Served /\ busy'
        BY <2>1, <2>2 DEF Copier!Command, Copying
      <3> QED
        BY <2>1, <3>1
    <2>3. CASE Copier!Happen
      BY <2>1, <2>3 DEF Copier!Happen
    <2>4. CASE Copier!ReadBlock \/ Copier!WriteBlock
      BY <2>1, <2>4 DEF Copier!ReadBlock, Copier!WriteBlock, Copying
    <2> QED
      BY <1>5, <2>2, <2>3, <2>4 DEF DmaStep, Copier!DmaStep
  <1>6. CASE RunStep \/ Configure
    BY <1>6 DEF RunStep, Configure, Run, WritePriority, WriteEnabled, WriteThreshold, Configured,
       gpioVars, dmaVars, Copying, Reported, Served
  <1>7. CASE ChannelStep \/ UNCHANGED platformVars
    BY <1>7 DEF ChannelStep, platformVars, deviceVars, vars, gpioVars, dmaVars, Copying, Reported, Served
  <1>8. ASSUME NEW i \in Ids \cup {0}, ClaimStep(i) PROVE OneReport'
    BY <1>8, ClaimMovesReport DEF ClaimStep, gpioVars, dmaVars, Copying
  <1>9. ASSUME NEW i \in Ids \cup {0}, CompleteStep(i) PROVE OneReport'
    BY <1>9, CompleteKeepsReport DEF CompleteStep, gpioVars, dmaVars, Copying
  <1>10. ASSUME NEW i \in Ids, Serve(i) PROVE OneReport'
    <2>1. Reported' = Reported /\ live' = live /\ (Served' => Served)
      BY <1>10 DEF Serve, vars, Reported, Served
    <2>2. CASE live = "pins"
      BY <1>10, <2>1, <2>2 DEF Serve, ServePin, Pins!Rearm, Pins!Unattended, dmaVars, Copying
    <2>3. CASE live = "dma"
      <3>1. i = DmaIrq /\ Served /\ ~Served'
        BY <1>10, <2>3 DEF Serve, ServeDma, Served
      <3> QED
        BY <1>10, <2>1, <2>3, <3>1 DEF Serve, ServeDma, Copier!Answered, gpioVars, Copying
    <2>4. CASE live \notin {"pins", "dma"}
      BY <1>10, <2>1, <2>4 DEF Serve, ServeOther, gpioVars, dmaVars, Copying
    <2> QED
      BY <2>2, <2>3, <2>4
  <1> QED
    BY <1>1, <1>2, <1>3, <1>4, <1>5, <1>6, <1>7, <1>8, <1>9, <1>10 DEF PlatformNext

LEMMA PlatformKeepsCopy ==
    ASSUME ~Eager, DmaInv, GpioTypeOK, [PlatformNext]_platformVars PROVE DmaInv'
  <1>1. OneReport'
    BY PlatformKeepsReport
  <1>2. CASE UNCHANGED dmaVars
    BY <1>1, <1>2, OthersKeepCopy DEF DmaInv
  <1>3. CASE DmaDone
    <2>1. thread.at = "done" /\ ~run_event
      BY <1>3 DEF DmaDone, Copier!Finish, DmaInv, OneReport, Copying
    <2> QED
      BY <1>1, <1>3, <2>1 DEF DmaDone, Copier!Finish, DmaInv, DmaTypeOK, CopyInv, Copier!Idle
  <1>4. CASE DmaStep
    BY <1>1, <1>4, CommandKeeps, HappenKeeps, ReadBlockKeeps, WriteBlockKeeps
    DEF DmaStep, Copier!DmaStep, DmaInv
  <1>5. ASSUME NEW i \in Ids, Serve(i) PROVE DmaInv'
    <2>1. CASE live = "dma"
      BY <1>1, <1>5, <2>1
      DEF Serve, ServeDma, Copier!Answered, DmaInv, DmaTypeOK, CopyInv, Finished, Copier!Copied,
          Copier!Addresses, Copier!Smaller
    <2>2. CASE live # "dma"
      BY <1>2, <1>5, <2>2 DEF Serve, ServePin, ServeOther
    <2> QED
      BY <2>1, <2>2
  <1>6. PlatformNext => \/ DmaDone \/ DmaStep \/ \E i \in Ids : Serve(i)
                       \/ UNCHANGED dmaVars
    BY DEF PlatformNext, OtherDevice, SynchronousChange, PinStep, RunStep, Configure, ChannelStep,
        ClaimStep, CompleteStep, deviceVars
  <1>7. UNCHANGED platformVars => UNCHANGED dmaVars
    BY DEF platformVars, deviceVars
  <1> QED
    BY <1>2, <1>3, <1>4, <1>5, <1>6, <1>7
-----------------------------------------------------------------------------
(***************************************************************************)
(* The pins.  A pin whose value does not agree with its level is looked at *)
(* again: because of the event, or since the server's thread is about to   *)
(* notify it; and while a snapshot exists, it is the snapshot that counts. *)
(***************************************************************************)
Agrees(p, levels) == p \in reg.value <=> levels[p] = "HIGH"

PinsAgree ==
    /\ client.at = "write" => client.prev # client.val
    /\ \A p \in followed :
        IF snapshot # Pins!NoPins THEN Agrees(p, snapshot)
        ELSE \/ asyncEvent
             \/ Agrees(p, pins)
             \/ client.at = "compare" /\ client.pin = p /\ client.prev # pins[p]

\* A guest whose handler alone writes the flags of the pins.
FlagsAreTheHandlers ==
    \A r \in RegisterSets : "rise_intr_pending" \notin r /\ "fall_intr_pending" \notin r

Armed(p) == p \in reg.rise_intr_pending \cap reg.fall_intr_pending

PinsArmed ==
    /\ served \subseteq claimed
    /\ live # "pins" => ~asyncEvent /\ \A p \in GpioPins : Armed(p)
    /\ NoDeafPin

LEMMA ClientStepAgrees ==
    ASSUME ~Repeats, GpioTypeOK, PinsAgree, Pins!ClientStep PROVE PinsAgree'
  <1>1. ASSUME NEW p \in GpioPins, NEW val \in Pins!Levels, Pins!SetBit(p, val) PROVE PinsAgree'
    BY <1>1 DEF PinsAgree, Agrees, Pins!SetBit
  <1>2. CASE Pins!AsyncOnchangeWrite
    <2>1. /\ client.at = "write" /\ client.prev # client.val /\ client.pin \in GpioPins
          /\ pins' = [pins EXCEPT ![client.pin] = client.val]
          /\ client'.at = "compare" /\ client'.pin = client.pin /\ client'.prev = client.prev
          /\ UNCHANGED <<reg, asyncEvent, snapshot, followed>>
      BY <1>2 DEF PinsAgree, GpioTypeOK, Pins!AsyncOnchangeWrite
    <2>2. pins'[client.pin] = client.val /\ \A p \in GpioPins \ {client.pin} : pins'[p] = pins[p]
      BY <2>1 DEF GpioTypeOK
    <2> QED
      BY <2>1, <2>2 DEF PinsAgree, Agrees, GpioTypeOK
  <1>3. CASE Pins!AsyncOnchangeCompare
    BY <1>3 DEF PinsAgree, Agrees, Pins!AsyncOnchangeCompare, Pins!NoRequest
  <1> QED
    BY <1>1, <1>2, <1>3 DEF Pins!ClientStep

LEMMA SnapshotAgrees ==
    ASSUME GpioTypeOK, PinsAgree, Pins!Snapshot PROVE PinsAgree'
  <1> SUFFICES ASSUME NEW p \in followed' PROVE snapshot' # Pins!NoPins /\ Agrees(p, snapshot)'
    BY DEF PinsAgree, Pins!Snapshot
  <1>1. p \in reg.input_en /\ p \in GpioPins /\ Pins!Pulled(p) # "IOF"
    BY DEF GpioTypeOK, Pins!Snapshot
  <1>2. Pins!Pulled(p) \in {"LOW", "HIGH"}
    BY <1>1 DEF GpioTypeOK, PinLevels, Pins!Pulled
  <1>3. snapshot'[p] = Pins!Pulled(p) /\ p \in DOMAIN snapshot'
    BY <1>1 DEF Pins!Snapshot
  <1>4. reg'.value = (reg.value \cup Pins!Risen) \ Pins!Fallen
    BY DEF GpioTypeOK, Pins!Snapshot
  <1>5. p \in reg'.value <=> Pins!Pulled(p) = "HIGH"
    BY <1>1, <1>2, <1>4 DEF Pins!Risen, Pins!Fallen
  <1> QED
    BY <1>3, <1>5 DEF Agrees, Pins!NoPins

LEMMA RegisterWriteAgrees ==
    ASSUME GpioTypeOK, PinsAgree, Pins!RegisterWrite PROVE PinsAgree'
  <1> SUFFICES ASSUME NEW nv \in SUBSET GpioPins,
                      \/ Pins!WritePort(nv) \/ Pins!WritePullupEn(nv)
                      \/ Pins!WriteOutputEn(nv) \/ Pins!WriteIofEn(nv)
                      \/ \E register \in registers : Pins!WritePlain(register, nv)
               PROVE  PinsAgree'
    BY DEF Pins!RegisterWrite
  <1>1. snapshot = Pins!NoPins /\ UNCHANGED <<asyncEvent, snapshot, client>>
    BY DEF Pins!WritePort, Pins!WritePullupEn, Pins!WriteOutputEn, Pins!WriteIofEn,
       Pins!WritePlain, Pins!Unattended, Pins!Write
  <1>2. ASSUME NEW p \in followed' 
        PROVE /\ p \in GpioPins /\ p \in followed
              /\ \/ Agrees(p, pins)'
                 \/ /\ pins'[p] = pins[p]
                    /\ p \in reg'.value <=> p \in reg.value
    <2>1. p \in GpioPins /\ p \in followed
      BY <1>2 DEF GpioTypeOK, Pins!WritePort, Pins!WritePullupEn, Pins!WriteOutputEn, Pins!WriteIofEn,
       Pins!WritePlain, Pins!Unattended
    <2>2. CASE Pins!WritePort(nv)
      <3> DEFINE new == (nv \cap reg.output_en) \ reg.iof_en
                 changed == Pins!Flip((reg.port \cap reg.output_en) \ reg.iof_en, new)
      <3>1. pins'[p] = IF p \notin changed THEN pins[p] ELSE IF p \in new THEN "HIGH" ELSE "LOW"
        BY <2>1, <2>2 DEF Pins!WritePort, Pins!DriveTo
      <3>2. reg'.value = IF changed = {} THEN reg.value ELSE (reg.value \ reg.output_en) \cup new
        BY <2>2 DEF GpioTypeOK, Pins!WritePort
      <3>3. changed = {} \/ p \notin reg.output_en \/ p \in changed
        BY <1>2, <2>2 DEF Pins!WritePort
      <3>4. p \in changed => p \in reg.output_en
        BY DEF Pins!Flip
      <3> HIDE DEF changed
      <3>5. CASE changed = {}
        BY <2>1, <3>1, <3>2, <3>5
      <3>6. CASE changed # {} /\ p \notin reg.output_en
        BY <2>1, <3>1, <3>2, <3>4, <3>6
      <3>7. CASE changed # {} /\ p \in reg.output_en /\ p \in changed
        BY <2>1, <3>1, <3>2, <3>7 DEF Agrees
      <3> QED
        BY <3>3, <3>5, <3>6, <3>7
    <2>3. CASE Pins!WritePullupEn(nv)
      BY <2>1, <2>3 DEF GpioTypeOK, Pins!WritePullupEn, Pins!DriveTo, Agrees
    <2>4. CASE Pins!WriteOutputEn(nv)
      <3> DEFINE value == (reg.value \ reg.output_en) \cup (reg.port \cap nv)
      <3>1. reg'.value = value /\ p \notin reg.output_en \cap nv
        BY <1>2, <2>4 DEF GpioTypeOK, Pins!WriteOutputEn
      <3>2. pins'[p] = IF p \in reg.output_en \ nv THEN "UNSET"
                       ELSE IF p \notin nv \ reg.output_en THEN pins[p]
                       ELSE IF p \in value THEN "HIGH" ELSE "LOW"
        BY <2>1, <2>4 DEF Pins!WriteOutputEn
      <3> QED
        BY <2>1, <3>1, <3>2 DEF Agrees
    <2>5. CASE Pins!WriteIofEn(nv)
      BY <1>2, <2>1, <2>5 DEF GpioTypeOK, Pins!WriteIofEn
    <2>6. ASSUME NEW register \in registers, Pins!WritePlain(register, nv)
          PROVE  pins' = pins /\ reg'.value = reg.value
      BY <2>6 DEF GpioTypeOK, Pins!WritePlain
    <2> QED
      BY <2>1, <2>2, <2>3, <2>4, <2>5, <2>6
  <1> QED
    BY <1>1, <1>2 DEF PinsAgree, Agrees

LEMMA PlatformKeepsPins ==
    ASSUME ~Repeats, GpioTypeOK, PinsAgree, [PlatformNext]_platformVars PROVE PinsAgree'
  <1>1. ASSUME UNCHANGED gpioVars PROVE PinsAgree'
    BY <1>1 DEF gpioVars, PinsAgree, Agrees
  <1>2. CASE SynchronousChange
    BY <1>2, SnapshotAgrees DEF SynchronousChange
  <1>3. CASE PinStep
    <2>1. CASE Pins!WriteBack
      BY <2>1 DEF PinsAgree, Agrees, Pins!WriteBack
    <2> QED
      BY <1>3, <2>1, ClientStepAgrees, RegisterWriteAgrees DEF PinStep
  <1>4. ASSUME NEW i \in GpioPins, Pins!Rearm({i}) PROVE PinsAgree'
    BY <1>4 DEF GpioTypeOK, PinsAgree, Agrees, Pins!Rearm, Pins!Unattended
  <1>5. ASSUME NEW i \in Ids, Serve(i) PROVE PinsAgree'
    BY <1>1, <1>4, <1>5 DEF Serve, ServePin, ServeDma, ServeOther
  <1>6. PlatformNext => \/ SynchronousChange \/ PinStep \/ \E i \in Ids : Serve(i)
                        \/ UNCHANGED gpioVars
    BY DEF PlatformNext, OtherDevice, DmaDone, DmaStep, RunStep, Configure, ChannelStep,
        ClaimStep, CompleteStep, deviceVars
  <1>7. UNCHANGED platformVars => UNCHANGED gpioVars
    BY DEF platformVars, deviceVars
  <1> QED
    BY <1>1, <1>2, <1>3, <1>5, <1>6, <1>7

LEMMA PlatformKeepsArmed ==
    ASSUME ~Nests, FlagsAreTheHandlers, GpioTypeOK, PinsArmed, [PlatformNext]_platformVars
    PROVE  PinsArmed'
  <1> DEFINE Flags == <<reg.rise_intr_pending, reg.fall_intr_pending>>
  <1> USE DEF PinsArmed, NoDeafPin, Armed
  <1>1. CASE SynchronousChange
    <2>1. live = "pins"
      BY <1>1 DEF SynchronousChange, Pins!Snapshot
    <2>2. /\ reg'.rise_intr_pending = reg.rise_intr_pending \ Pins!FiresRise
          /\ reg'.fall_intr_pending = reg.fall_intr_pending \ Pins!FiresFall
      BY <1>1 DEF GpioTypeOK, SynchronousChange, Pins!Snapshot
    <2>3. /\ pending' = pending \cup Pins!FiresRise \cup Pins!FiresFall
          /\ UNCHANGED <<live, claimed, served>>
      BY <1>1 DEF SynchronousChange, Triggered, Pins!Fires
    <2> QED
      BY <2>1, <2>2, <2>3
  <1>2. CASE PinStep
    <2>1. UNCHANGED Flags
      <3>1. CASE Pins!ClientStep \/ Pins!WriteBack
        BY <3>1 DEF Pins!ClientStep, Pins!SetBit, Pins!AsyncOnchangeWrite,
           Pins!AsyncOnchangeCompare, Pins!WriteBack
      <3>2. ASSUME NEW nv \in SUBSET GpioPins, NEW register \in registers,
                   Pins!WritePlain(register, nv)
            PROVE  UNCHANGED Flags
        BY <3>2 DEF FlagsAreTheHandlers, GpioTypeOK, Pins!WritePlain
      <3>3. ASSUME NEW nv \in SUBSET GpioPins,
                   Pins!WritePort(nv) \/ Pins!WritePullupEn(nv) \/ Pins!WriteOutputEn(nv) \/ Pins!WriteIofEn(nv)
            PROVE  UNCHANGED Flags
        BY <3>3 DEF GpioTypeOK, Pins!WritePort, Pins!WritePullupEn, Pins!WriteOutputEn, Pins!WriteIofEn
      <3> QED
        BY <1>2, <3>1, <3>2, <3>3 DEF PinStep, Pins!RegisterWrite
    <2> QED
      BY <1>2, <2>1 DEF PinStep, vars
  <1>3. ASSUME NEW i \in Ids, Serve(i) PROVE PinsArmed'
    <2>1. i \in claimed /\ served' = served \cup {i} /\ UNCHANGED <<claimed, pending, live>>
      BY <1>3 DEF Serve, vars
    <2>2. CASE live = "pins"
      <3>1. /\ reg'.rise_intr_pending = reg.rise_intr_pending \cup {i}
            /\ reg'.fall_intr_pending = reg.fall_intr_pending \cup {i}
        BY <1>3, <2>2 DEF Serve, ServePin, Pins!Rearm, GpioTypeOK
      <3> QED
        BY <2>1, <2>2, <3>1
    <2>3. CASE live # "pins"
      <3>1. UNCHANGED <<reg, asyncEvent>>
        BY <1>3, <2>3 DEF Serve, ServeDma, ServeOther, gpioVars
      <3> QED
        BY <2>1, <2>3, <3>1
    <2> QED
      BY <2>2, <2>3
  <1>4. ASSUME NEW i \in Ids \cup {0}, ClaimStep(i) PROVE PinsArmed'
    <2>1. claimed = {} /\ served = {} /\ claimed' = {i} /\ pending' = pending \ {i}
      BY <1>4 DEF ClaimStep, Claim, AfterClaim
    <2> QED
      BY <1>4, <2>1 DEF ClaimStep, gpioVars
  <1>5. ASSUME NEW i \in Ids \cup {0}, CompleteStep(i) PROVE PinsArmed'
    <2>1. /\ claimed' = claimed \ {i} /\ served' = served \ {i} /\ pending' = pending
          /\ UNCHANGED <<reg, asyncEvent, live>>
      BY <1>5 DEF CompleteStep, Complete, gpioVars
    <2>2. i \notin GpioPins \/ i \in served
      BY <1>5, IrqAssumption DEF CompleteStep, Ids
    <2> QED
      BY <2>1, <2>2
  <1>6. CASE OtherDevice \/ DmaDone
    BY <1>6 DEF OtherDevice, GatewayTrigger, DmaDone, Triggered, gpioVars
  <1>7. CASE DmaStep \/ RunStep \/ Configure \/ ChannelStep \/ UNCHANGED platformVars
    <2>1. UNCHANGED <<reg, asyncEvent, pending, claimed, served, live>>
      BY <1>7 DEF DmaStep, RunStep, Run, Configure, WritePriority, WriteEnabled, WriteThreshold, Configured,
         ChannelStep, platformVars, deviceVars, vars, gpioVars
    <2> QED
      BY <2>1
  <1> QED
    BY <1>1, <1>2, <1>3, <1>4, <1>5, <1>6, <1>7 DEF PlatformNext

-----------------------------------------------------------------------------
(***************************************************************************)
(* The watchers of the pins.  A pin is known to the server by the id that  *)
(* its channel has, from the request on; the client has taken the id once  *)
(* its answer is there.  While a client is present the two agree, whatever *)
(* the threads are at, and all that is on its way is for a known pin.      *)
(***************************************************************************)
Asked == DOMAIN Functional
Asks(p) == [op |-> "REQ_IOF", pin |-> p, iof |-> Functional[p]]
Updates == {[id |-> n, pin |-> p, iof |-> Functional[p]] : n \in Nat, p \in Asked}

\* Clients that ask for a pin once and leave between two requests; and the next one
\* comes when nothing of the last is left.  There are ids enough for all pins.
ClientsBehave ==
    /\ ~LeavesEarly /\ ~ComesEarly /\ ~AsksAgain /\ LeavesWith \subseteq {"SPI"}
    /\ MaxIds \in Nat /\ IsFiniteSet(Asked) /\ Cardinality(Asked) <= MaxIds

ServerOK ==
    \/ server \in [at : {"accept", "read", "ended"}]
    \/ server \in [at : {"listen", "emplace"}, id : Nat, asked : {Asks(p) : p \in Asked}]
ActiveOK ==
    /\ DOMAIN active \subseteq Asked
    /\ active \in [DOMAIN active -> [id : Nat, iof : {Functional[p] : p \in Asked}]]
    /\ \A p \in DOMAIN active : active[p].iof = Functional[p]
PushOK ==
    \/ push = Idle
    \/ /\ push \in [at : {"write", "response", "close", "clear"}, pin : Asked, id : Nat,
                    iof : {Functional[p] : p \in Asked}]
       /\ push.iof = Functional[push.pin]
ProgramOK ==
    \/ program \in [at : {"away", "idle", "polling"}]
    \/ program \in {[at |-> "asking", pin |-> p, iof |-> Functional[p]] : p \in Asked}
DispatcherOK ==
    \/ dispatcher \in [at : {"none", "reading", "over"}]
    \/ dispatcher \in [at : {"locking"}, update : Updates]
ChannelsOK ==
    /\ DOMAIN channels \subseteq Nat
    /\ channels \in [DOMAIN channels -> {[pin |-> p, iof |-> Functional[p]] : p \in Asked}]
QueuesOK == updates \in Seq(Updates) /\ responses \in Seq(Asked)
FlagsOK ==
    /\ stop \in BOOLEAN /\ connected \in BOOLEAN
    /\ data \in {"none", "open", "stale", "reset"} /\ clientData \in {"none", "open", "over"}
    /\ request \in {NoRequest, [op |-> "GET_BANK"]} \cup {Asks(p) : p \in Asked}
    /\ dataChannel_m \in {"free", "program"}

ChannelTypeOK ==
    /\ ServerOK /\ ActiveOK /\ PushOK /\ ProgramOK
    /\ DispatcherOK /\ ChannelsOK /\ QueuesOK /\ FlagsOK

Present == program.at # "away"
Adding == server.at \in {"listen", "emplace"}
HasAnswer == program.at = "asking" /\ answer # Nothing

Requests ==
    /\ program.at \in {"away", "idle"} => request = NoRequest /\ answer = Nothing
    /\ answer # Nothing => request = NoRequest
    /\ program.at = "polling" => request.op # "REQ_IOF"
    /\ program.at = "asking" =>
        /\ request \in {NoRequest, Asks(program.pin)}
        /\ answer # Nothing => \E a \in [id : Nat, port : {"new", "old"}] : answer = <<a>>
    /\ dataChannel_m = "program" <=> program.at = "asking"

\* Only a server that is told to stop turns away from a client, and only a client
\* that is gone ends a push early.
Ends ==
    /\ server.at = "ended" \/ (Present /\ server.at = "accept") => stop
    /\ stop => push.at = "idle"
    /\ Present => push.at \notin {"close", "clear"}

\* A new port is waited for, and a client that is told the old one has used it.
PortsAgree ==
    /\ connected => server.at = "listen"
    /\ HasAnswer =>
        /\ answer[1].port = "new" => server.at = "listen" /\ ~connected
        /\ answer[1].port = "old" => clientData # "none"

DataChannels ==
    /\ ~Present =>
        /\ clientData = "none" /\ dispatcher.at = "none" /\ data # "open"
        /\ channels = Empty /\ updates = Nothing
    /\ Present => (dispatcher.at = "none" <=> clientData = "none")
    /\ Present /\ ~stop =>
        \/ data = "open" /\ clientData = "open"
        \/ /\ data = "none" /\ active = Empty /\ push.at = "idle" /\ server.at # "emplace"
           /\ clientData = (IF connected THEN "open" ELSE "none")

Known(p, n) ==
    \/ p \in DOMAIN active /\ active[p].id = n
    \/ Adding /\ server.asked.pin = p /\ server.id = n
Taken(p, n) ==
    \/ n \in DOMAIN channels /\ channels[n].pin = p
    \/ HasAnswer /\ program.pin = p /\ answer[1].id = n

IdsAgree ==
    Present =>
        /\ \A p \in Asked, n \in Nat : Known(p, n) <=> Taken(p, n)
        /\ \A p, q \in Asked, n, m \in Nat : Known(p, n) /\ Known(q, m) => (p = q <=> n = m)
        /\ \A p \in DOMAIN active : active[p].id < Cardinality(DOMAIN active)
        /\ Adding => server.id = Cardinality(DOMAIN active)
        /\ program.at = "asking" => \A n \in DOMAIN channels : channels[n].pin # program.pin

UpdatesAreKnown ==
    Present =>
        /\ push.at \in {"write", "response"} => Known(push.pin, push.id)
        /\ \A u \in InFlight : Known(u.pin, u.id)

\* A client that can go away has asked for nothing but SPI.
OnlySpi ==
    ~Present /\ ~stop =>
        /\ \A p \in DOMAIN active : Functional[p] = "SPI"
        /\ Adding => Functional[server.asked.pin] = "SPI"
        /\ push.at # "idle" => push.iof = "SPI"

\* A byte of SPI that is on its way, or its answer, is the only one.
OneByte ==
    /\ data = "reset" => push.at \in {"response", "close"} /\ responses = Nothing
    /\ push.at = "response" => push.iof = "SPI"
    /\ responses # Nothing => push.at = "response" /\ responses = <<push.pin>>
    /\ \A u \in InFlight :
        u.iof = "SPI" => push.at = "response" /\ u.pin = push.pin /\ responses = Nothing
    /\ \A j, k \in DOMAIN updates : updates[j].iof = "SPI" /\ updates[k].iof = "SPI" => j = k
    /\ dispatcher.at = "locking" /\ dispatcher.update.iof = "SPI" =>
        \A k \in DOMAIN updates : updates[k].iof # "SPI"

ChannelInv ==
    /\ ChannelTypeOK /\ Requests /\ Ends /\ PortsAgree /\ DataChannels
    /\ IdsAgree /\ UpdatesAreKnown /\ OnlySpi /\ OneByte

LEMMA ChannelInitHolds == GpioServerInit => ChannelInv
  <1> SUFFICES ASSUME GpioServerInit PROVE ChannelInv
    OBVIOUS
  <1> USE DEF GpioServerInit, Present, Adding, HasAnswer, Nothing, Idle, Empty
  <1>1. ChannelTypeOK
    <2>1. ServerOK /\ ActiveOK /\ PushOK /\ ProgramOK
      BY DEF ServerOK, ActiveOK, PushOK, ProgramOK
    <2>2. DispatcherOK /\ FlagsOK
      BY DEF DispatcherOK, FlagsOK
    <2>3. ChannelsOK
      BY DEF ChannelsOK
    <2>4. QueuesOK
      BY DEF QueuesOK
    <2> QED
      BY <2>1, <2>2, <2>3, <2>4 DEF ChannelTypeOK
  <1>2. Requests /\ Ends /\ PortsAgree /\ DataChannels
    BY DEF Requests, Ends, PortsAgree, DataChannels
  <1>3. IdsAgree /\ UpdatesAreKnown /\ OnlySpi /\ OneByte
    BY DEF IdsAgree, UpdatesAreKnown, OnlySpi, OneByte, InFlight
  <1> QED
    BY <1>1, <1>2, <1>3 DEF ChannelInv

LEMMA ActiveIsFinite == ClientsBehave /\ ActiveOK => IsFiniteSet(DOMAIN active)
  BY FS_Subset DEF ClientsBehave, ActiveOK

\* A new pin means that there are ids left, and the server takes the next one.
LEMMA NewIdIsFresh ==
    ASSUME ClientsBehave, ActiveOK, NEW p \in Asked \ DOMAIN active
    PROVE  findNewID = Cardinality(DOMAIN active) /\ findNewID \in Nat
  <1>1. IsFiniteSet(DOMAIN active) /\ IsFiniteSet(Asked) /\ DOMAIN active \subseteq Asked
    BY ActiveIsFinite DEF ClientsBehave, ActiveOK
  <1>2. Cardinality(DOMAIN active) \in Nat /\ Cardinality(Asked) \in Nat
    BY <1>1, FS_CardinalityType
  <1>3. Cardinality(DOMAIN active) < Cardinality(Asked)
    BY <1>1, <1>2, FS_Subset
  <1>4. Cardinality(DOMAIN active) < MaxIds
    BY <1>2, <1>3 DEF ClientsBehave
  <1> QED
    BY <1>2, <1>4 DEF findNewID

\* A pin is asked for once: the server has not heard of one that is still to be answered.
LEMMA AskedIsNew ==
    ASSUME ChannelInv, request.op = "REQ_IOF"
    PROVE  /\ Present /\ program.at = "asking" /\ answer = Nothing
           /\ program.pin \in Asked /\ request = Asks(program.pin)
           /\ \A n \in Nat : ~Known(program.pin, n)
           /\ program.pin \notin DOMAIN active
  <1>1. program.at = "asking" /\ answer = Nothing /\ Present
    BY DEF ChannelInv, ChannelTypeOK, ProgramOK, FlagsOK, Requests, Present, NoRequest
  <1>2. program.pin \in Asked /\ request = Asks(program.pin)
    BY <1>1 DEF ChannelInv, ChannelTypeOK, ProgramOK, Requests, NoRequest
  <1>3. \A n \in Nat : ~Taken(program.pin, n)
    BY <1>1 DEF ChannelInv, IdsAgree, Taken, HasAnswer
  <1>4. \A n \in Nat : ~Known(program.pin, n)
    BY <1>1, <1>2, <1>3 DEF ChannelInv, IdsAgree
  <1>5. program.pin \notin DOMAIN active
    BY <1>4 DEF ChannelInv, ChannelTypeOK, ActiveOK, Known
  <1> QED
    BY <1>1, <1>2, <1>4, <1>5

\* The steps of the server's thread stay in the types.
LEMMA ServerType ==
    ASSUME ClientsBehave, ChannelInv, Accept \/ ServerThread PROVE ChannelTypeOK'
  <1> USE DEF ChannelInv, ChannelTypeOK, ServerOK, ActiveOK, PushOK, ProgramOK, DispatcherOK,
              ChannelsOK, QueuesOK, FlagsOK, serverVars, clientVars
  <1>1. CASE Accept
    BY <1>1 DEF Accept, Idle
  <1>2. CASE GetBank
    BY <1>2 DEF GetBank, Hangup, Answer
  <1>3. CASE ReqIof
    <2>1. findNewID \in Nat
      BY <1>3, AskedIsNew, NewIdIsFresh DEF ReqIof
    <2> QED
      BY <1>3, <2>1 DEF ReqIof, Hangup, Answer, Requests, Asks, NoRequest
  <1>4. CASE AcceptData
    BY <1>4 DEF AcceptData
  <1>5. CASE Emplace
    BY <1>5 DEF Emplace, Emplaced, Continue, Asks
  <1>6. CASE ClientGone
    BY <1>6 DEF ClientGone
  <1>7. CASE EndAccepting
    BY <1>7 DEF EndAccepting
  <1> QED
    BY <1>1, <1>2, <1>3, <1>4, <1>5, <1>6, <1>7 DEF ServerThread

\* What the SystemC thread is about to write.
Pushed == [id |-> push.id, pin |-> push.pin, iof |-> push.iof]

LEMMA UpdateIsSent ==
    ASSUME PushOK, push.at # "idle", updates \in Seq(Updates)
    PROVE  Pushed \in Updates /\ Append(updates, Pushed) \in Seq(Updates)
  <1>1. Pushed \in Updates
    BY DEF PushOK, Idle, Pushed, Updates
  <1> QED
    BY <1>1

LEMMA PushMoves ==
    ASSUME PushOK, push.at # "idle", NEW at \in {"write", "response", "close", "clear"},
           push' = [push EXCEPT !.at = at]
    PROVE  PushOK'
  BY DEF PushOK, Idle

LEMMA PushType ==
    ASSUME ChannelInv, (\E pin \in Asked : FindChannel(pin)) \/ SystemCThread \/ Quit
    PROVE  ChannelTypeOK'
  <1> USE DEF ChannelInv, ChannelTypeOK, ServerOK, ActiveOK, PushOK, ProgramOK, DispatcherOK,
              ChannelsOK, QueuesOK, FlagsOK, serverVars, clientVars, Idle
  <1>1. ASSUME NEW pin \in Asked, FindChannel(pin) PROVE ChannelTypeOK'
    BY <1>1 DEF FindChannel
  <1>2. CASE WriteUpdate
    <2>1. PushOK'
      <3>1. push' = Idle \/ (\E at \in {"response", "close"} : push' = [push EXCEPT !.at = at])
        BY <1>2 DEF WriteUpdate, OneByte
      <3> QED
        BY <1>2, <3>1, PushMoves DEF WriteUpdate
    <2>2. updates' \in Seq(Updates)
      <3>1. push.at = "write" /\ updates' \in {updates, Append(updates, Pushed)}
        BY <1>2 DEF WriteUpdate, Pushed
      <3> QED
        BY <3>1, UpdateIsSent
    <2> QED
      BY <1>2, <2>1, <2>2 DEF WriteUpdate
  <1>3. CASE ReadResponse
    <2>1. PushOK'
      BY <1>3 DEF ReadResponse
    <2>2. responses' \in Seq(Asked)
      <3>1. CASE responses = Nothing
        BY <1>3, <3>1 DEF ReadResponse
      <3>2. CASE responses # Nothing
        <4>1. responses' = Tail(responses)
          BY <1>3, <3>2 DEF ReadResponse
        <4> QED
          BY <3>2, <4>1 DEF Nothing
      <3> QED
        BY <3>1, <3>2
    <2> QED
      BY <1>3, <2>1, <2>2 DEF ReadResponse
  <1>4. CASE CloseChannel
    <2>1. PushOK'
      BY <1>4, PushMoves DEF CloseChannel
    <2> QED
      BY <1>4, <2>1 DEF CloseChannel, CloseData
  <1>5. CASE ClearChannels
    BY <1>5 DEF ClearChannels, Empty
  <1>6. CASE Quit
    BY <1>6 DEF Quit, CloseData
  <1> QED
    BY <1>1, <1>2, <1>3, <1>4, <1>5, <1>6 DEF SystemCThread

LEMMA ClientType ==
    ASSUME ChannelInv,
           (\E pin \in Asked : Ask(pin)) \/ update \/ Program \/ Leave \/ DispatcherThread
    PROVE  ChannelTypeOK'
  <1> USE DEF ChannelInv, ChannelTypeOK, ServerOK, ActiveOK, PushOK, ProgramOK, DispatcherOK,
              ChannelsOK, QueuesOK, FlagsOK, serverVars, clientVars
  <1>1. ASSUME NEW pin \in Asked, Ask(pin) PROVE ChannelTypeOK'
    BY <1>1 DEF Ask, Asks
  <1>2. CASE update \/ Updated
    <2>1. ProgramOK' /\ FlagsOK'
      BY <1>2 DEF update, Updated, Idle
    <2> QED
      BY <1>2, <2>1 DEF update, Updated
  <1>3. CASE AddChannel
    BY <1>3 DEF AddChannel, Register, Emplaced, Requests, Idle
  <1>4. CASE OpenChannel
    BY <1>4 DEF OpenChannel, Register, Emplaced, Requests, Idle, Nothing
  <1>5. CASE Leave
    BY <1>5 DEF Leave, Depart, Nothing, Empty
  <1>6. CASE Fail
    BY <1>6 DEF Fail, Depart, Nothing, Empty
  <1>7. CASE ReadUpdate
    <2>1. Head(updates) \in Updates /\ Tail(updates) \in Seq(Updates)
      BY <1>7 DEF ReadUpdate, Nothing
    <2> QED
      BY <1>7, <2>1 DEF ReadUpdate
  <1>8. CASE Dispatch
    BY <1>8 DEF Dispatch, Handled
  <1>9. CASE StopDispatching
    BY <1>9 DEF StopDispatching, Over
  <1> QED
    BY <1>1, <1>2, <1>3, <1>4, <1>5, <1>6, <1>7, <1>8, <1>9 DEF Program, DispatcherThread

LEMMA ChannelTypeKept ==
    ASSUME ClientsBehave, ChannelInv, GpioServerNext PROVE ChannelTypeOK'
  BY ServerType, PushType, ClientType DEF GpioServerNext, Asked

LEMMA PollerAsks ==
    ASSUME ChannelInv, request.op = "GET_BANK" PROVE program.at = "polling"
  <1>1. request = [op |-> "GET_BANK"]
    BY DEF ChannelInv, ChannelTypeOK, FlagsOK, Asks, NoRequest
  <1>2. request # NoRequest /\ \A p \in Asked : request # Asks(p)
    BY <1>1 DEF Asks, NoRequest
  <1> QED
    BY <1>2 DEF ChannelInv, ChannelTypeOK, ProgramOK, Requests

LEMMA RequestsKept ==
    ASSUME ClientsBehave, ChannelInv, GpioServerNext PROVE Requests'
  <1> USE DEF ChannelInv, ChannelTypeOK, ProgramOK, FlagsOK, Requests, serverVars, clientVars, NoRequest, Nothing
  <1>1. CASE Accept
    BY <1>1 DEF Accept, Idle
  <1>2. CASE GetBank
    <2>1. program.at = "polling"
      BY <1>2, PollerAsks DEF GetBank
    <2>2. request' = NoRequest /\ UNCHANGED <<program, dataChannel_m>>
      BY <1>2 DEF GetBank, Hangup, Answer
    <2> QED
      BY <2>1, <2>2
  <1>3. CASE ReqIof
    <2>1. program.at = "asking" /\ program.pin \in Asked /\ findNewID \in Nat
      BY <1>3, AskedIsNew, NewIdIsFresh DEF ReqIof
    <2>2. request' = NoRequest /\ UNCHANGED <<program, dataChannel_m>>
      BY <1>3 DEF ReqIof, Hangup, Answer
    <2>3. answer' = answer \/ \E a \in [id : Nat, port : {"new", "old"}] : answer' = <<a>>
      BY <1>3, <2>1 DEF ReqIof, Hangup, Answer
    <2> QED
      BY <2>1, <2>2, <2>3
  <1>4. CASE update \/ Updated
    BY <1>4 DEF update, Updated, Idle
  <1>5. ASSUME NEW pin \in Asked, Ask(pin) PROVE Requests'
    BY <1>5 DEF Ask, Asks
  <1>6. CASE AddChannel \/ OpenChannel
    BY <1>6 DEF AddChannel, OpenChannel, Register, Idle
  <1>7. CASE Leave
    BY <1>7, ClientsBehave DEF Leave, Depart, ClientsBehave
  <1>8. CASE Fail
    BY <1>8 DEF Fail, Depart
  <1>9. CASE AcceptData \/ Emplace \/ ClientGone \/ EndAccepting \/ Quit
    BY <1>9 DEF AcceptData, Emplace, ClientGone, EndAccepting, Quit
  <1>10. CASE SystemCThread \/ (\E pin \in Asked : FindChannel(pin)) \/ DispatcherThread
    BY <1>10 DEF SystemCThread, FindChannel, WriteUpdate, ReadResponse, CloseChannel, ClearChannels,
       DispatcherThread, ReadUpdate, Dispatch, StopDispatching
  <1> QED
    BY <1>1, <1>2, <1>3, <1>4, <1>5, <1>6, <1>7, <1>8, <1>9, <1>10
    DEF GpioServerNext, ServerThread, Program, Asked

\* A program that fails does so since the server ends.
LEMMA FailureIsTheEnd == ASSUME ChannelInv, Fail PROVE stop /\ Present
  BY DEF ChannelInv, Fail, Ends, DataChannels, Present

LEMMA EndsKept ==
    ASSUME ClientsBehave, ChannelInv, GpioServerNext PROVE Ends'
  <1> USE DEF ChannelInv, ChannelTypeOK, ProgramOK, ServerOK, PushOK, FlagsOK, Ends, Present, serverVars,
              clientVars, Idle
  <1>1. CASE Accept
    BY <1>1 DEF Accept, ClientsBehave
  <1>2. CASE GetBank \/ ReqIof
    BY <1>2, AskedIsNew DEF GetBank, ReqIof, Hangup, Answer
  <1>3. CASE AcceptData
    BY <1>3 DEF AcceptData
  <1>4. CASE Emplace \/ ClientGone \/ EndAccepting
    BY <1>4 DEF Emplace, Continue, ClientGone, EndAccepting
  <1>5. CASE update \/ Updated \/ AddChannel \/ OpenChannel
    BY <1>5 DEF update, Updated, AddChannel, OpenChannel, Register
  <1>6. CASE (\E pin \in Asked : Ask(pin)) \/ DispatcherThread
    BY <1>6 DEF Ask, DispatcherThread, ReadUpdate, Dispatch, StopDispatching, Over
  <1>7. CASE Leave \/ Fail
    BY <1>7 DEF Leave, Fail, Depart
  <1>8. CASE Quit
    BY <1>8 DEF Quit
  <1>9. ASSUME NEW pin \in Asked, FindChannel(pin) PROVE Ends'
    BY <1>9 DEF FindChannel
  <1>10. CASE WriteUpdate
    BY <1>10 DEF WriteUpdate, DataChannels
  <1>11. CASE ReadResponse
    BY <1>11 DEF ReadResponse, DataChannels
  <1>12. CASE CloseChannel \/ ClearChannels
    BY <1>12 DEF CloseChannel, ClearChannels
  <1> QED
    BY <1>1, <1>2, <1>3, <1>4, <1>5, <1>6, <1>7, <1>8, <1>9, <1>10, <1>11, <1>12
    DEF GpioServerNext, ServerThread, SystemCThread, Program, Asked

LEMMA PortsKept ==
    ASSUME ClientsBehave, ChannelInv, GpioServerNext PROVE PortsAgree'
  <1> USE DEF ChannelInv, ChannelTypeOK, ProgramOK, ServerOK, FlagsOK, PortsAgree, HasAnswer, serverVars,
              clientVars, Idle, Nothing
  <1>1. CASE Accept
    BY <1>1 DEF Accept
  <1>2. CASE GetBank
    <2>1. program.at = "polling"
      BY <1>2, PollerAsks DEF GetBank
    <2> QED
      BY <1>2, <2>1 DEF GetBank, Hangup, Answer
  <1>3. CASE ReqIof
    <2>1. program.at = "asking"
      BY <1>3, AskedIsNew DEF ReqIof
    <2>2. CASE stop
      BY <1>3, <2>2 DEF ReqIof, Hangup
    <2>3. CASE ~stop
      <3>1. /\ server'.at = IF data = "none" THEN "listen" ELSE "emplace"
            /\ answer' = <<[id |-> findNewID, port |-> IF data = "none" THEN "new" ELSE "old"]>>
            /\ UNCHANGED <<program, connected, clientData>> /\ ~connected
        BY <1>3, <2>1, <2>3 DEF ReqIof, Answer
      <3>2. answer'[1].port = IF data = "none" THEN "new" ELSE "old"
        BY <3>1
      <3>3. data # "none" => clientData # "none"
        BY <2>1, <2>3 DEF DataChannels, Present
      <3> QED
        BY <3>1, <3>2, <3>3
    <2> QED
      BY <2>2, <2>3
  <1>4. CASE AcceptData
    BY <1>4 DEF AcceptData
  <1>5. CASE Emplace \/ ClientGone \/ EndAccepting
    BY <1>5 DEF Emplace, Continue, ClientGone, EndAccepting
  <1>6. CASE update \/ Updated
    BY <1>6 DEF update, Updated
  <1>7. ASSUME NEW pin \in Asked, Ask(pin) PROVE PortsAgree'
    BY <1>7 DEF Ask, Requests
  <1>8. CASE AddChannel
    BY <1>8 DEF AddChannel, Register
  <1>9. CASE OpenChannel
    BY <1>9 DEF OpenChannel, Register
  <1>10. CASE Leave \/ Fail
    BY <1>10 DEF Leave, Fail, Depart
  <1>11. CASE DispatcherThread
    BY <1>11 DEF DispatcherThread, ReadUpdate, Dispatch, StopDispatching, Over
  <1>12. CASE Quit \/ (\E pin \in Asked : FindChannel(pin)) \/ SystemCThread
    BY <1>12 DEF Quit, CloseData, SystemCThread, FindChannel, WriteUpdate, ReadResponse, CloseChannel, ClearChannels
  <1> QED
    BY <1>1, <1>2, <1>3, <1>4, <1>5, <1>6, <1>7, <1>8, <1>9, <1>10, <1>11, <1>12
    DEF GpioServerNext, ServerThread, Program, Asked

\* Nothing is in flight without a client, and what is in flight is an update.
LEMMA InFlightType ==
    ASSUME ChannelInv, NEW u \in InFlight PROVE u \in Updates /\ Present
  <1>1. CASE \E k \in DOMAIN updates : u = updates[k]
    BY <1>1 DEF ChannelInv, ChannelTypeOK, QueuesOK, DataChannels, Nothing
  <1>2. CASE dispatcher.at = "locking" /\ u = dispatcher.update
    BY <1>2 DEF ChannelInv, ChannelTypeOK, DispatcherOK, DataChannels
  <1> QED
    BY <1>1, <1>2 DEF InFlight

LEMMA HandlersAreThere == ChannelInv => UpdatesHaveHandlers
  <1> SUFFICES ASSUME ChannelInv, NEW u \in InFlight
               PROVE  IF u.id \in DOMAIN channels THEN channels[u.id] = [pin |-> u.pin, iof |-> u.iof]
                      ELSE dataChannel_m = "program" /\ program.pin = u.pin
    BY DEF UpdatesHaveHandlers
  <1>1. /\ u \in Updates /\ Present /\ Known(u.pin, u.id)
        /\ u.pin \in Asked /\ u.id \in Nat /\ u.iof = Functional[u.pin]
    BY InFlightType DEF ChannelInv, UpdatesAreKnown, Updates
  <1>2. Taken(u.pin, u.id)
    BY <1>1 DEF ChannelInv, IdsAgree
  <1>3. CASE u.id \in DOMAIN channels
    <2> DEFINE q == channels[u.id].pin
    <2>1. q \in Asked /\ channels[u.id] = [pin |-> q, iof |-> Functional[q]]
      BY <1>3 DEF ChannelInv, ChannelTypeOK, ChannelsOK
    <2>2. Known(q, u.id)
      BY <1>1, <1>3, <2>1 DEF ChannelInv, IdsAgree, Taken
    <2>3. q = u.pin
      BY <1>1, <2>1, <2>2 DEF ChannelInv, IdsAgree
    <2> QED
      BY <1>1, <1>3, <2>1, <2>3
  <1>4. CASE u.id \notin DOMAIN channels
    BY <1>2, <1>4 DEF Taken, HasAnswer, ChannelInv, Requests
  <1> QED
    BY <1>3, <1>4

\* So a dispatcher that has the mutex finds its handler.
LEMMA AlwaysHandled ==
    ASSUME ChannelInv, dispatcher.at = "locking", dataChannel_m = "free" PROVE Handled
  BY HandlersAreThere DEF UpdatesHaveHandlers, InFlight, Handled

LEMMA DataChannelsKept ==
    ASSUME ClientsBehave, ChannelInv, GpioServerNext PROVE DataChannels'
  <1> USE DEF ChannelInv, ChannelTypeOK, FlagsOK, DataChannels, Present, serverVars, clientVars
  <1>1. CASE Accept
    BY <1>1 DEF Accept, ClientsBehave, Idle, PortsAgree
  <1>2. CASE GetBank
    BY <1>2 DEF GetBank, Hangup, Answer
  <1>3. CASE ReqIof
    BY <1>3 DEF ReqIof, Hangup, Answer
  <1>4. CASE AcceptData
    BY <1>4 DEF AcceptData
  <1>5. CASE Emplace \/ ClientGone \/ EndAccepting
    BY <1>5 DEF Emplace, Continue, ClientGone, EndAccepting
  <1>6. CASE update \/ Updated \/ (\E pin \in Asked : Ask(pin))
    BY <1>6 DEF update, Updated, Ask, Idle
  <1>7. CASE AddChannel
    BY <1>7 DEF AddChannel, Register, Idle
  <1>8. CASE OpenChannel
    <2>1. Present /\ HasAnswer /\ clientData = "none" /\ answer[1].port # "old"
      BY <1>8 DEF OpenChannel, HasAnswer, PortsAgree
    <2>2. answer[1].port = "new" /\ server.at = "listen" /\ ~connected
      BY <2>1 DEF Requests, PortsAgree, HasAnswer
    <2> QED
      BY <1>8, <2>1, <2>2 DEF OpenChannel, Register, Idle
  <1>9. CASE Leave \/ Fail
    BY <1>9 DEF Leave, Fail, Depart
  <1>10. CASE ReadUpdate \/ Dispatch
    BY <1>10 DEF ReadUpdate, Dispatch
  <1>11. CASE StopDispatching
    <2>1. Present /\ dispatcher.at = "reading" /\ clientData = "over"
      BY <1>11, AlwaysHandled DEF StopDispatching
    <2>2. stop
      BY <2>1
    <2> QED
      BY <1>11, <2>1, <2>2 DEF StopDispatching, Over
  <1>12. CASE Quit
    BY <1>12 DEF Quit, CloseData
  <1>13. ASSUME NEW pin \in Asked, FindChannel(pin) PROVE DataChannels'
    BY <1>13 DEF FindChannel, Empty
  <1>14. CASE WriteUpdate
    BY <1>14 DEF WriteUpdate
  <1>15. CASE ReadResponse
    BY <1>15 DEF ReadResponse
  <1>16. CASE CloseChannel \/ ClearChannels
    <2>1. ~Present
      BY <1>16 DEF CloseChannel, ClearChannels, Ends
    <2> QED
      BY <1>16, <2>1 DEF CloseChannel, CloseData, ClearChannels
  <1> QED
    BY <1>1, <1>2, <1>3, <1>4, <1>5, <1>6, <1>7, <1>8, <1>9, <1>10, <1>11, <1>12, <1>13, <1>14, <1>15, <1>16
    DEF GpioServerNext, ServerThread, SystemCThread, Program, DispatcherThread, Asked

LEMMA OnlySpiKept ==
    ASSUME ClientsBehave, ChannelInv, GpioServerNext PROVE OnlySpi'
  <1> USE DEF ChannelInv, OnlySpi, Present, Adding, serverVars, clientVars
  <1>1. CASE Accept
    BY <1>1 DEF Accept, Idle
  <1>2. CASE GetBank
    BY <1>2 DEF GetBank, Hangup
  <1>3. CASE ReqIof
    BY <1>3, AskedIsNew DEF ReqIof
  <1>4. CASE AcceptData
    BY <1>4 DEF AcceptData, ChannelTypeOK, ServerOK
  <1>5. CASE Emplace
    BY <1>5 DEF Emplace, Emplaced, Continue
  <1>6. CASE ClientGone \/ EndAccepting
    BY <1>6 DEF ClientGone, EndAccepting
  <1>7. CASE update \/ Updated \/ AddChannel \/ OpenChannel \/ (\E pin \in Asked : Ask(pin))
    BY <1>7 DEF update, Updated, AddChannel, OpenChannel, Ask, Register, Idle
  <1>8. CASE Leave
    <2>1. program.at = "idle" /\ \A n \in DOMAIN channels : channels[n].iof \in LeavesWith
      BY <1>8 DEF Leave, ClientsBehave
    <2>2. ASSUME NEW p \in Asked, NEW n \in Nat, Known(p, n) PROVE Functional[p] = "SPI"
      <3>1. n \in DOMAIN channels /\ channels[n].pin = p
        BY <2>1, <2>2 DEF IdsAgree, Taken, HasAnswer
      <3>2. channels[n].iof = Functional[p]
        BY <3>1 DEF ChannelTypeOK, ChannelsOK
      <3> QED
        BY <2>1, <3>1, <3>2 DEF ClientsBehave
    <2>3. \A p \in DOMAIN active : Functional[p] = "SPI"
      BY <2>2 DEF Known, ChannelTypeOK, ActiveOK
    <2>4. Adding => Functional[server.asked.pin] = "SPI"
      BY <2>2 DEF Known, ChannelTypeOK, ServerOK, Asks
    <2>5. push.at # "idle" => push.iof = "SPI"
      BY <2>1, <2>2 DEF UpdatesAreKnown, Ends, ChannelTypeOK, PushOK, Idle
    <2> QED
      BY <1>8, <2>3, <2>4, <2>5 DEF Leave, Depart
  <1>9. CASE Fail
    BY <1>9, FailureIsTheEnd DEF Fail, Depart
  <1>10. CASE DispatcherThread
    BY <1>10 DEF DispatcherThread, ReadUpdate, Dispatch, StopDispatching
  <1>11. CASE Quit
    BY <1>11 DEF Quit
  <1>12. ASSUME NEW pin \in Asked, FindChannel(pin) PROVE OnlySpi'
    BY <1>12 DEF FindChannel, ChannelTypeOK, ActiveOK
  <1>13. CASE WriteUpdate
    BY <1>13 DEF WriteUpdate, ChannelTypeOK, PushOK, Idle, OneByte
  <1>14. CASE ReadResponse
    BY <1>14 DEF ReadResponse, ChannelTypeOK, PushOK, Idle
  <1>15. CASE CloseChannel
    BY <1>15 DEF CloseChannel, ChannelTypeOK, PushOK, Idle
  <1>16. CASE ClearChannels
    BY <1>16 DEF ClearChannels, Empty, Idle
  <1> QED
    BY <1>1, <1>2, <1>3, <1>4, <1>5, <1>6, <1>7, <1>8, <1>9, <1>10, <1>11, <1>12, <1>13, <1>14, <1>15, <1>16
    DEF GpioServerNext, ServerThread, SystemCThread, Program, Asked

\* What a step does to the pins' ids: nothing, unless a request or a client comes or goes.
LEMMA IdsUnchanged ==
    ASSUME IdsAgree, UNCHANGED <<active, channels, answer>>,
           server' = server \/ (~Adding /\ ~Adding'),
           program' = program \/ (program.at # "asking" /\ program'.at # "asking"),
           Present' => Present
    PROVE  IdsAgree'
  <1>1. \A p, n : (Known(p, n) <=> Known(p, n)') /\ (Taken(p, n) <=> Taken(p, n)')
    BY DEF Known, Taken, HasAnswer, Adding
  <1> QED
    BY <1>1 DEF IdsAgree, Adding

LEMMA ReqIofIds ==
    ASSUME ClientsBehave, ChannelInv, ReqIof PROVE IdsAgree'
  <1> DEFINE pin == program.pin
             new == Cardinality(DOMAIN active)
  <1>1. /\ Present /\ program.at = "asking" /\ answer = Nothing
        /\ pin \in Asked /\ request = Asks(pin) /\ pin \notin DOMAIN active
        /\ server.at = "read" /\ UNCHANGED <<program, active, channels>>
    BY AskedIsNew DEF ReqIof, clientVars
  <1>2. findNewID = new /\ new \in Nat
    BY <1>1, NewIdIsFresh DEF ChannelInv, ChannelTypeOK
  <1>3. CASE stop
    BY <1>1, <1>3, IdsUnchanged DEF ReqIof, Hangup, ChannelInv, Adding, Present
  <1>4. CASE ~stop
    <2>1. /\ server'.at \in {"listen", "emplace"} /\ server'.id = new /\ server'.asked.pin = pin
          /\ answer' # Nothing /\ answer'[1].id = new
      BY <1>1, <1>2, <1>4 DEF ReqIof, Answer, Asks, Nothing
    <2>2. \A p \in Asked, n \in Nat : Known(p, n)' <=> Known(p, n) \/ (p = pin /\ n = new)
      BY <1>1, <2>1 DEF Known, Adding
    <2>3. \A p \in Asked, n \in Nat : Taken(p, n)' <=> Taken(p, n) \/ (p = pin /\ n = new)
      BY <1>1, <2>1 DEF Taken, HasAnswer
    <2>4. \A p \in Asked, n \in Nat : Known(p, n) => p # pin /\ n < new
      BY <1>1 DEF ChannelInv, IdsAgree, Known, Adding
    <2>5. \A p \in Asked, n \in Nat : Known(p, n)' <=> Taken(p, n)'
      BY <1>1, <2>2, <2>3 DEF ChannelInv, IdsAgree
    <2>6. \A p, q \in Asked, n, m \in Nat : Known(p, n)' /\ Known(q, m)' => (p = q <=> n = m)
      <3> SUFFICES ASSUME NEW p \in Asked, NEW q \in Asked, NEW n \in Nat, NEW m \in Nat,
                          Known(p, n)', Known(q, m)'
                   PROVE  p = q <=> n = m
        OBVIOUS
      <3>1. CASE Known(p, n) /\ Known(q, m)
        BY <1>1, <3>1 DEF ChannelInv, IdsAgree
      <3>2. CASE Known(p, n) /\ q = pin /\ m = new
        BY <1>2, <2>4, <3>2
      <3>3. CASE Known(q, m) /\ p = pin /\ n = new
        BY <1>2, <2>4, <3>3
      <3> QED
        BY <2>2, <3>1, <3>2, <3>3
    <2> QED
      BY <1>1, <2>1, <2>5, <2>6 DEF ChannelInv, IdsAgree, Adding
  <1> QED
    BY <1>3, <1>4

\* The pin that the server adds has no channel yet.
LEMMA AddedIsNew ==
    ASSUME ChannelInv, Present, Adding PROVE server.asked.pin \notin DOMAIN active
  <1> DEFINE pin == server.asked.pin
  <1> SUFFICES ASSUME pin \in DOMAIN active PROVE FALSE
    OBVIOUS
  <1>1. /\ pin \in Asked /\ server.id \in Nat /\ active[pin].id \in Nat
        /\ Known(pin, active[pin].id) /\ Known(pin, server.id)
    BY DEF Known, ChannelInv, ChannelTypeOK, ActiveOK, ServerOK, Adding
  <1>2. active[pin].id = server.id
    BY <1>1 DEF ChannelInv, IdsAgree
  <1>3. active[pin].id < server.id
    BY <1>1 DEF ChannelInv, IdsAgree
  <1> QED
    BY <1>1, <1>2, <1>3

LEMMA EmplaceIds ==
    ASSUME ClientsBehave, ChannelInv, Emplace PROVE IdsAgree'
  <1> SUFFICES ASSUME Present' PROVE IdsAgree'
    BY DEF IdsAgree
  <1> DEFINE pin == server.asked.pin
             new == Cardinality(DOMAIN active)
  <1>1. /\ Present /\ Adding /\ pin \in Asked /\ server.id \in Nat
        /\ server.asked.iof = Functional[pin] /\ ~Adding' /\ UNCHANGED <<program, answer, channels>>
        /\ active' = Emplaced(active, pin, [id |-> server.id, iof |-> server.asked.iof])
    BY DEF Emplace, Continue, Present, Adding, ChannelInv, ChannelTypeOK, ServerOK, Asks, clientVars
  <1>2. server.id = new
    BY <1>1 DEF ChannelInv, IdsAgree
  <1>3. pin \notin DOMAIN active
    BY <1>1, AddedIsNew
  <1>4. /\ DOMAIN active' = DOMAIN active \cup {pin}
        /\ \A p \in DOMAIN active : active'[p] = active[p]
        /\ active'[pin].id = server.id
    BY <1>1, <1>3 DEF Emplaced
  <1>5. Cardinality(DOMAIN active') = new + 1 /\ new \in Nat
    <2>1. IsFiniteSet(DOMAIN active)
      BY ActiveIsFinite DEF ChannelInv, ChannelTypeOK
    <2> QED
      BY <1>3, <1>4, <2>1, FS_AddElement, FS_CardinalityType
  <1>6. \A p, n : (Known(p, n)' <=> Known(p, n)) /\ (Taken(p, n)' <=> Taken(p, n))
    BY <1>1, <1>3, <1>4 DEF Known, Taken, HasAnswer
  <1>7. \A p \in DOMAIN active' : active'[p].id < Cardinality(DOMAIN active')
    <2>1. \A p \in DOMAIN active : active[p].id \in Nat
      BY DEF ChannelInv, ChannelTypeOK, ActiveOK
    <2> QED
      BY <1>1, <1>2, <1>4, <1>5, <2>1 DEF ChannelInv, IdsAgree
  <1> QED
    BY <1>1, <1>6, <1>7 DEF ChannelInv, IdsAgree

\* The client's entry takes what the answer has told.
LEMMA RegisterIds ==
    ASSUME ChannelInv, HasAnswer, Register(answer[1].id), UNCHANGED <<server, active>>
    PROVE  IdsAgree'
  <1> DEFINE n0 == answer[1].id
             pin == program.pin
  <1>1. program.at = "asking" /\ Present /\ pin \in Asked /\ n0 \in Nat
    BY DEF HasAnswer, Present, ChannelInv, ChannelTypeOK, ProgramOK, Requests
  <1>2. n0 \notin DOMAIN channels
    <2> SUFFICES ASSUME n0 \in DOMAIN channels PROVE FALSE
      OBVIOUS
    <2> DEFINE q == channels[n0].pin
    <2>1. q \in Asked /\ q # pin
      BY <1>1 DEF ChannelInv, ChannelTypeOK, ChannelsOK, IdsAgree
    <2>2. Taken(q, n0) /\ Taken(pin, n0)
      BY DEF Taken
    <2> QED
      BY <1>1, <2>1, <2>2 DEF ChannelInv, IdsAgree
  <1>3. /\ DOMAIN channels' = DOMAIN channels \cup {n0}
        /\ \A n \in DOMAIN channels : channels'[n] = channels[n]
        /\ channels'[n0].pin = pin
        /\ program'.at = "idle"
    BY <1>2 DEF Register, Idle, Emplaced
  <1>4. \A p, n : (Known(p, n)' <=> Known(p, n)) /\ (Taken(p, n)' <=> Taken(p, n))
    BY <1>2, <1>3 DEF Known, Taken, HasAnswer, Adding
  <1> QED
    BY <1>1, <1>3, <1>4 DEF ChannelInv, IdsAgree, Adding

LEMMA IdsKept ==
    ASSUME ClientsBehave, ChannelInv, GpioServerNext PROVE IdsAgree'
  <1> USE DEF Present, Adding, serverVars, clientVars
  <1>0. IdsAgree
    BY DEF ChannelInv
  <1>1. CASE Accept
    <2>1. /\ active' = Empty /\ channels' = Empty /\ server'.at = "read" /\ program'.at = "idle"
      BY <1>1 DEF Accept, ClientsBehave, ChannelInv, DataChannels, Idle
    <2> QED
      BY <2>1 DEF IdsAgree, Known, Taken, HasAnswer, Empty
  <1>2. CASE GetBank
    <2>1. program.at = "polling" /\ UNCHANGED <<program, active, channels>>
      BY <1>2, PollerAsks DEF GetBank, ChannelInv
    <2>2. ~Adding /\ ~Adding'
      BY <1>2 DEF GetBank, Hangup
    <2>3. \A p, n : (Known(p, n)' <=> Known(p, n)) /\ (Taken(p, n)' <=> Taken(p, n))
      BY <2>1, <2>2 DEF Known, Taken, HasAnswer
    <2> QED
      BY <1>0, <2>1, <2>2, <2>3 DEF IdsAgree
  <1>3. CASE AcceptData
    <2>1. /\ server'.at = "emplace" /\ server'.id = server.id /\ server'.asked = server.asked /\ server.at = "listen"
          /\ UNCHANGED <<program, active, channels, answer>>
      BY <1>3 DEF AcceptData, ChannelInv, ChannelTypeOK, ServerOK
    <2>2. \A p, n : (Known(p, n)' <=> Known(p, n)) /\ (Taken(p, n)' <=> Taken(p, n))
      BY <2>1 DEF Known, Taken, HasAnswer
    <2> QED
      BY <1>0, <2>1, <2>2 DEF IdsAgree
  <1>4. CASE ClientGone \/ EndAccepting
    BY <1>0, <1>4, IdsUnchanged DEF ClientGone, EndAccepting
  <1>5. CASE update \/ Updated
    <2>1. /\ program.at # "asking" /\ program'.at # "asking" /\ Present
          /\ UNCHANGED <<server, active, channels>>
      BY <1>5 DEF update, Updated, Idle
    <2>2. \A p, n : (Known(p, n)' <=> Known(p, n)) /\ (Taken(p, n)' <=> Taken(p, n))
      BY <2>1 DEF Known, Taken, HasAnswer
    <2> QED
      BY <1>0, <2>1, <2>2 DEF IdsAgree
  <1>6. ASSUME NEW pin \in Asked, Ask(pin) PROVE IdsAgree'
    <2>1. /\ program.at = "idle" /\ program'.at = "asking" /\ program'.pin = pin /\ Present /\ answer' = Nothing
          /\ UNCHANGED <<server, active, channels>> /\ \A n \in DOMAIN channels : channels[n].pin # pin
      BY <1>6 DEF Ask, ChannelInv, Requests, ClientsBehave
    <2>2. \A p, n : (Known(p, n)' <=> Known(p, n)) /\ (Taken(p, n)' <=> Taken(p, n))
      BY <2>1 DEF Known, Taken, HasAnswer
    <2> QED
      BY <1>0, <2>1, <2>2 DEF IdsAgree
  <1>7. CASE AddChannel \/ OpenChannel
    BY <1>7, RegisterIds DEF AddChannel, OpenChannel, HasAnswer
  <1>8. CASE Leave \/ Fail
    BY <1>8 DEF Leave, Fail, Depart, IdsAgree
  <1>9. CASE DispatcherThread
    BY <1>0, <1>9, IdsUnchanged DEF DispatcherThread, ReadUpdate, Dispatch, StopDispatching
  <1>10. CASE Quit \/ (\E pin \in Asked : FindChannel(pin)) \/ WriteUpdate \/ ReadResponse \/ CloseChannel
    BY <1>0, <1>10, IdsUnchanged DEF Quit, FindChannel, WriteUpdate, ReadResponse, CloseChannel
  <1>11. CASE ClearChannels
    BY <1>11 DEF ClearChannels, ChannelInv, Ends, IdsAgree
  <1> QED
    BY <1>1, <1>2, <1>3, <1>4, <1>5, <1>6, <1>7, <1>8, <1>9, <1>10, <1>11, ReqIofIds, EmplaceIds
    DEF GpioServerNext, ServerThread, SystemCThread, Program, Asked

\* A pin stays known for as long as its client is there.
LEMMA KnownStays ==
    ASSUME ChannelInv, GpioServerNext, Present, NEW p \in Asked, NEW n \in Nat, Known(p, n)
    PROVE  Known(p, n)'
  <1> USE DEF Known, Adding, Present, serverVars, clientVars
  <1>1. CASE Accept \/ ClearChannels
    BY <1>1 DEF Accept, ClearChannels, ChannelInv, Ends
  <1>2. CASE GetBank \/ ReqIof \/ ClientGone \/ EndAccepting
    BY <1>2 DEF GetBank, ReqIof, ClientGone, EndAccepting
  <1>3. CASE AcceptData
    BY <1>3 DEF AcceptData, ChannelInv, ChannelTypeOK, ServerOK
  <1>4. CASE Emplace
    <2>1. Adding /\ server.asked.pin \notin DOMAIN active
      BY <1>4, AddedIsNew DEF Emplace
    <2> QED
      BY <1>4, <2>1 DEF Emplace, Emplaced
  <1>5. UNCHANGED <<server, active>> => Known(p, n)'
    OBVIOUS
  <1>6. CASE Program \/ Leave \/ update \/ DispatcherThread \/ (\E pin \in Asked : Ask(pin))
    BY <1>5, <1>6 DEF Program, Updated, AddChannel, OpenChannel, Fail, Leave, Depart, update, Ask,
       DispatcherThread, ReadUpdate, Dispatch, StopDispatching
  <1>7. CASE WriteUpdate \/ ReadResponse \/ CloseChannel \/ Quit \/ (\E pin \in Asked : FindChannel(pin))
    BY <1>5, <1>7 DEF WriteUpdate, ReadResponse, CloseChannel, Quit, FindChannel
  <1> QED
    BY <1>1, <1>2, <1>3, <1>4, <1>6, <1>7 DEF GpioServerNext, ServerThread, SystemCThread, Asked

\* Only the SystemC thread puts an update on its way.
LEMMA InFlightGrows ==
    ASSUME ChannelInv, GpioServerNext, NEW u \in InFlight'
    PROVE  u \in InFlight \/ (WriteUpdate /\ push.at = "write" /\ data = "open" /\ u = Pushed)
  <1> USE DEF InFlight, serverVars, clientVars
  <1>1. CASE WriteUpdate
    <2>1. CASE updates' = updates
      BY <1>1, <2>1 DEF WriteUpdate
    <2>2. CASE updates' # updates
      <3>1. updates' = Append(updates, Pushed) /\ dispatcher' = dispatcher /\ data = "open" /\ push.at = "write"
        BY <1>1, <2>2 DEF WriteUpdate, Pushed
      <3>2. \A k \in DOMAIN updates' : updates'[k] = Pushed \/ (k \in DOMAIN updates /\ updates'[k] = updates[k])
        BY <3>1 DEF ChannelInv, ChannelTypeOK, QueuesOK
      <3> QED
        BY <1>1, <3>1, <3>2
    <2> QED
      BY <2>1, <2>2
  <1>2. CASE ReadUpdate
    <2>1. updates # << >> /\ dispatcher' = [at |-> "locking", update |-> Head(updates)] /\ updates' = Tail(updates)
      BY <1>2 DEF ReadUpdate, Nothing
    <2>2. \A k \in DOMAIN updates' : k + 1 \in DOMAIN updates /\ updates'[k] = updates[k + 1]
      BY <2>1 DEF ChannelInv, ChannelTypeOK, QueuesOK
    <2>3. 1 \in DOMAIN updates /\ Head(updates) = updates[1]
      BY <2>1 DEF ChannelInv, ChannelTypeOK, QueuesOK
    <2> QED
      BY <2>1, <2>2, <2>3
  <1>3. CASE OpenChannel
    BY <1>3 DEF OpenChannel, Nothing
  <1>4. CASE Leave \/ Fail
    BY <1>4 DEF Leave, Fail, Depart, Nothing
  <1>5. CASE Dispatch \/ StopDispatching
    BY <1>5 DEF Dispatch, StopDispatching, Over
  <1>6. CASE Accept \/ ServerThread \/ Quit \/ update \/ Updated \/ AddChannel
    BY <1>6 DEF Accept, ServerThread, GetBank, ReqIof, AcceptData, Emplace, ClientGone, EndAccepting, Quit,
       update, Updated, AddChannel
  <1>7. CASE ReadResponse \/ CloseChannel \/ ClearChannels \/ (\E pin \in Asked : FindChannel(pin) \/ Ask(pin))
    BY <1>7 DEF ReadResponse, CloseChannel, ClearChannels, FindChannel, Ask
  <1> QED
    BY <1>1, <1>2, <1>3, <1>4, <1>5, <1>6, <1>7
    DEF GpioServerNext, SystemCThread, Program, DispatcherThread, Asked

LEMMA PushesGrow ==
    ASSUME ChannelInv, GpioServerNext, push'.at \in {"write", "response"}
    PROVE  \/ push.at \in {"write", "response"} /\ push'.pin = push.pin /\ push'.id = push.id
           \/ \E pin \in DOMAIN active :
                 push'.pin = pin /\ push'.id = active[pin].id /\ UNCHANGED <<active, server, program>>
  <1> USE DEF ChannelInv, ChannelTypeOK, PushOK, Idle, serverVars, clientVars
  <1>1. ASSUME NEW pin \in Asked, FindChannel(pin)
        PROVE  pin \in DOMAIN active /\ push'.pin = pin /\ push'.id = active[pin].id /\ UNCHANGED <<active, server, program>>
    BY <1>1 DEF FindChannel
  <1>2. CASE WriteUpdate
    BY <1>2 DEF WriteUpdate
  <1>3. CASE ReadResponse \/ CloseChannel \/ ClearChannels
    BY <1>3 DEF ReadResponse, CloseChannel, ClearChannels
  <1>4. push' = push => push.at \in {"write", "response"} /\ push'.pin = push.pin /\ push'.id = push.id
    OBVIOUS
  <1>5. CASE Accept \/ ServerThread \/ Quit \/ update
    BY <1>4, <1>5 DEF Accept, ServerThread, GetBank, ReqIof, AcceptData, Emplace, ClientGone, EndAccepting, Quit, update
  <1>6. CASE Program \/ Leave \/ DispatcherThread \/ (\E pin \in Asked : Ask(pin))
    BY <1>4, <1>6 DEF Program, Updated, AddChannel, OpenChannel, Fail, Leave, Depart, Ask,
       DispatcherThread, ReadUpdate, Dispatch, StopDispatching
  <1> QED
    BY <1>1, <1>2, <1>3, <1>5, <1>6 DEF GpioServerNext, SystemCThread, Asked

LEMMA UpdatesKnownKept ==
    ASSUME ClientsBehave, ChannelInv, GpioServerNext PROVE UpdatesAreKnown'
  <1> SUFFICES ASSUME Present'
               PROVE  /\ push'.at \in {"write", "response"} => Known(push.pin, push.id)'
                      /\ \A u \in InFlight' : Known(u.pin, u.id)'
    BY DEF UpdatesAreKnown
  <1>1. CASE ~Present
    <2>1. Accept
      BY <1>1 DEF GpioServerNext, ServerThread, SystemCThread, Program, DispatcherThread, Present, serverVars, clientVars,
         GetBank, ReqIof, AcceptData, Emplace, ClientGone, EndAccepting, WriteUpdate, ReadResponse,
         CloseChannel, ClearChannels, Updated, AddChannel, OpenChannel, Fail, Depart, ReadUpdate, Dispatch, StopDispatching,
         Quit, update, Leave, FindChannel, Ask
    <2>2. push'.at = "idle"
      BY <2>1 DEF Accept, ClientsBehave, Idle
    <2>3. ~WriteUpdate
      BY <2>1 DEF Accept, ClientsBehave, WriteUpdate, Idle
    <2> QED
      BY <1>1, <2>2, <2>3, InFlightGrows, InFlightType
  <1>2. CASE Present
    <2>1. ASSUME push'.at \in {"write", "response"} PROVE Known(push.pin, push.id)'
      <3>1. CASE push.at \in {"write", "response"} /\ push'.pin = push.pin /\ push'.id = push.id
        <4>1. push.pin \in Asked /\ push.id \in Nat /\ Known(push.pin, push.id)
          BY <1>2, <3>1 DEF ChannelInv, ChannelTypeOK, PushOK, Idle, UpdatesAreKnown
        <4> QED
          BY <1>2, <3>1, <4>1, KnownStays DEF Known, Adding
      <3>2. CASE \E pin \in DOMAIN active :
                   push'.pin = pin /\ push'.id = active[pin].id /\ UNCHANGED <<active, server, program>>
        BY <3>2 DEF Known
      <3> QED
        BY <2>1, <3>1, <3>2, PushesGrow
    <2>2. ASSUME NEW u \in InFlight' PROVE Known(u.pin, u.id)'
      <3>1. u \in Updates /\ Known(u.pin, u.id)
        <4>1. CASE u \in InFlight
          BY <1>2, <4>1, InFlightType DEF ChannelInv, UpdatesAreKnown
        <4>2. CASE push.at = "write" /\ u = Pushed
          <5>1. u \in Updates /\ u.pin = push.pin /\ u.id = push.id
            BY <4>2, UpdateIsSent DEF ChannelInv, ChannelTypeOK, QueuesOK, Pushed
          <5> QED
            BY <1>2, <4>2, <5>1 DEF ChannelInv, UpdatesAreKnown
        <4> QED
          BY <4>1, <4>2, InFlightGrows
      <3>2. u.pin \in Asked /\ u.id \in Nat
        BY <3>1 DEF Updates
      <3> QED
        BY <1>2, <3>1, <3>2, KnownStays
    <2> QED
      BY <2>1, <2>2
  <1> QED
    BY <1>1, <1>2

\* No byte and no answer is on its way while the SystemC thread does not wait for one;
\* and while it does and its client is there, the data channel is open.
LEMMA OneByteKept ==
    ASSUME ClientsBehave, ChannelInv, GpioServerNext PROVE OneByte'
  <1> USE DEF serverVars, clientVars
  <1>0. /\ OneByte /\ Ends /\ updates \in Seq(Updates) /\ responses \in Seq(Asked)
        /\ Present /\ ~stop => data \in {"none", "open"}
        /\ Present /\ ~stop /\ push.at # "idle" => data = "open"
    BY DEF ChannelInv, ChannelTypeOK, QueuesOK, DataChannels
  <1>1. ASSUME UNCHANGED <<push, responses, updates, dispatcher>>, data' = data \/ data' # "reset" PROVE OneByte'
    BY <1>0, <1>1 DEF OneByte, InFlight
  <1>2. CASE WriteUpdate
    <2>1. push.at = "write" /\ ~stop /\ responses = Nothing /\ data # "reset"
          /\ \A u \in InFlight : u.iof # "SPI"
      BY <1>0, <1>2 DEF WriteUpdate, OneByte, Ends
    <2>2. UNCHANGED <<responses, dispatcher>>
      BY <1>2 DEF WriteUpdate
    <2>3. ASSUME push.iof = "SPI" PROVE [push EXCEPT !.at = "response"].pin = push.pin
              /\ [push EXCEPT !.at = "response"].iof = "SPI" /\ [push EXCEPT !.at = "response"].at = "response"
      BY <2>1, <2>3 DEF ChannelInv, ChannelTypeOK, PushOK, Idle
    <2>4. CASE data = "none"
      <3>1. push'.at = "close" /\ data' = data /\ updates' = updates
        BY <1>2, <2>1, <2>4 DEF WriteUpdate, ChannelInv, ChannelTypeOK, PushOK, Idle
      <3> QED
        BY <1>0, <2>1, <2>2, <2>4, <3>1 DEF OneByte, InFlight
    <2>5. CASE data = "stale"
      <3>1. ~Present
        BY <1>0, <2>1, <2>5
      <3>2. push.iof = "SPI"
        BY <2>1, <3>1 DEF ChannelInv, OnlySpi
      <3>3. push'.at = "response" /\ push'.iof = "SPI" /\ updates' = updates
        BY <1>2, <2>3, <2>5, <3>2 DEF WriteUpdate
      <3> QED
        BY <1>0, <2>1, <2>2, <3>3 DEF OneByte, InFlight
    <2>6. CASE data = "open"
      <3>1. /\ updates' = Append(updates, Pushed) /\ data' = data
            /\ push' = IF push.iof = "SPI" THEN [push EXCEPT !.at = "response"] ELSE Idle
        BY <1>2, <2>6 DEF WriteUpdate, Pushed
      <3>2. /\ \A k \in DOMAIN updates' :
                 IF k = Len(updates) + 1 THEN updates'[k] = Pushed
                 ELSE k \in DOMAIN updates /\ updates'[k] = updates[k]
        BY <1>0, <3>1
      <3>3. \A k \in DOMAIN updates : updates[k].iof # "SPI"
        BY <2>1 DEF InFlight
      <3>4. dispatcher.at = "locking" => dispatcher.update.iof # "SPI"
        BY <2>1 DEF InFlight
      <3>5. Pushed.iof = push.iof /\ Pushed.pin = push.pin
        BY DEF Pushed
      <3>6. CASE push.iof = "SPI"
        <4>1. push'.at = "response" /\ push'.pin = push.pin /\ push'.iof = "SPI"
          BY <2>3, <3>1, <3>6
        <4>2. \A u \in InFlight' : u.iof = "SPI" => u.pin = push.pin
          BY <2>2, <3>2, <3>3, <3>4, <3>5 DEF InFlight
        <4> QED
          BY <2>1, <2>2, <2>6, <3>1, <3>2, <3>3, <3>4, <4>1, <4>2 DEF OneByte
      <3>7. CASE push.iof # "SPI"
        <4>1. push'.at = "idle"
          BY <3>1, <3>7 DEF Idle
        <4>2. \A u \in InFlight' : u.iof # "SPI"
          BY <2>2, <3>2, <3>3, <3>4, <3>5, <3>7 DEF InFlight
        <4> QED
          BY <2>1, <2>2, <2>6, <3>1, <3>2, <3>3, <3>4, <3>5, <3>7, <4>1, <4>2 DEF OneByte
      <3> QED
        BY <3>6, <3>7
    <2> QED
      BY <1>2, <2>1, <2>4, <2>5, <2>6 DEF WriteUpdate
  <1>3. CASE ReadResponse
    <2>1. push.at = "response" /\ ~stop /\ UNCHANGED <<data, updates, dispatcher>>
      BY <1>0, <1>3 DEF ReadResponse, Ends
    <2>2. CASE responses # Nothing
      <3>1. responses = <<push.pin>> /\ responses' = Tail(responses) /\ push'.at = "idle"
        BY <1>0, <1>3, <2>2 DEF ReadResponse, OneByte, Idle
      <3>2. responses' = Nothing
        BY <3>1 DEF Nothing
      <3> QED
        BY <1>0, <2>1, <2>2, <3>1, <3>2 DEF OneByte, InFlight
    <2>3. CASE responses = Nothing
      <3>1. push' = [push EXCEPT !.at = "close"] /\ responses' = responses /\ data # "open"
        BY <1>3, <2>3 DEF ReadResponse
      <3>2. push'.at = "close"
        BY <2>1, <3>1 DEF ChannelInv, ChannelTypeOK, PushOK, Idle
      <3>3. ~Present
        BY <1>0, <2>1, <3>1
      <3>4. InFlight = {}
        BY <3>3, InFlightType
      <3> QED
        BY <1>0, <2>1, <2>3, <3>1, <3>2, <3>4 DEF OneByte, InFlight
    <2> QED
      BY <2>2, <2>3
  <1>4. CASE CloseChannel \/ ClearChannels
    <2>1. /\ push.at \in {"close", "clear"} /\ push'.at # "response" /\ responses = Nothing
          /\ data' = data \/ data' = "none"
          /\ UNCHANGED <<responses, updates, dispatcher>>
      BY <1>0, <1>4
      DEF CloseChannel, ClearChannels, CloseData, OneByte, ChannelInv, ChannelTypeOK, PushOK, Idle
    <2>2. data' # "reset"
      BY <1>0, <1>4, <2>1 DEF CloseChannel, ClearChannels, CloseData, OneByte
    <2> QED
      BY <1>0, <2>1, <2>2 DEF OneByte, InFlight
  <1>5. ASSUME NEW pin \in Asked, FindChannel(pin) PROVE OneByte'
    BY <1>0, <1>5 DEF FindChannel, OneByte, InFlight
  <1>6. CASE ReadUpdate
    <2>1. /\ updates # << >> /\ updates' = Tail(updates) /\ dispatcher.at # "locking"
          /\ dispatcher' = [at |-> "locking", update |-> Head(updates)]
          /\ UNCHANGED <<data, push, responses>>
      BY <1>6 DEF ReadUpdate, Nothing
    <2>2. /\ \A k \in DOMAIN updates' : k + 1 \in DOMAIN updates /\ updates'[k] = updates[k + 1]
          /\ 1 \in DOMAIN updates /\ Head(updates) = updates[1]
          /\ DOMAIN updates' \subseteq Nat \ {0}
      BY <1>0, <2>1
    <2>3. \A u \in InFlight' : u \in InFlight
      BY <2>1, <2>2 DEF InFlight
    <2>4. \A j, k \in DOMAIN updates' : updates'[j].iof = "SPI" /\ updates'[k].iof = "SPI" => j = k
      BY <1>0, <2>2 DEF OneByte
    <2>5. updates[1].iof = "SPI" => \A k \in DOMAIN updates' : updates'[k].iof # "SPI"
      BY <1>0, <2>2 DEF OneByte
    <2> QED
      BY <1>0, <2>1, <2>2, <2>3, <2>4, <2>5 DEF OneByte
  <1>7. CASE Dispatch
    <2> DEFINE u == dispatcher.update
    <2>1. /\ dispatcher.at = "locking" /\ u \in InFlight /\ u.id \in DOMAIN channels
          /\ dispatcher'.at = "reading"
          /\ UNCHANGED <<data, push, updates>>
      BY <1>7 DEF Dispatch, Handled, InFlight
    <2>2. channels[u.id].pin = u.pin /\ channels[u.id].iof = u.iof
      <3>1. UpdatesHaveHandlers
        BY HandlersAreThere
      <3>2. channels[u.id] = [pin |-> u.pin, iof |-> u.iof]
        BY <2>1, <3>1 DEF UpdatesHaveHandlers
      <3> QED
        BY <3>2
    <2>3. InFlight' \subseteq InFlight
      BY <2>1 DEF InFlight
    <2>4. CASE u.iof = "SPI"
      <3>1. push.at = "response" /\ u.pin = push.pin /\ responses = Nothing
        BY <1>0, <2>1, <2>4 DEF OneByte
      <3>2. responses' = <<push.pin>>
        BY <1>7, <2>2, <2>4, <3>1 DEF Dispatch, Nothing
      <3>3. data # "reset"
        BY <1>0, <2>1, <3>1, InFlightType DEF Ends
      <3>4. \A v \in InFlight' : v.iof # "SPI"
        BY <1>0, <2>1, <2>4 DEF OneByte, InFlight
      <3> QED
        BY <1>0, <2>1, <3>1, <3>2, <3>3, <3>4 DEF OneByte
    <2>5. CASE u.iof # "SPI"
      <3>1. responses' = responses
        BY <1>7, <2>2, <2>5 DEF Dispatch
      <3> QED
        BY <1>0, <2>1, <2>3, <3>1 DEF OneByte
    <2> QED
      BY <2>4, <2>5
  <1>8. CASE StopDispatching
    <2>1. /\ dispatcher'.at = "over" /\ data' \in {data, "stale"}
          /\ UNCHANGED <<push, updates, responses>>
      BY <1>8 DEF StopDispatching, Over
    <2> QED
      BY <1>0, <2>1 DEF OneByte, InFlight
  <1>9. CASE Leave \/ Fail
    <2>1. /\ dispatcher'.at = "none" /\ updates' = Nothing /\ data' \in {data, "stale"}
          /\ UNCHANGED <<push, responses>>
      BY <1>9 DEF Leave, Fail, Depart
    <2> QED
      BY <1>0, <2>1 DEF OneByte, InFlight, Nothing
  <1>10. CASE OpenChannel
    <2>1. /\ dispatcher'.at # "locking" /\ updates' = Nothing /\ responses' = Nothing
          /\ UNCHANGED <<push, data>>
      BY <1>10 DEF OpenChannel
    <2> QED
      BY <1>0, <2>1 DEF OneByte, InFlight, Nothing
  <1>11. CASE AcceptData
    BY <1>1, <1>11 DEF AcceptData
  <1>12. CASE Quit
    BY <1>1, <1>12 DEF Quit, CloseData
  <1>13. CASE Accept \/ GetBank \/ ReqIof \/ Emplace \/ ClientGone \/ EndAccepting
    BY <1>1, <1>13 DEF Accept, GetBank, ReqIof, Emplace, ClientGone, EndAccepting
  <1>14. CASE update \/ Updated \/ AddChannel \/ (\E pin \in Asked : Ask(pin))
    BY <1>1, <1>14 DEF update, Updated, AddChannel, Ask
  <1> QED
    BY <1>2, <1>3, <1>4, <1>5, <1>6, <1>7, <1>8, <1>9, <1>10, <1>11, <1>12, <1>13, <1>14
    DEF GpioServerNext, ServerThread, SystemCThread, Program, DispatcherThread, Asked

LEMMA ChannelNextKeeps ==
    ASSUME ClientsBehave, ChannelInv, [GpioServerNext]_channelVars PROVE ChannelInv'
  <1>1. CASE GpioServerNext
    BY <1>1, ChannelTypeKept, RequestsKept, EndsKept, PortsKept, DataChannelsKept, IdsKept,
       UpdatesKnownKept, OnlySpiKept, OneByteKept DEF ChannelInv
  <1>2. CASE UNCHANGED channelVars
    <2> USE <1>2 DEF channelVars, serverVars, clientVars, Present, Adding, HasAnswer
    <2>1. ChannelTypeOK' /\ Requests' /\ Ends' /\ PortsAgree' /\ DataChannels'
      BY DEF ChannelInv, ChannelTypeOK, ServerOK, ActiveOK, PushOK, ProgramOK, DispatcherOK, ChannelsOK,
         QueuesOK, FlagsOK, Requests, Ends, PortsAgree, DataChannels
    <2>2. \A p, n : (Known(p, n)' <=> Known(p, n)) /\ (Taken(p, n)' <=> Taken(p, n))
      BY DEF Known, Taken
    <2>3. InFlight' = InFlight
      BY DEF InFlight
    <2>4. IdsAgree' /\ UpdatesAreKnown'
      BY <2>2, <2>3 DEF ChannelInv, IdsAgree, UpdatesAreKnown
    <2>5. OnlySpi' /\ OneByte'
      BY <2>3 DEF ChannelInv, OnlySpi, OneByte
    <2> QED
      BY <2>1, <2>4, <2>5 DEF ChannelInv
  <1> QED
    BY <1>1, <1>2

LEMMA WatchersAreServed == ChannelInv => PinsReachTheirWatchers
  <1> SUFFICES ASSUME ChannelInv PROVE PinsReachTheirWatchers
    OBVIOUS
  <1>1. UpdatesHaveHandlers
    BY HandlersAreThere
  <1>2. AnswersMatch
    <2> SUFFICES ASSUME NEW k \in DOMAIN responses
                 PROVE  k = 1 /\ push.at = "response" /\ responses[k] = push.pin
      BY DEF AnswersMatch
    <2>1. responses # Nothing
      BY DEF Nothing
    <2>2. push.at = "response" /\ responses = <<push.pin>>
      BY <2>1 DEF ChannelInv, OneByte
    <2> QED
      BY <2>2
  <1>3. SurvivesClients
    BY DEF ChannelInv, ChannelTypeOK, PushOK, Idle, SurvivesClients
  <1> QED
    BY <1>1, <1>2, <1>3 DEF PinsReachTheirWatchers

LEMMA PlatformKeepsChannels ==
    ASSUME ClientsBehave, ChannelInv, [PlatformNext]_platformVars PROVE ChannelInv'
  <1>1. [GpioServerNext]_channelVars
    BY DEF PlatformNext, OtherDevice, SynchronousChange, PinStep, DmaDone, DmaStep, RunStep, Configure,
       ChannelStep, ClaimStep, CompleteStep, Serve, platformVars
  <1> QED
    BY <1>1, ChannelNextKeeps
-----------------------------------------------------------------------------
(***************************************************************************)
(* All of it, for every step of the platform.                              *)
(***************************************************************************)
PlatformInv ==
    /\ PlicInv /\ GpioTypeOK
    /\ ~Eager => DmaInv
    /\ ~Repeats => PinsAgree
    /\ ~Nests /\ FlagsAreTheHandlers => PinsArmed
    /\ ClientsBehave => ChannelInv

LEMMA PlatformInitHolds == PlatformInit => PlatformInv
  <1> SUFFICES ASSUME PlatformInit PROVE PlatformInv
    OBVIOUS
  <1>1. PinsAgree /\ PinsArmed
    BY DEF PlatformInit, Pins!GpioInit, Pins!NoRequest, Init, PinsAgree, PinsArmed, NoDeafPin, Armed
  <1> QED
    BY <1>1, InitInv, GpioInitType, DmaInitHolds, ChannelInitHolds DEF PlatformInit, PlatformInv, PlicInv

LEMMA PlatformInductive == PlatformSpec => []PlatformInv
  <1>1. PlatformInv /\ [PlatformNext]_platformVars => PlatformInv'
    <2> SUFFICES ASSUME PlatformInv, [PlatformNext]_platformVars PROVE PlatformInv'
      OBVIOUS
    <2>1. PlicInv' /\ GpioTypeOK'
      BY PlatformKeepsPlic, NextGpioType DEF PlatformInv
    <2>2. (~Eager => DmaInv') /\ (~Repeats => PinsAgree')
      BY PlatformKeepsCopy, PlatformKeepsPins DEF PlatformInv
    <2>3. ~Nests /\ FlagsAreTheHandlers => PinsArmed'
      BY PlatformKeepsArmed DEF PlatformInv
    <2>4. ClientsBehave => ChannelInv'
      BY PlatformKeepsChannels DEF PlatformInv
    <2>5. (FlagsAreTheHandlers <=> FlagsAreTheHandlers') /\ (ClientsBehave <=> ClientsBehave')
      BY DEF FlagsAreTheHandlers, ClientsBehave, Asked
    <2> QED
      BY <2>1, <2>2, <2>3, <2>4, <2>5 DEF PlatformInv
  <1> QED
    BY PlatformInitHolds, <1>1, PTL DEF PlatformSpec

(* Neither a device that triggers several interrupts at once nor a handler that
   serves one loses an interrupt. *)
THEOREM PlatformLosesNothing == PlatformSpec => []NoLostInterrupt
  <1>1. PlatformInv => NoLostInterrupt
    BY DEF PlatformInv, PlicInv, Announced, NoLostInterrupt
  <1> QED
    BY PlatformInductive, <1>1, PTL

(* The assert in post_write_hart_config cannot fail on a platform whose handler claims
   once per interrupt. *)
THEOREM PlatformIsSafe == ~Polls /\ ~Nests => (PlatformSpec => []NoAssertFails)
  <1> SUFFICES ASSUME ~Polls, ~Nests PROVE PlatformSpec => []NoAssertFails
    OBVIOUS
  <1>1. PlatformInv => NoAssertFails
    BY DEF PlatformInv, PlicInv, HandlerInv, NoAssertFails
  <1> QED
    BY PlatformInductive, <1>1, PTL

(* Whatever the sizes of the buffer and of a copy, the memory holds what the driver
   asked for when the controller reports it, if the driver waits for the report
   (dma.h:68). *)
THEOREM CopiesAreExact == ~Eager => (PlatformSpec => []CopyIsExact)
  <1> SUFFICES ASSUME ~Eager PROVE PlatformSpec => []CopyIsExact
    OBVIOUS
  <1>1. PlatformInv => CopyIsExact
    BY DEF PlatformInv, DmaInv, CopyInv, CopyIsExact, Copier!CopyIsExact
  <1> QED
    BY PlatformInductive, <1>1, PTL

(* A pin that has changed has changed the value register or is about to, and the flag
   that an edge takes comes back: for a client that sets no pin to the level it has,
   and a handler that serves one interrupt at a time and alone writes the flags
   (gpio.cpp:109, gpio.cpp:275). *)
THEOREM PinsAreSeen ==
    ~Repeats /\ ~Nests /\ FlagsAreTheHandlers => (PlatformSpec => []PinsReachTheGuest)
  <1> SUFFICES ASSUME ~Repeats, ~Nests, FlagsAreTheHandlers PROVE PlatformSpec => []PinsReachTheGuest
    OBVIOUS
  <1>1. PlatformInv => PinsReachTheGuest
    <2> SUFFICES ASSUME PlatformInv PROVE Pins!ValueFollowsPins /\ NoDeafPin
      BY DEF PinsReachTheGuest
    <2>1. NoDeafPin
      BY DEF PlatformInv, PinsArmed
    <2>2. Pins!ValueFollowsPins
      BY DEF PlatformInv, PinsAgree, Agrees, Pins!ValueFollowsPins
    <2> QED
      BY <2>1, <2>2
  <1> QED
    BY PlatformInductive, <1>1, PTL

(* All that the platform's pins promise both sides: the guest sees every change and its
   interrupts; an update meets the handler of its pin, pushSPI takes the answer to its
   own byte, and no client that goes away takes the simulator with it
   (gpio-client.cpp:245, gpio-server.cpp:391). *)
THEOREM PinsAreSharedSafely ==
    ~Repeats /\ ~Nests /\ FlagsAreTheHandlers /\ ClientsBehave => (PlatformSpec => []PinsAreShared)
  <1> SUFFICES ASSUME ~Repeats, ~Nests, FlagsAreTheHandlers, ClientsBehave
               PROVE  PlatformSpec => []PinsAreShared
    OBVIOUS
  <1>1. PlatformInv => PinsReachTheirWatchers
    BY WatchersAreServed DEF PlatformInv
  <1>2. PlatformSpec => []PinsReachTheGuest
    BY PinsAreSeen
  <1>3. PinsReachTheGuest /\ PinsReachTheirWatchers => PinsAreShared
    BY DEF PinsAreShared
  <1> QED
    BY PlatformInductive, <1>1, <1>2, <1>3, PTL
=============================================================================
