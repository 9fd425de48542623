----------------------------- MODULE HartMemory -----------------------------
(***************************************************************************)
(* The memory accesses of the harts of a multi-core platform: what an      *)
(* instruction does in ISS::exec_step and run_step, the CombinedMemory-    *)
(* Interface it goes through (vp/src/core/rv32/mem.h), the accessed/dirty  *)
(* update of the page walk (vp/src/core/common/mmu.h), the shared bus lock *)
(* and the devices that write through a PeripheralWriteConnector.          *)
(*                                                                         *)
(* SystemC threads are not preempted: `running' is the thread between two  *)
(* waits.  A thread gives the processor up inside wait(lock_event) and     *)
(* wait(wfi_event), at a quantum synchronisation, when the debugger stops  *)
(* it, and, if TargetsWait, inside any bus transaction it has performed.   *)
(* An address stands for a word and for the page it lies in; a hit of the  *)
(* MMU's TLB is a walk that finds the A and D bits already set.            *)
(***************************************************************************)
EXTENDS BusLock, Naturals

CONSTANTS Addrs, Vals, Modify, None,
          Window,        \* lr_sc_counter after LR (17 in the code)
          Quantum,       \* instructions until the quantum keeper needs a sync
          LrReloads,     \* LR sets the counter even if it runs: rv32's pipeline build
          Platforms,     \* what a platform may be: [paged : BOOLEAN, targetsWait : BOOLEAN]
          InstrDmi,      \* instructions are fetched by the InstrMemoryProxy
          Debug          \* the debugger stops a hart between two instructions

NoOne == "no one"
Aborted == "aborted"      \* an assert failed and the whole simulation is gone

\* The operations; PTE is a store that clears the A and D bits of a page.
MemoryOps == {"LD", "ST", "LR", "SC", "AMO", "PTE"}
OtherOps == {"ALU", "WFI", "ILLEGAL"}

PCs == {"fetch", "lock", "check", "xload", "load", "xstore", "store",
        "wfi", "sleep", "trap", "finish"}

ASSUME HartMemoryAssumption ==
    /\ Modify \in [Vals -> Vals]
    /\ Window \in Nat \ {0}
    /\ Quantum \in Nat \ {0}
    /\ \A b \in {LrReloads, InstrDmi, Debug} : b \in BOOLEAN
    /\ Platforms \subseteq [paged : BOOLEAN, targetsWait : BOOLEAN]
    /\ Harts \cap Devices = {}
    /\ NoOne \notin Harts /\ Aborted \notin Harts
    /\ None \notin Addrs /\ None \notin MemoryOps \cup OtherOps
    /\ \A a \in Addrs, v \in Vals : <<a, v>> # None

VARIABLES platform,       \* the one that is simulated
          running,        \* the SystemC thread that executes, NoOne or Aborted
          pc,             \* how far each hart's current instruction is
          op, addr,       \* that instruction and its address, None if it has none
          data,           \* the value its LR or AMO loaded
          lr_addr,        \* CombinedMemoryInterface::lr_addr
          lr_sc_counter,  \* ISS::lr_sc_counter
          quantum,        \* instructions since the hart's last synchronisation
          mem,            \* the words of the memory
          pte,            \* the A and D bits of their pages
          event           \* the operation that wrote a word in this very step (history)

Paged == platform.paged               \* satp is not BARE and page_fault_on_AD is false
TargetsWait == platform.targetsWait   \* a bus target may wait inside b_transport

hartVars == <<pc, op, addr, data, lr_addr, lr_sc_counter, quantum>>
vars == <<lockVars, platform, running, hartVars, mem, pte, event>>

TypeOK ==
    /\ LockTypeOK
    /\ platform \in Platforms
    /\ running \in Harts \cup {NoOne, Aborted}
    /\ pc \in [Harts -> PCs]
    /\ op \in [Harts -> MemoryOps \cup OtherOps \cup {None}]
    /\ addr \in [Harts -> Addrs \cup {None}]
    /\ data \in [Harts -> Vals]
    /\ lr_addr \in [Harts -> Addrs]
    /\ lr_sc_counter \in [Harts -> 0 .. Window]
    /\ quantum \in [Harts -> 0 .. Quantum]
    /\ mem \in [Addrs -> Vals]
    /\ pte \in [Addrs -> SUBSET {"A", "D"}]

Init ==
    /\ LockInit
    /\ platform \in Platforms
    /\ running = NoOne
    /\ pc = [h \in Harts |-> "fetch"]
    /\ op = [h \in Harts |-> None]
    /\ addr = [h \in Harts |-> None]
    /\ \E a \in Addrs : lr_addr = [h \in Harts |-> a]
    /\ \E v \in Vals : data = [h \in Harts |-> v] /\ mem = [a \in Addrs |-> v]
    /\ lr_sc_counter = [h \in Harts |-> 0]
    /\ quantum = [h \in Harts |-> 0]
    /\ pte = [a \in Addrs |-> {}]
    /\ event = None
-----------------------------------------------------------------------------
\* Hart h is at point p of an instruction and the kernel lets it execute.
At(h, p) ==
    /\ pc[h] = p
    /\ running \in {NoOne, h}
    /\ h \notin waiting

Goto(h, p) == pc' = [pc EXCEPT ![h] = p]

\* The thread goes on, or gives up the processor in its bus transaction.
AfterBusAccess(h) == running' \in IF TargetsWait THEN {h, NoOne} ELSE {h}

\* The points where an access tests the lock: lock(), _raw_load_data and
\* _raw_store_data (the page walk reads its PTEs with _raw_load_data).
TestsLock(p) ==
    \/ p \in {"lock", "load", "store"}
    \/ p = "fetch" /\ ~InstrDmi
    \/ p \in {"xload", "xstore"} /\ Paged

\* wait_for_access_rights and lock() put a hart to sleep while another holds the lock.
AwaitRights(h) ==
    /\ \E p \in PCs : At(h, p) /\ TestsLock(p)
    /\ ~HasAccessRights(h)
    /\ WaitLockEvent(h)
    /\ running' = NoOne
    /\ event' = None
    /\ UNCHANGED <<platform, hartVars, mem, pte>>

\* Where a load, a store and an operation start; v2p does nothing without an MMU.
LoadPoint == IF Paged THEN "xload" ELSE "load"
StorePoint == IF Paged THEN "xstore" ELSE "store"

FirstPoint(o) ==
    CASE o \in {"LR", "AMO"} -> "lock"
      [] o = "LD" -> LoadPoint
      [] o \in {"ST", "PTE"} -> StorePoint
      [] o = "SC" -> "check"
      [] o = "WFI" -> "wfi"
      [] o = "ILLEGAL" -> "trap"
      [] OTHER -> "finish"

\* v2p for a FETCH may set the A bit of the instruction's page: a store that unlocks.
FetchSetsAccessed(h) ==
    /\ Paged /\ ~InstrDmi
    /\ \E a \in Addrs :
          /\ "A" \notin pte[a]
          /\ pte' = [pte EXCEPT ![a] = @ \cup {"A"}]
    /\ Unlock(h)

\* exec_step fetches and decodes the next instruction; a fetch that traps is ILLEGAL.
Fetch(h) ==
    /\ At(h, "fetch")
    /\ InstrDmi \/ HasAccessRights(h)
    /\ IF InstrDmi THEN running' = h ELSE AfterBusAccess(h)
    /\ FetchSetsAccessed(h) \/ UNCHANGED <<lockVars, pte>>
    /\ \E o \in MemoryOps \cup OtherOps, a \in Addrs \cup {None} :
          /\ a \in Addrs <=> o \in MemoryOps
          /\ o = "PTE" => Paged
          /\ op' = [op EXCEPT ![h] = o]
          /\ addr' = [addr EXCEPT ![h] = a]
          /\ Goto(h, FirstPoint(o))
    /\ event' = None
    /\ UNCHANGED <<platform, data, lr_addr, lr_sc_counter, quantum, mem>>

\* atomic_load_word and atomic_load_reserved_word take the lock first.
TakeLock(h) ==
    /\ At(h, "lock")
    /\ Lock(h)
    /\ running' = h
    /\ lr_addr' = IF op[h] = "LR" THEN [lr_addr EXCEPT ![h] = addr[h]] ELSE lr_addr
    /\ Goto(h, LoadPoint)
    /\ event' = None
    /\ UNCHANGED <<platform, op, addr, data, lr_sc_counter, quantum, mem, pte>>

\* atomic_store_word asserts, before anything else, that the AMO holds the lock.
AmoAssertHolds(h, p) == op[h] = "AMO" /\ p = StorePoint => IsLockedBy(h)

AssertFails(h) ==
    /\ At(h, StorePoint)
    /\ ~AmoAssertHolds(h, StorePoint)
    /\ running' = Aborted
    /\ event' = None
    /\ UNCHANGED <<platform, lockVars, hartVars, mem, pte>>

\* v2p for a LOAD or a STORE: a page fault, or a translation that may set the
\* A and D bits with mmu_store_pte32, whose _raw_store_data ends in an unlock.
Translate(h, from, to, bits) ==
    /\ Paged
    /\ At(h, from)
    /\ HasAccessRights(h)
    /\ AmoAssertHolds(h, from)
    /\ AfterBusAccess(h)
    /\ \/ Goto(h, "trap") /\ UNCHANGED <<lockVars, pte>>
       \/ /\ Goto(h, to)
          /\ IF bits \subseteq pte[addr[h]]
             THEN UNCHANGED <<lockVars, pte>>
             ELSE /\ pte' = [pte EXCEPT ![addr[h]] = @ \cup bits]
                  /\ Unlock(h)
    /\ event' = None
    /\ UNCHANGED <<platform, op, addr, data, lr_addr, lr_sc_counter, quantum, mem>>

TranslateLoad(h) == Translate(h, "xload", "load", {"A"})
TranslateStore(h) == Translate(h, "xstore", "store", {"A", "D"})

\* LR opens a window of its own; only rv32's pipeline build does so inside a window.
StartsWindowAnew(c) == TRUE
StartsWindow(c) == LrReloads \/ c = 0

\* _raw_load_data: the word, or a bus error that raises a trap.
Load(h) ==
    /\ At(h, "load")
    /\ HasAccessRights(h)
    /\ AfterBusAccess(h)
    /\ \/ /\ Goto(h, "trap")
          /\ UNCHANGED <<data, lr_sc_counter>>
       \/ /\ data' = IF op[h] \in {"LR", "AMO"}
                     THEN [data EXCEPT ![h] = mem[addr[h]]] ELSE data
          /\ lr_sc_counter' =
                IF op[h] = "LR" /\ StartsWindow(lr_sc_counter[h])
                THEN [lr_sc_counter EXCEPT ![h] = Window] ELSE lr_sc_counter
          /\ Goto(h, IF op[h] = "AMO" THEN StorePoint ELSE "finish")
    /\ event' = None
    /\ UNCHANGED <<platform, lockVars, op, addr, lr_addr, quantum, mem, pte>>

\* The values the store of h's current operation can write.
StoredValues(h) == IF op[h] = "AMO" THEN {Modify[data[h]]} ELSE Vals

\* _raw_store_data ends in atomic_unlock(), unless a bus error has trapped.
StoreSucceeds(h) ==
    /\ IF op[h] = "PTE"
       THEN /\ pte' = [pte EXCEPT ![addr[h]] = {}]
            /\ event' = None
            /\ mem' = mem
       ELSE /\ \E v \in StoredValues(h) : mem' = [mem EXCEPT ![addr[h]] = v]
            /\ event' = <<op[h], h, addr[h]>>
            /\ pte' = pte
    /\ Unlock(h)
    /\ lr_sc_counter' = IF op[h] = "SC" THEN [lr_sc_counter EXCEPT ![h] = 0]
                        ELSE lr_sc_counter
    /\ Goto(h, "finish")

StoreWord(h) ==
    /\ At(h, "store")
    /\ HasAccessRights(h)
    /\ AmoAssertHolds(h, "store")
    /\ AfterBusAccess(h)
    /\ \/ StoreSucceeds(h)
       \/ /\ Goto(h, "trap")
          /\ event' = None
          /\ UNCHANGED <<lockVars, lr_sc_counter, mem, pte>>
    /\ UNCHANGED <<platform, op, addr, data, lr_addr, quantum>>

\* atomic_store_conditional_word stores only under the lock its LR took.
HoldsReservation(h) == IsLockedBy(h) /\ addr[h] = lr_addr[h]

CheckReservation(h) ==
    /\ At(h, "check")
    /\ running' = h
    /\ IF HoldsReservation(h)
       THEN Goto(h, StorePoint) /\ UNCHANGED <<lockVars, lr_sc_counter>>
       ELSE /\ Unlock(h)
            /\ lr_sc_counter' = [lr_sc_counter EXCEPT ![h] = 0]
            /\ Goto(h, "finish")
    /\ event' = None
    /\ UNCHANGED <<platform, op, addr, data, lr_addr, quantum, mem, pte>>

\* WFI gives up the reservation, then traps, falls through or sleeps on wfi_event.
Wfi(h) ==
    /\ At(h, "wfi")
    /\ Unlock(h)
    /\ lr_sc_counter' = [lr_sc_counter EXCEPT ![h] = 0]
    /\ \/ Goto(h, "trap") /\ running' = h
       \/ Goto(h, "finish") /\ running' = h
       \/ Goto(h, "sleep") /\ running' = NoOne
    /\ event' = None
    /\ UNCHANGED <<platform, op, addr, data, lr_addr, quantum, mem, pte>>

WakeFromWfi(h) ==
    /\ At(h, "sleep")
    /\ running' = h
    /\ Goto(h, "finish")
    /\ event' = None
    /\ UNCHANGED <<platform, lockVars, op, addr, data, lr_addr, lr_sc_counter, quantum, mem, pte>>

\* lr_sc_counter runs down; when it reaches zero the reservation is released.
CountDown(c) == IF c = 0 THEN 0 ELSE c - 1
ExpiresNever(c) == FALSE
Expires(c) == c # 0 /\ CountDown(c) = 0

\* A used-up quantum is synchronised only outside an LR/SC window.
SyncsAtOnce(needSync, left) == needSync
Syncs(needSync, left) == needSync /\ left = 0

\* performance_and_sync_update with the counter c and, if released, the lock
\* already given up by switch_to_trap_handler: the counter expires, and the
\* hart synchronises once its quantum is used up and no LR/SC window is open.
EndStep(h, c, released) ==
    LET needSync == quantum[h] + 1 >= Quantum
        left     == CountDown(c)
        syncs    == Syncs(needSync, left)
    IN  /\ lr_sc_counter' = [lr_sc_counter EXCEPT ![h] = left]
        /\ IF released \/ Expires(c) THEN Unlock(h) ELSE UNCHANGED lockVars
        /\ quantum' = [quantum EXCEPT ![h] =
                          IF syncs THEN 0 ELSE IF needSync THEN Quantum ELSE @ + 1]
        /\ running' \in IF syncs THEN {NoOne} ELSE IF Debug THEN {h, NoOne} ELSE {h}
        /\ Goto(h, "fetch")
        /\ op' = [op EXCEPT ![h] = None]
        /\ addr' = [addr EXCEPT ![h] = None]
        /\ event' = None
        /\ UNCHANGED <<platform, data, lr_addr, mem, pte>>

\* The instruction is complete; an interrupt may be pending and enabled.
Finish(h) == At(h, "finish") /\ EndStep(h, lr_sc_counter[h], FALSE)
Interrupt(h) == At(h, "finish") /\ EndStep(h, 0, TRUE)

\* run_step catches the SimulationTrap; no interrupt is taken after a trap.
Trap(h) == At(h, "trap") /\ EndStep(h, 0, TRUE)

\* wait_until_unlocked(), which a device passes only while nobody holds the lock.
DeviceIsNotHeldBack(d) == TRUE
DeviceMayAccess(d) == ~locked

\* A device's write transaction through its PeripheralWriteConnector.
DeviceWrite(d) ==
    /\ running = NoOne
    /\ d \notin waiting
    /\ DeviceMayAccess(d)
    /\ \E a \in Addrs, v \in Vals :
          /\ mem' = [mem EXCEPT ![a] = v]
          /\ event' = <<"ST", d, a>>
    /\ UNCHANGED <<platform, lockVars, running, hartVars, pte>>

DeviceWaits(d) ==
    /\ running = NoOne
    /\ d \notin waiting
    /\ WaitLockEvent(d)
    /\ event' = None
    /\ UNCHANGED <<platform, running, hartVars, mem, pte>>

KernelDelta ==
    /\ running = NoOne
    /\ DeltaNotify
    /\ event' = None
    /\ UNCHANGED <<platform, running, hartVars, mem, pte>>

\* After a failed assert nothing happens any more.
Gone == running = Aborted /\ UNCHANGED vars

HartStep(h) ==
    \/ AwaitRights(h) \/ Fetch(h) \/ TakeLock(h)
    \/ TranslateLoad(h) \/ TranslateStore(h) \/ AssertFails(h)
    \/ Load(h) \/ StoreWord(h) \/ CheckReservation(h)
    \/ Wfi(h) \/ WakeFromWfi(h)
    \/ Finish(h) \/ Interrupt(h) \/ Trap(h)

DeviceStep(d) == DeviceWrite(d) \/ DeviceWaits(d)

Next ==
    \/ \E h \in Harts : HartStep(h)
    \/ \E d \in Devices : DeviceStep(d)
    \/ KernelDelta
    \/ Gone

Spec == Init /\ [][Next]_vars
-----------------------------------------------------------------------------
(* The reservation of hart h as the software may rely on it: it exists from
   the load of LR until the lock is given up, and while the SC that found it
   intact carries out its store. *)
Reservation(h) ==
    IF \/ /\ IsLockedBy(h)
          /\ op[h] # "AMO"
          /\ ~(op[h] = "LR" /\ pc[h] \in {"lock", "xload", "load", "trap"})
       \/ op[h] = "SC" /\ pc[h] \in {"xstore", "store"}
    THEN <<lr_addr[h], data[h]>>
    ELSE None

Atomic == INSTANCE AtomicMemory WITH
              reservation <- [h \in Harts |-> Reservation(h)]

(* The lock, the lr_sc_counter and the order of the accesses implement an
   atomic memory: no write of another hart or of a device falls between the
   load and the store of an AMO, or between an LR and an SC that succeeds. *)
AtomicSpec == Atomic!Spec

(* Between two instructions a hart holds the lock only inside the window of
   its last LR, so that performance_and_sync_update will give it back: an AMO
   or a trapped LR leaves no lock behind, and SC ends its window. *)
WindowCoversLock ==
    \A h \in Harts :
        pc[h] = "fetch" /\ IsLockedBy(h) => lr_sc_counter[h] \in 1 .. Window - 1

(* "match SystemC sync with bus unlocking": without a debugger and without a
   waiting target, no hart gives up the processor while it holds the lock. *)
NeverParksWithLock ==
    ~Debug /\ ~TargetsWait /\ running = NoOne => ~locked

(* The assert of atomic_store_word never fails. *)
NoAssertFails == running # Aborted

(* A hart that has come to an access gets past it, though others may hold the
   lock then, and take it again before the hart has woken up. *)
HartProgress ==
    \A h \in Harts, p \in {"fetch", "lock", "load", "store"} :
        pc[h] = p ~> pc[h] # p
=============================================================================
