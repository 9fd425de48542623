---------------------------- MODULE AtomicMemory ----------------------------
(***************************************************************************)
(* What the memory system promises to the software: a memory in which a    *)
(* store, an AMO and a store-conditional are each one indivisible step,    *)
(* and a store-conditional succeeds only on a reservation that no other    *)
(* agent's write has broken.  The memory may drop a reservation whenever   *)
(* it likes (LR/SC may fail), but never invent one.                        *)
(***************************************************************************)
CONSTANTS Harts, Devices, Addrs, Vals,
          Modify,       \* the read-modify function of the AMO, in [Vals -> Vals]
          None

VARIABLES mem,          \* [Addrs -> Vals]
          reservation,  \* per hart: <<address, value loaded by LR>> or None
          event         \* the operation that wrote the memory in this step, or None

vars == <<mem, reservation, event>>

Init ==
    /\ mem \in [Addrs -> Vals]
    /\ reservation = [h \in Harts |-> None]
    /\ event = None

\* Agent x changes address a to v by an operation of this kind: the others'
\* reservations on a are gone, any other reservation is kept or dropped.
WriteBy(kind, x, a, v) ==
    /\ mem' = [mem EXCEPT ![a] = v]
    /\ event' = <<kind, x, a>>
    /\ \A h \in Harts :
          /\ reservation'[h] \in {reservation[h], None}
          /\ h # x /\ reservation[h] # None /\ reservation[h][1] = a
                => reservation'[h] = None

Store(x, a) == \E v \in Vals : WriteBy("ST", x, a, v)

\* The value written is computed from the value the memory holds at that step.
Amo(h, a) == WriteBy("AMO", h, a, Modify[mem[a]])

StoreConditional(h, a) ==
    /\ reservation[h] = <<a, mem[a]>>
    /\ \E v \in Vals : WriteBy("SC", h, a, v)

LoadReserved(h, a) ==
    /\ reservation' = [reservation EXCEPT ![h] = <<a, mem[a]>>]
    /\ event' = None
    /\ mem' = mem

DropReservation(h) ==
    /\ reservation' = [reservation EXCEPT ![h] = None]
    /\ event' = None
    /\ mem' = mem

\* A step that neither writes the memory nor changes a reservation.
Quiet ==
    /\ event' = None
    /\ UNCHANGED <<mem, reservation>>

Next ==
    \/ Quiet
    \/ \E x \in Harts \cup Devices, a \in Addrs : Store(x, a)
    \/ \E h \in Harts, a \in Addrs :
          Amo(h, a) \/ StoreConditional(h, a) \/ LoadReserved(h, a)
    \/ \E h \in Harts : DropReservation(h)

Spec == Init /\ [][Next]_vars
=============================================================================
