------------------------------- MODULE BusLock -------------------------------
(***************************************************************************)
(* The bus lock that all harts of a multi-core platform share              *)
(* (vp/src/platform/common/bus.h, class BusLock, and the interface         *)
(* vp/src/core/common/bus_lock_if.h).  A hart takes the lock for LR and    *)
(* AMO; every other initiator waits on lock_event while the lock is held.  *)
(*                                                                         *)
(* lock_event is a SystemC event: unlock() notifies it with SC_ZERO_TIME,  *)
(* so the threads waiting on it become runnable in the next delta cycle    *)
(* and then test the lock again (the while loop of wait_until_unlocked).   *)
(***************************************************************************)
CONSTANTS Harts,       \* hart identifiers
          Devices      \* bus initiators behind a PeripheralWriteConnector

VARIABLES locked,      \* BusLock::locked
          owner,       \* BusLock::owner, meaningful only while locked
          lock_event,  \* a zero-time notification of lock_event is pending
          waiting      \* the threads inside wait(lock_event)

lockVars == <<locked, owner, lock_event, waiting>>

LockTypeOK ==
    /\ locked \in BOOLEAN
    /\ owner \in Harts
    /\ lock_event \in BOOLEAN
    /\ waiting \subseteq Harts \cup Devices

\* bool locked = false; unsigned owner = 0: whichever hart has id 0.
LockInit ==
    /\ locked = FALSE
    /\ owner \in Harts
    /\ lock_event = FALSE
    /\ waiting = {}

IsLockedBy(h) == locked /\ owner = h

\* wait_for_access_rights(h), and the first test of lock(h), let h pass.
HasAccessRights(h) == ~locked \/ owner = h

\* lock(h), once nobody else holds the lock.
Lock(h) ==
    /\ HasAccessRights(h)
    /\ locked' = TRUE
    /\ owner' = h
    /\ UNCHANGED <<lock_event, waiting>>

UnlockSilently(h) ==
    /\ locked' = (locked /\ owner # h)
    /\ UNCHANGED <<owner, lock_event, waiting>>

\* unlock(h): a call by a hart that does not hold the lock does nothing.
Unlock(h) ==
    /\ locked' = (locked /\ owner # h)
    /\ lock_event' = (lock_event \/ IsLockedBy(h))
    /\ UNCHANGED <<owner, waiting>>

\* One evaluation of wait(lock_event) in the loop of wait_until_unlocked().
WaitLockEvent(x) ==
    /\ locked
    /\ waiting' = waiting \cup {x}
    /\ UNCHANGED <<locked, owner, lock_event>>

\* The delta cycle in which the kernel resumes the threads waiting on lock_event.
DeltaNotify ==
    /\ lock_event
    /\ lock_event' = FALSE
    /\ waiting' = {}
    /\ UNCHANGED <<locked, owner>>

(* No wake-up of the lock is lost: a thread that sleeps on lock_event sleeps
   either because the lock is held or with its notification on the way
   (BusLock::unlock notifies exactly when it clears the lock). *)
NoLostWakeup == waiting # {} => locked \/ lock_event
=============================================================================
