------------------------------ MODULE RealTime ------------------------------
(* The ticks of mtime in microseconds of the wall clock, for RealClint. *)
EXTENDS ClintHarts, Integers

CONSTANTS DIVIDEND,      \* microseconds in a tick
          MaxTicks       \* the largest mtimecmp that is set

ASSUME RealTimeAssumption ==
    /\ DIVIDEND \in Nat \ {0}
    /\ MaxTicks \in Nat
    /\ None \notin Harts

usec_to_ticks(usec) == usec \div DIVIDEND

\* Mutant: a tick too short.
TicksToUsecShort(ticks) == ticks * DIVIDEND - 1

ticks_to_usec(ticks) == ticks * DIVIDEND
=============================================================================
