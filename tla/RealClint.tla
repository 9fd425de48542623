------------------------------ MODULE RealClint ------------------------------
(***************************************************************************)
(* The core local interruptor that follows the wall clock                  *)
(* (vp/src/core/common/real_clint.cpp) and its timers (timer.cpp): a       *)
(* thread of the operating system per hart that sleeps until mtimecmp is   *)
(* reached and notifies the SystemC thread, which looks at every hart.     *)
(* Setting a timer cancels its thread and joins it, while the thread may   *)
(* be about to notify; the SystemC thread does nothing else meanwhile.     *)
(***************************************************************************)
EXTENDS RealTime

VARIABLES clock,         \* microseconds since first_mtime
          mtimecmp,
          mtip,
          msip,
          timer,         \* the threads: where they are, and what is left to sleep
          event,         \* the AsyncEvent of the timers is notified
          writer         \* the hart for whose timer pause() waits, and mtime at its call

vars == <<clock, mtimecmp, mtip, msip, timer, event, writer>>

\* The clock stands still once every timer that can be set is due.
MaxClock == MaxTicks * DIVIDEND

mtime == usec_to_ticks(clock)

\* "none": running is false; "asleep": not yet out of nanosleep; "cancelled": asked
\* to end there; "awake": past nanosleep, to notify; "over": to be joined.
Stopped == [at |-> "none", left |-> 0]
Free == [hart |-> None, time |-> 0]

TypeOK ==
    /\ clock \in 0 .. MaxClock
    /\ mtimecmp \in [Harts -> 0 .. MaxTicks]
    /\ mtip \in [Harts -> BOOLEAN]
    /\ msip \in [Harts -> BOOLEAN]
    /\ timer \in [Harts -> [at : {"none", "asleep", "cancelled", "awake", "over"}, left : Nat]]
    /\ event \in BOOLEAN
    /\ writer \in [hart : Harts \cup {None}, time : Nat]

Init ==
    /\ clock = 0
    /\ mtimecmp = [h \in Harts |-> 0]
    /\ mtip = [h \in Harts |-> FALSE]
    /\ msip = [h \in Harts |-> FALSE]
    /\ timer = [h \in Harts |-> Stopped]
    /\ event = FALSE
    /\ writer = Free
-----------------------------------------------------------------------------
\* Time passes for the clock and for those who sleep.
TimePasses ==
    /\ clock' = IF clock < MaxClock THEN clock + 1 ELSE clock
    /\ timer' = [h \in Harts |-> IF timer[h].left > 0 THEN [timer[h] EXCEPT !.left = @ - 1] ELSE timer[h]]
    /\ UNCHANGED <<mtimecmp, mtip, msip, event, writer>>

\* callback(): out of nanosleep, not before the time is over.
WakeUp(h) ==
    /\ timer[h].at \in {"asleep", "cancelled"}
    /\ \/ timer[h].left = 0 /\ timer' = [timer EXCEPT ![h].at = "awake"]
       \/ timer[h].at = "cancelled" /\ timer' = [timer EXCEPT ![h] = [at |-> "over", left |-> 0]]
    /\ UNCHANGED <<clock, mtimecmp, mtip, msip, event, writer>>

\* timercb()
Notify(h) ==
    /\ timer[h].at = "awake"
    /\ timer' = [timer EXCEPT ![h].at = "over"]
    /\ event' = TRUE
    /\ UNCHANGED <<clock, mtimecmp, mtip, msip, writer>>
-----------------------------------------------------------------------------
\* pause() asks the thread to end; one that is past nanosleep goes on.
Cancel(h) == [timer EXCEPT ![h].at = IF @ = "asleep" THEN "cancelled" ELSE @]

\* post_write_mtimecmp: the time is read, and the timer paused.
WriteMtimecmp(h, cmp) ==
    /\ writer = Free
    /\ mtimecmp' = [mtimecmp EXCEPT ![h] = cmp]
    /\ writer' = [hart |-> h, time |-> mtime]
    /\ timer' = Cancel(h)
    /\ UNCHANGED <<clock, mtip, msip, event>>

\* The thread is joined, and the timer set for what was left at the write.
SetTimer(h) ==
    /\ writer.hart = h
    /\ timer[h].at \in {"none", "over"}
    /\ LET due == writer.time >= mtimecmp[h]
       IN  /\ mtip' = [mtip EXCEPT ![h] = due]
           /\ timer' = [timer EXCEPT ![h] =
                 IF due THEN Stopped
                 ELSE [at |-> "asleep", left |-> ticks_to_usec(mtimecmp[h] - writer.time)]]
    /\ writer' = Free
    /\ UNCHANGED <<clock, mtimecmp, msip, event>>

WriteMsip(h, b) ==
    /\ writer = Free
    /\ msip' = [msip EXCEPT ![h] = b]
    /\ UNCHANGED <<clock, mtimecmp, mtip, timer, event, writer>>

\* The SC_METHOD: raises and never lowers.
Interrupt ==
    /\ event /\ writer = Free
    /\ event' = FALSE
    /\ mtip' = [h \in Harts |-> mtip[h] \/ mtime >= mtimecmp[h]]
    /\ UNCHANGED <<clock, mtimecmp, msip, timer, writer>>

HartStep(h) ==
    \/ WakeUp(h) \/ Notify(h) \/ SetTimer(h)
    \/ \E cmp \in 0 .. MaxTicks : WriteMtimecmp(h, cmp)
    \/ \E b \in BOOLEAN : WriteMsip(h, b)

Next == TimePasses \/ Interrupt \/ \E h \in Harts : HartStep(h)

Spec == Init /\ [][Next]_vars
-----------------------------------------------------------------------------
(* A timer that has been set is not lost: its thread sleeps no shorter than until
   mtime reaches mtimecmp, rounding included, so that interrupt(), which looks once,
   finds it due; and no cancelled thread takes the place of a new one. *)
ExpiryIsNotLost ==
    \A h \in Harts :
        ~mtip[h] /\ mtimecmp[h] > 0 /\ writer.hart # h =>
            \/ timer[h].at = "asleep" /\ usec_to_ticks(clock + timer[h].left) >= mtimecmp[h]
            \/ mtime >= mtimecmp[h] /\ (timer[h].at = "awake" \/ event)

(* A timer interrupt is pending only when mtime has reached mtimecmp, also when the
   thread of an earlier setting notifies late. *)
NeverEarly ==
    \A h \in Harts : mtip[h] /\ writer.hart # h => mtime >= mtimecmp[h]

RealTimersAreExact == ExpiryIsNotLost /\ NeverEarly
=============================================================================
