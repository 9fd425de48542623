-------------------------------- MODULE Clint --------------------------------
(***************************************************************************)
(* The core local interruptor (vp/src/core/common/clint.h), SystemC's time *)
(* and the harts that read the time and set their timers.  All times are   *)
(* in units of SystemC's resolution: mtime and mtimecmp, which count ticks *)
(* of Scaler units, are multiples of it, and 0 and Never (UINT64_MAX) mean *)
(* no timer.                                                               *)
(*                                                                         *)
(* A hart executes ahead of the SystemC time `now': its accesses carry the *)
(* delay local[h] - now, which its quantum bounds.  irq_event is notified  *)
(* for the time `irqAt'; a notification for a later time than a pending    *)
(* one has no effect.                                                      *)
(***************************************************************************)
EXTENDS ClintHarts, Integers

CONSTANTS Scaler,     \* units of SystemC time in a tick of mtime
          Quantum,    \* how far a hart runs ahead
          Never,      \* UINT64_MAX ticks
          MaxTime     \* bound of the SystemC time

Ticks == {t \in 0 .. MaxTime : t % Scaler = 0} \cup {Never}

ASSUME ClintAssumption ==
    /\ Scaler \in Nat \ {0}
    /\ Quantum \in Nat
    /\ MaxTime \in Nat
    /\ Never \in Nat /\ Never > MaxTime + Quantum
    /\ None \notin Int

VARIABLES now,        \* sc_time_stamp()
          local,      \* the local time of each hart
          mtime,
          mtimecmp,
          irqAt,      \* when irq_event will fire, None if it is not notified
          mtip,       \* the harts' timer interrupts
          msip,       \* their software interrupts
          want        \* the old and the new timer while software changes it

vars == <<now, local, mtime, mtimecmp, irqAt, mtip, msip, want>>

Steps == {"idle", "old", "new"}

TypeOK ==
    /\ now \in 0 .. MaxTime
    /\ local \in [Harts -> 0 .. MaxTime + Quantum]
    /\ mtime \in 0 .. MaxTime + Quantum
    /\ mtimecmp \in [Harts -> Ticks]
    /\ irqAt \in {t \in Nat : t >= now} \cup {None}
    /\ mtip \in [Harts -> BOOLEAN]
    /\ msip \in [Harts -> BOOLEAN]
    /\ want \in [Harts -> [old : Ticks, new : Ticks, step : Steps]]

\* mtimecmp holds what software wants.
Settled == [old |-> Never, new |-> Never, step |-> "idle"]

Init ==
    /\ now = 0
    /\ local = [h \in Harts |-> 0]
    /\ mtime = 0
    /\ mtimecmp = [h \in Harts |-> 0]
    /\ irqAt = None
    /\ mtip = [h \in Harts |-> FALSE]
    /\ msip = [h \in Harts |-> FALSE]
    /\ want = [h \in Harts |-> Settled]
-----------------------------------------------------------------------------
\* The tick a time lies in.
Floor(t) == t - (t % Scaler)

\* irq_event.notify(t - now), with nothing else or `at' already pending.
Notified(at, t) == IF at = None \/ t < at THEN t ELSE at

\* SystemC lets the time pass when nothing is left to do at this one.
Tick ==
    /\ now < MaxTime
    /\ irqAt # now
    /\ now' = now + 1
    /\ local' = [h \in Harts |-> IF local[h] > now THEN local[h] ELSE now + 1]
    /\ UNCHANGED <<mtime, mtimecmp, irqAt, mtip, msip, want>>

\* A hart executes instructions; its quantum keeper makes it wait for `now'.
RunAhead(h) ==
    /\ local[h] < now + Quantum
    /\ local' = [local EXCEPT ![h] = @ + 1]
    /\ UNCHANGED <<now, mtime, mtimecmp, irqAt, mtip, msip, want>>

\* update_and_get_mtime
Updated == IF Floor(now) > mtime THEN Floor(now) ELSE mtime

\* A hart reads its time CSR ...
ReadTimeCsr(h) ==
    /\ mtime' = Updated
    /\ UNCHANGED <<now, local, mtimecmp, irqAt, mtip, msip, want>>

\* ... or the register, which pre_read_mtime first sets to the hart's time.
ReadMtime(h) ==
    /\ mtime' = Floor(local[h])
    /\ UNCHANGED <<now, local, mtimecmp, irqAt, mtip, msip, want>>

\* A value is written to mtimecmp[h] and irq_event notified for the hart's time.
SetTimer(h, v) ==
    /\ mtimecmp' = [mtimecmp EXCEPT ![h] = v]
    /\ irqAt' = Notified(irqAt, local[h])
    /\ UNCHANGED <<now, local, mtime, mtip, msip>>

\* The three writes of the comment: to a value no smaller than the old one, to
\* a value no smaller than the new one, and to the new one.  Where no timer was
\* set, the old value is what the first write leaves.
WriteOld(h, v) ==
    /\ want[h].step = "idle"
    /\ v \in Ticks /\ v >= mtimecmp[h]
    /\ \E new \in Ticks : want' = [want EXCEPT ![h] =
          [old |-> IF mtimecmp[h] = 0 THEN v ELSE mtimecmp[h],
           new |-> new, step |-> "old"]]
    /\ SetTimer(h, v)

WriteNew(h, v) ==
    /\ want[h].step = "old"
    /\ v \in Ticks /\ v >= want[h].new
    /\ want' = [want EXCEPT ![h].step = "new"]
    /\ SetTimer(h, v)

WriteLast(h) ==
    /\ want[h].step = "new"
    /\ want' = [want EXCEPT ![h] = Settled]
    /\ SetTimer(h, want[h].new)

WriteMsip(h, b) ==
    /\ msip' = [msip EXCEPT ![h] = b]
    /\ UNCHANGED <<now, local, mtime, mtimecmp, irqAt, mtip, want>>

\* run() looks at every timer, and waits for the first that is still to come.
IsDueUnset(cmp, t) == t >= cmp
IsDueEarly(cmp, t) == cmp > 0 /\ t + Scaler >= cmp
IsDue(cmp, t) == cmp > 0 /\ t >= cmp

ArmedButNext(cmp, t) == cmp < Never /\ cmp > t + Scaler
Armed(cmp, t) == 0 < cmp /\ cmp < Never /\ ~IsDue(cmp, t)

Run ==
    /\ irqAt = now
    /\ mtime' = Updated
    /\ mtip' = [h \in Harts |-> IsDue(mtimecmp[h], mtime')]
    /\ LET delays == {mtimecmp[h] - mtime' : h \in {g \in Harts : Armed(mtimecmp[g], mtime')}}
       IN  IF delays = {} THEN irqAt' = None
           ELSE \E d \in delays : /\ \A e \in delays : d <= e
                                  /\ irqAt' = now + d
    /\ UNCHANGED <<now, local, mtimecmp, msip, want>>

HartStep(h) ==
    \/ RunAhead(h) \/ ReadTimeCsr(h) \/ ReadMtime(h)
    \/ \E v \in Ticks : WriteOld(h, v) \/ WriteNew(h, v)
    \/ WriteLast(h)
    \/ \E b \in BOOLEAN : WriteMsip(h, b)

Next == Tick \/ Run \/ \E h \in Harts : HartStep(h)

Spec == Init /\ [][Next]_vars
-----------------------------------------------------------------------------
(* A timer that has not gone off is watched: irq_event fires once the hart
   that set it has been waited for, or within the tick of its time, however
   the event's earlier notifications, the other timers and mtime, which runs
   ahead and is set back by reads, come together. *)
TimerIsWatched ==
    \A h \in Harts :
        LET cmp == mtimecmp[h]
        IN  0 < cmp /\ cmp < Never /\ ~mtip[h] =>
                /\ irqAt # None
                /\ \/ irqAt <= now + Quantum
                   \/ irqAt < cmp + Scaler

(* A timer interrupt comes no earlier than a quantum before its time; one that
   belongs to an earlier setting is about to be looked at again. *)
NotTooEarly ==
    \A h \in Harts :
        mtip[h] /\ ~(0 < mtimecmp[h] /\ mtimecmp[h] <= now + Quantum) =>
            irqAt # None /\ irqAt <= now + Quantum

(* The write sequence of the comment at the top of CLINT never makes run()
   raise an interrupt for a value in between: only for a time that the old or
   the new setting asked for. *)
NoSpuriousTimer ==
    [][\A h \in Harts :
          mtip'[h] /\ ~mtip[h] =>
              \/ want[h].step = "idle"
              \/ want[h].old <= now + Quantum
              \/ want[h].new <= now + Quantum]_vars
=============================================================================
