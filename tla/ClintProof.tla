----------------------------- MODULE ClintProof -----------------------------
(***************************************************************************)
(* What Clint, and RealClint in MCClint, promise for every set of harts,   *)
(* every tick length, every quantum and every bound of the time.           *)
(***************************************************************************)
EXTENDS MCClint, TLAPS

\* The bounds of the times that the argument rests on.
Times ==
    /\ now \in Nat
    /\ local \in [Harts -> Nat]
    /\ \A h \in Harts : now <= local[h] /\ local[h] <= now + Quantum
    /\ mtime \in Nat /\ mtime <= now + Quantum
    /\ mtimecmp \in [Harts -> Ticks]
    /\ irqAt = None \/ (irqAt \in Nat /\ irqAt >= now)
    /\ mtip \in [Harts -> BOOLEAN]
    /\ want \in [Harts -> [old : Ticks, new : Ticks, step : Steps]]

LEMMA Constants ==
    /\ Scaler \in Nat /\ Scaler > 0
    /\ Quantum \in Nat /\ MaxTime \in Nat /\ Never \in Nat
    /\ None \notin Int
    /\ Ticks \subseteq Nat
  BY ClintAssumption DEF ClintAssumption, Ticks

LEMMA Numbers == Scaler \in Nat /\ Scaler > 0 /\ Quantum \in Nat
  BY Constants

\* A tick is no later than the times in it, and less than Scaler before them.
LEMMA FloorBounds ==
    ASSUME NEW t \in Nat PROVE Floor(t) \in Nat /\ Floor(t) <= t /\ t < Floor(t) + Scaler
  <1>1. t % Scaler \in 0 .. Scaler - 1
    BY Constants
  <1>2. t % Scaler <= t
    BY Constants, <1>1, SMT
  <1> QED
    BY Constants, <1>1, <1>2 DEF Floor

\* update_and_get_mtime does not leave mtime a tick behind, nor ahead of a quantum.
LEMMA UpdatedBounds ==
    ASSUME Times
    PROVE  Updated \in Nat /\ Updated <= now + Quantum /\ now < Updated + Scaler
  <1>1. Floor(now) \in Nat /\ Floor(now) <= now /\ now < Floor(now) + Scaler
    BY FloorBounds DEF Times
  <1> QED
    BY <1>1, Constants DEF Times, Updated

\* A notification leaves the event no later than it was and than it asks for.
LEMMA NotifiedBounds ==
    ASSUME Times, NEW t \in Nat, t >= now
    PROVE  /\ Notified(irqAt, t) \in Nat
           /\ Notified(irqAt, t) >= now
           /\ Notified(irqAt, t) <= t
           /\ irqAt # None => Notified(irqAt, t) <= irqAt
  BY Constants DEF Times, Notified

\* What a write of mtimecmp does to the times.
LEMMA SetTimerTimes ==
    ASSUME Times, NEW h \in Harts, NEW v \in Ticks, SetTimer(h, v)
    PROVE  /\ UNCHANGED <<now, local, mtime, mtip>>
           /\ mtimecmp' = [mtimecmp EXCEPT ![h] = v]
           /\ mtimecmp' \in [Harts -> Ticks]
           /\ irqAt' \in Nat /\ irqAt' >= now /\ irqAt' <= now + Quantum
           /\ irqAt # None => irqAt' <= irqAt
  <1>1. v \in Nat
    BY Constants
  <1>2. local[h] \in Nat /\ local[h] >= now /\ local[h] <= now + Quantum
    BY DEF Times
  <1>3. irqAt' = Notified(irqAt, local[h])
    BY DEF SetTimer
  <1>4. /\ irqAt' \in Nat /\ irqAt' >= now /\ irqAt' <= local[h]
        /\ irqAt # None => irqAt' <= irqAt
    BY <1>2, <1>3, NotifiedBounds
  <1>5. irqAt' <= now + Quantum
    BY <1>2, <1>4, Constants DEF Times
  <1> QED
    BY <1>1, <1>4, <1>5 DEF SetTimer, Times

\* A timer that has not gone off is watched.
Watched(h) ==
    0 < mtimecmp[h] /\ mtimecmp[h] < Never /\ ~mtip[h] =>
        /\ irqAt # None
        /\ irqAt <= now + Quantum \/ irqAt < mtimecmp[h] + Scaler

\* An interrupt whose time has not come will be looked at again.
Looked(h) ==
    mtip[h] /\ ~(0 < mtimecmp[h] /\ mtimecmp[h] <= now + Quantum) =>
        irqAt # None /\ irqAt <= now + Quantum

IInv == Times /\ \A h \in Harts : Watched(h) /\ Looked(h)

\* The software's writes are writes of a timer.
LEMMA WritesSetTimer ==
    ASSUME Times, NEW h \in Harts,
           \/ \E v \in Ticks : WriteOld(h, v) \/ WriteNew(h, v)
           \/ WriteLast(h)
    PROVE  /\ \E v \in Ticks : SetTimer(h, v)
           /\ want' \in [Harts -> [old : Ticks, new : Ticks, step : Steps]]
  <1>0. /\ want[h] \in [old : Ticks, new : Ticks, step : Steps]
        /\ Never \in Ticks /\ Steps = {"idle", "old", "new"}
    BY DEF Times, Ticks, Steps
  <1>1. ASSUME NEW v \in Ticks, WriteOld(h, v)
        PROVE  SetTimer(h, v) /\ want' \in [Harts -> [old : Ticks, new : Ticks, step : Steps]]
    <2>1. PICK new \in Ticks : want' = [want EXCEPT ![h] =
              [old |-> IF mtimecmp[h] = 0 THEN v ELSE mtimecmp[h], new |-> new, step |-> "old"]]
      BY <1>1 DEF WriteOld
    <2> QED
      BY <1>0, <1>1, <2>1 DEF WriteOld, Times
  <1>2. ASSUME NEW v \in Ticks, WriteNew(h, v)
        PROVE  SetTimer(h, v) /\ want' \in [Harts -> [old : Ticks, new : Ticks, step : Steps]]
    BY <1>0, <1>2 DEF WriteNew, Times
  <1>3. ASSUME WriteLast(h)
        PROVE  /\ SetTimer(h, want[h].new)
               /\ want' \in [Harts -> [old : Ticks, new : Ticks, step : Steps]]
    BY <1>0, <1>3 DEF WriteLast, Times, Settled
  <1> QED
    BY <1>0, <1>1, <1>2, <1>3

\* After a write every timer is as well watched as before.
LEMMA SetTimerIInv ==
    ASSUME IInv, NEW h \in Harts, NEW v \in Ticks, SetTimer(h, v),
           want' \in [Harts -> [old : Ticks, new : Ticks, step : Steps]]
    PROVE  IInv'
  <1>1. /\ UNCHANGED <<now, local, mtime, mtip>>
        /\ mtimecmp' = [mtimecmp EXCEPT ![h] = v]
        /\ mtimecmp' \in [Harts -> Ticks]
        /\ irqAt' \in Nat /\ irqAt' >= now /\ irqAt' <= now + Quantum
        /\ irqAt # None => irqAt' <= irqAt
    BY SetTimerTimes DEF IInv
  <1>2. Times'
    BY <1>1 DEF IInv, Times
  <1>3. irqAt' # None
    BY <1>1, Constants
  <1>4. ASSUME NEW g \in Harts PROVE Watched(g)' /\ Looked(g)'
    BY <1>1, <1>3 DEF Watched, Looked
  <1> QED
    BY <1>2, <1>4 DEF IInv

LEMMA RunIInv == ASSUME IInv, Run PROVE IInv'
  <1>1. mtime' \in Nat /\ mtime' <= now + Quantum /\ now < mtime' + Scaler
    BY UpdatedBounds DEF IInv, Run
  <1>2. /\ UNCHANGED <<now, local, mtimecmp, want>>
        /\ mtip' = [h \in Harts |-> IsDue(mtimecmp[h], mtime')]
    BY DEF Run
  <1>3. now \in Nat /\ mtimecmp \in [Harts -> Nat]
    BY Constants DEF IInv, Times
  <1>4. \/ irqAt' = None /\ \A g \in Harts : ~Armed(mtimecmp[g], mtime')
        \/ \E k \in Harts :
              /\ Armed(mtimecmp[k], mtime')
              /\ irqAt' = now + (mtimecmp[k] - mtime')
              /\ \A g \in Harts : Armed(mtimecmp[g], mtime')
                                    => irqAt' <= now + (mtimecmp[g] - mtime')
    <2> DEFINE delays == {mtimecmp[h] - mtime' : h \in {g \in Harts : Armed(mtimecmp[g], mtime')}}
    <2>1. CASE delays = {}
      BY <2>1 DEF Run
    <2>2. CASE delays # {}
      <3>1. PICK d \in delays : (\A e \in delays : d <= e) /\ irqAt' = now + d
        BY <2>2 DEF Run
      <3>2. PICK k \in Harts : Armed(mtimecmp[k], mtime') /\ d = mtimecmp[k] - mtime'
        OBVIOUS
      <3>3. ASSUME NEW g \in Harts, Armed(mtimecmp[g], mtime')
            PROVE  irqAt' <= now + (mtimecmp[g] - mtime')
        <4>1. mtimecmp[g] - mtime' \in delays
          BY <3>3
        <4>2. d <= mtimecmp[g] - mtime'
          BY <3>1, <4>1
        <4>3. mtimecmp[g] \in Nat /\ d \in Int
          BY <1>1, <1>3, <3>2
        <4> QED
          BY <1>1, <1>3, <3>1, <4>2, <4>3
      <3> QED
        BY <3>1, <3>2, <3>3
    <2> QED
      BY <2>1, <2>2
  <1>5. irqAt' = None \/ (irqAt' \in Nat /\ irqAt' >= now)
    BY <1>1, <1>3, <1>4 DEF Armed, IsDue
  <1>6. mtip' \in [Harts -> BOOLEAN]
    BY <1>2 DEF IsDue
  <1>7. Times'
    BY <1>1, <1>2, <1>5, <1>6 DEF IInv, Times
  <1>8. ASSUME NEW h \in Harts PROVE Watched(h)'
    <2>1. mtimecmp[h] \in Nat /\ mtip'[h] = IsDue(mtimecmp[h], mtime')
      BY <1>2, <1>3
    <2>2. SUFFICES ASSUME Armed(mtimecmp[h], mtime')
                   PROVE  irqAt' # None /\ irqAt' < mtimecmp[h] + Scaler
      BY <1>2, <2>1 DEF Watched, Armed
    <2>3. irqAt' \in Int /\ irqAt' <= now + (mtimecmp[h] - mtime')
      BY <1>1, <1>3, <1>4, <2>2
    <2>4. mtimecmp[h] \in Nat
      BY <1>3
    <2>5. irqAt' < mtimecmp[h] + Scaler
      <3>1. now \in Int /\ mtime' \in Int /\ Scaler \in Int
        BY <1>1, <1>3, Numbers
      <3> QED
        <4>1. PICK c \in Int, a \in Int, m \in Int, n \in Int, s \in Int :
                 c = mtimecmp[h] /\ a = irqAt' /\ m = mtime' /\ n = now /\ s = Scaler
          BY <2>3, <2>4, <3>1
        <4>2. a <= n + (c - m)
          BY <2>3, <4>1
        <4>3. n < m + s
          BY <1>1, <4>1
        <4>4. a < c + s
          BY <4>2, <4>3
        <4> QED
          BY <4>1, <4>4
    <2> QED
      BY <2>3, <2>5, Constants
  <1>9. ASSUME NEW h \in Harts PROVE Looked(h)'
    <2>1. mtip'[h] = IsDue(mtimecmp[h], mtime')
      BY <1>2
    <2>2. ASSUME IsDue(mtimecmp[h], mtime')
          PROVE  0 < mtimecmp[h] /\ mtimecmp[h] <= now + Quantum
      <3>1. mtimecmp[h] \in Nat
        BY <1>3
      <3> QED
        BY <1>1, <1>3, <2>2, <3>1, Constants DEF IsDue
    <2> QED
      BY <1>2, <2>1, <2>2 DEF Looked
  <1> QED
    BY <1>7, <1>8, <1>9 DEF IInv

LEMMA TickIInv == ASSUME IInv, Tick PROVE IInv'
  <1>1. now' = now + 1 /\ now \in Nat
    BY DEF Tick, IInv, Times
  <1>2. UNCHANGED <<mtime, mtimecmp, irqAt, mtip, want>>
    BY DEF Tick
  <1>3. /\ irqAt = None \/ (irqAt \in Nat /\ irqAt >= now + 1)
        /\ mtime \in Nat /\ mtime <= now + Quantum
    <2>1. irqAt # now
      BY DEF Tick
    <2>2. irqAt = None \/ (irqAt \in Nat /\ irqAt >= now)
      BY DEF IInv, Times
    <2> QED
      BY <1>1, <2>1, <2>2 DEF IInv, Times
  <1>4. local' \in [Harts -> Nat] /\ \A h \in Harts : now' <= local'[h] /\ local'[h] <= now' + Quantum
    <2>1. local' = [h \in Harts |-> IF local[h] > now THEN local[h] ELSE now + 1]
      BY DEF Tick
    <2>2. ASSUME NEW h \in Harts
          PROVE  local'[h] \in Nat /\ now' <= local'[h] /\ local'[h] <= now' + Quantum
      <3>1. local[h] \in Nat /\ now <= local[h] /\ local[h] <= now + Quantum
        BY DEF IInv, Times
      <3>2. local'[h] = IF local[h] > now THEN local[h] ELSE now + 1
        BY <2>1
      <3> QED
        BY <1>1, <3>1, <3>2, Constants
    <2> QED
      BY <2>1, <2>2
  <1>5. Times'
    BY <1>1, <1>2, <1>3, <1>4, Constants DEF IInv, Times
  <1>6. ASSUME NEW h \in Harts PROVE Watched(h)' /\ Looked(h)'
    <2>1. Watched(h) /\ Looked(h) /\ mtimecmp[h] \in Nat
      BY Constants DEF IInv, Times
    <2>2. Watched(h)'
      BY <1>1, <1>2, <1>3, <2>1, Constants DEF Watched
    <2>3. Looked(h)'
      BY <1>1, <1>2, <1>3, <2>1, Constants DEF Looked
    <2> QED
      BY <2>2, <2>3
  <1> QED
    BY <1>5, <1>6 DEF IInv

\* A step that changes only mtime or a hart's local time disturbs no timer.
LEMMA QuietIInv ==
    ASSUME IInv, UNCHANGED <<now, mtimecmp, irqAt, mtip, want>>,
           mtime' \in Nat, mtime' <= now + Quantum,
           local' \in [Harts -> Nat],
           \A h \in Harts : now <= local'[h] /\ local'[h] <= now + Quantum
    PROVE  IInv'
  <1>1. Times'
    BY DEF IInv, Times
  <1>2. ASSUME NEW h \in Harts PROVE Watched(h)' /\ Looked(h)'
    BY DEF IInv, Watched, Looked
  <1> QED
    BY <1>1, <1>2 DEF IInv

LEMMA InitIInv == Init => IInv
  <1> SUFFICES ASSUME Init PROVE IInv
    OBVIOUS
  <1>1. want \in [Harts -> [old : Ticks, new : Ticks, step : Steps]]
    BY DEF Init, Settled, Ticks, Steps
  <1>2. Times
    <2>1. 0 \in Ticks
      BY Constants DEF Ticks
    <2> QED
      BY <1>1, <2>1, Numbers DEF Init, Times
  <1>3. ASSUME NEW h \in Harts PROVE Watched(h) /\ Looked(h)
    BY <1>2 DEF Init, Watched, Looked
  <1> QED
    BY <1>2, <1>3 DEF IInv

LEMMA NextIInv == IInv /\ [Next]_vars => IInv'
  <1> SUFFICES ASSUME IInv, [Next]_vars PROVE IInv'
    OBVIOUS
  <1>0. /\ now \in Nat /\ mtime \in Nat /\ mtime <= now + Quantum
        /\ local \in [Harts -> Nat]
        /\ \A h \in Harts : now <= local[h] /\ local[h] <= now + Quantum
    BY DEF IInv, Times
  <1>1. ASSUME NEW h \in Harts, RunAhead(h) PROVE IInv'
    <2>1. /\ local' = [local EXCEPT ![h] = @ + 1] /\ local[h] < now + Quantum
          /\ UNCHANGED <<now, mtime, mtimecmp, irqAt, mtip, want>>
      BY <1>1 DEF RunAhead
    <2>2. /\ local' \in [Harts -> Nat]
          /\ \A g \in Harts : now <= local'[g] /\ local'[g] <= now + Quantum
      BY <1>0, <2>1, Constants
    <2> QED
      BY <1>0, <2>1, <2>2, QuietIInv
  <1>2. ASSUME NEW h \in Harts, ReadTimeCsr(h) PROVE IInv'
    <2>1. mtime' \in Nat /\ mtime' <= now + Quantum
      BY <1>2, UpdatedBounds DEF ReadTimeCsr, IInv
    <2> QED
      BY <1>0, <1>2, <2>1, QuietIInv DEF ReadTimeCsr
  <1>3. ASSUME NEW h \in Harts, ReadMtime(h) PROVE IInv'
    <2>1. local[h] \in Nat /\ local[h] <= now + Quantum
      BY <1>0
    <2>2. mtime' \in Nat /\ mtime' <= local[h]
      BY <1>3, <2>1, FloorBounds DEF ReadMtime
    <2>3. mtime' <= now + Quantum
      BY <1>0, <2>1, <2>2, Constants
    <2> QED
      BY <1>0, <1>3, <2>2, <2>3, QuietIInv DEF ReadMtime
  <1>4. ASSUME NEW h \in Harts,
               (\E v \in Ticks : WriteOld(h, v) \/ WriteNew(h, v)) \/ WriteLast(h)
        PROVE  IInv'
    <2>1. Times
      BY DEF IInv
    <2>2. PICK v \in Ticks : SetTimer(h, v)
      BY <1>4, <2>1, WritesSetTimer
    <2>3. want' \in [Harts -> [old : Ticks, new : Ticks, step : Steps]]
      BY <1>4, <2>1, WritesSetTimer
    <2> QED
      BY <2>2, <2>3, SetTimerIInv
  <1>5. ASSUME NEW h \in Harts, NEW b \in BOOLEAN, WriteMsip(h, b) PROVE IInv'
    BY <1>0, <1>5, QuietIInv DEF WriteMsip
  <1>6. CASE UNCHANGED vars
    BY <1>0, <1>6, QuietIInv DEF vars
  <1> QED
    BY <1>1, <1>2, <1>3, <1>4, <1>5, <1>6, RunIInv, TickIInv DEF Next, HartStep

LEMMA Inductive == Spec => []IInv
  BY InitIInv, NextIInv, PTL DEF Spec

(* However notifications, timers and reads of mtime come together, a timer
   that has not gone off is watched: irq_event fires within a quantum or
   within the tick of its time. *)
THEOREM EveryTimerIsWatched == Spec => []TimerIsWatched
  <1>1. IInv => TimerIsWatched
    BY DEF IInv, Watched, TimerIsWatched
  <1> QED
    BY Inductive, <1>1, PTL

(* No timer interrupt comes more than a quantum early, and one that is left
   over from an earlier setting is looked at again within a quantum. *)
THEOREM NoTimerIsTooEarly == Spec => []NotTooEarly
  <1>1. IInv => NotTooEarly
    BY DEF IInv, Looked, NotTooEarly
  <1> QED
    BY Inductive, <1>1, PTL
-----------------------------------------------------------------------------
\* While software changes a timer, what it has written is no smaller than the
\* setting that the write stands for.
Covers(h) ==
    /\ want[h].step = "old" => mtimecmp[h] >= want[h].old
    /\ want[h].step = "new" => mtimecmp[h] >= want[h].new

WritesCover == \A h \in Harts : Covers(h)

LEMMA WriteCovers ==
    ASSUME Times, WritesCover, NEW h \in Harts,
           \/ \E v \in Ticks : WriteOld(h, v) \/ WriteNew(h, v)
           \/ WriteLast(h)
    PROVE  WritesCover'
  <1>0. /\ want[h] \in [old : Ticks, new : Ticks, step : Steps]
        /\ mtimecmp[h] \in Ticks /\ Ticks \subseteq Nat
    BY Constants DEF Times
  <1>1. ASSUME NEW g \in Harts, g # h PROVE Covers(g)'
    <2>1. want'[g] = want[g] /\ mtimecmp'[g] = mtimecmp[g]
      BY <1>1 DEF Times, WriteOld, WriteNew, WriteLast, SetTimer
    <2> QED
      BY <2>1 DEF WritesCover, Covers
  <1>2. Covers(h)'
    <2>1. ASSUME NEW v \in Ticks, WriteOld(h, v) PROVE Covers(h)'
      <3>1. PICK new \in Ticks : want' = [want EXCEPT ![h] =
                [old |-> IF mtimecmp[h] = 0 THEN v ELSE mtimecmp[h], new |-> new, step |-> "old"]]
        BY <2>1 DEF WriteOld
      <3>2. /\ want'[h].step = "old" /\ want'[h].old = IF mtimecmp[h] = 0 THEN v ELSE mtimecmp[h]
            /\ mtimecmp'[h] = v /\ v >= mtimecmp[h]
        BY <2>1, <3>1 DEF Times, WriteOld, SetTimer
      <3> QED
        BY <1>0, <3>2 DEF Covers
    <2>2. ASSUME NEW v \in Ticks, WriteNew(h, v) PROVE Covers(h)'
      <3>1. want'[h].step = "new" /\ want'[h].new = want[h].new /\ mtimecmp'[h] = v /\ v >= want[h].new
        BY <1>0, <2>2 DEF Times, WriteNew, SetTimer
      <3> QED
        BY <3>1 DEF Covers
    <2>3. ASSUME WriteLast(h) PROVE Covers(h)'
      <3>1. want'[h].step = "idle"
        BY <2>3 DEF Times, WriteLast, Settled
      <3> QED
        BY <3>1 DEF Covers
    <2> QED
      BY <2>1, <2>2, <2>3
  <1> QED
    BY <1>1, <1>2 DEF WritesCover

LEMMA NextCovers == IInv /\ WritesCover /\ [Next]_vars => WritesCover'
  <1> SUFFICES ASSUME IInv, WritesCover, [Next]_vars PROVE WritesCover'
    OBVIOUS
  <1>1. ASSUME NEW h \in Harts,
               (\E v \in Ticks : WriteOld(h, v) \/ WriteNew(h, v)) \/ WriteLast(h)
        PROVE  WritesCover'
    BY <1>1, WriteCovers DEF IInv
  <1>2. CASE UNCHANGED <<mtimecmp, want>>
    BY <1>2 DEF WritesCover, Covers
  <1> QED
    BY <1>1, <1>2 DEF Next, HartStep, vars, Tick, Run, RunAhead, ReadTimeCsr, ReadMtime, WriteMsip

\* Only run() raises an interrupt, for a timer that is due within the quantum.
LEMMA RisingIsDue ==
    ASSUME IInv, [Next]_vars, NEW h \in Harts, mtip'[h], ~mtip[h]
    PROVE  mtimecmp[h] \in Nat /\ mtimecmp[h] <= now + Quantum
  <1>1. Run
    BY DEF Next, HartStep, vars, Tick, RunAhead, ReadTimeCsr, ReadMtime, WriteMsip,
           WriteOld, WriteNew, WriteLast, SetTimer
  <1>2. mtip'[h] = IsDue(mtimecmp[h], mtime') /\ mtime' = Updated
    BY <1>1 DEF Run
  <1>3. mtime' \in Nat /\ mtime' <= now + Quantum
    BY <1>2, UpdatedBounds DEF IInv
  <1>4. mtimecmp[h] \in Nat /\ now \in Nat /\ mtime' >= mtimecmp[h]
    BY <1>2, Constants DEF IInv, Times, IsDue
  <1> QED
    BY <1>3, <1>4, Numbers

(* The write sequence of the comment at the top of CLINT raises no interrupt
   for a value in between (clint.h:29): when run()
   raises one while software changes the timer, the old or the new setting
   asked for it. *)
THEOREM WritesAreSafe == Spec => NoSpuriousTimer
  <1>1. Init => WritesCover
    <2> SUFFICES ASSUME Init, NEW h \in Harts PROVE Covers(h)
      BY DEF WritesCover
    <2>1. want[h] = Settled
      BY DEF Init
    <2> QED
      BY <2>1 DEF Covers, Settled
  <1>2. IInv /\ WritesCover /\ [Next]_vars =>
          [\A h \in Harts :
              mtip'[h] /\ ~mtip[h] =>
                  \/ want[h].step = "idle"
                  \/ want[h].old <= now + Quantum
                  \/ want[h].new <= now + Quantum]_vars
    <2> SUFFICES ASSUME IInv, WritesCover, [Next]_vars, NEW h \in Harts, mtip'[h], ~mtip[h],
                        want[h].step # "idle"
                 PROVE  want[h].old <= now + Quantum \/ want[h].new <= now + Quantum
      OBVIOUS
    <2>1. mtimecmp[h] \in Nat /\ mtimecmp[h] <= now + Quantum
      BY RisingIsDue
    <2>2. /\ want[h] \in [old : Ticks, new : Ticks, step : Steps]
          /\ Ticks \subseteq Nat /\ now \in Nat
      BY Constants DEF IInv, Times
    <2>3. want[h].step = "old" \/ want[h].step = "new"
      BY <2>2 DEF Steps
    <2>4. mtimecmp[h] >= want[h].old \/ mtimecmp[h] >= want[h].new
      BY <2>3 DEF WritesCover, Covers
    <2>5. want[h].old \in Nat /\ want[h].new \in Nat
      BY <2>2
    <2>6. now \in Nat
      BY DEF IInv, Times
    <2> QED
      BY <2>1, <2>4, <2>5, <2>6, Numbers
  <1> QED
    BY <1>1, <1>2, InitIInv, NextIInv, NextCovers, PTL DEF Spec, NoSpuriousTimer

-----------------------------------------------------------------------------
(***************************************************************************)
(* RealClint's timers.  The argument counts in microseconds: what is left  *)
(* to sleep and the clock together reach the time that was set, and the    *)
(* time that pause() keeps is no later than the clock.                     *)
(***************************************************************************)

LEMMA RealConstants ==
    DIVIDEND \in Nat /\ DIVIDEND > 0 /\ MaxTicks \in Nat /\ None \notin Harts
  BY RealTimeAssumption DEF RealTimeAssumption

LEMMA ProductIsNat == ASSUME NEW a \in Nat, NEW b \in Nat PROVE a * b \in Nat
  OBVIOUS

LEMMA MicrosecondsAreNat == ASSUME NEW t \in Nat PROVE Real!ticks_to_usec(t) \in Nat
  BY RealConstants, ProductIsNat DEF Real!ticks_to_usec

\* What is left after b of a ticks.
LEMMA MicrosecondsAdd ==
    ASSUME NEW a \in Nat, NEW b \in Nat, a >= b
    PROVE  Real!ticks_to_usec(a - b) + Real!ticks_to_usec(b) = Real!ticks_to_usec(a)
  BY RealConstants DEF Real!ticks_to_usec

LEMMA MicrosecondsAreMonotonic ==
    ASSUME NEW a \in Nat, NEW b \in Nat, a >= b
    PROVE  Real!ticks_to_usec(a) >= Real!ticks_to_usec(b)
  <1>1. a - b \in Nat
    OBVIOUS
  <1>2. Real!ticks_to_usec(a - b) >= 0
    BY <1>1, MicrosecondsAreNat
  <1> QED
    BY <1>2, <1>1, MicrosecondsAdd, MicrosecondsAreNat

\* The rounding of Real!usec_to_ticks loses no tick, and gains none.
LEMMA RoundingIsExact ==
    ASSUME NEW c \in Nat, NEW t \in Nat
    PROVE  /\ Real!usec_to_ticks(c) \in Nat
           /\ Real!usec_to_ticks(c) >= t <=> c >= Real!ticks_to_usec(t)
  <1> DEFINE q == c \div DIVIDEND
  <1>1. q \in Nat /\ q * DIVIDEND <= c /\ c < q * DIVIDEND + DIVIDEND
    BY RealConstants
  <1>2. Real!ticks_to_usec(q + 1) = q * DIVIDEND + DIVIDEND
    BY <1>1, RealConstants DEF Real!ticks_to_usec
  <1>3. Real!ticks_to_usec(q) = q * DIVIDEND
    BY DEF Real!ticks_to_usec
  <1>4. CASE q >= t
    BY <1>1, <1>3, <1>4, MicrosecondsAreMonotonic, MicrosecondsAreNat DEF Real!usec_to_ticks
  <1>5. CASE t >= q + 1
    BY <1>1, <1>2, <1>5, MicrosecondsAreMonotonic, MicrosecondsAreNat DEF Real!usec_to_ticks
  <1> QED
    BY <1>1, <1>4, <1>5
\* Real!mtime has reached realCmp[h].
Due(h) == clock >= Real!ticks_to_usec(realCmp[h])

\* A thread that has been cancelled is being joined.
CancelledIsJoined == \A h \in Harts : timer[h].at = "cancelled" => writer.hart = h

WriterIsNotAhead == writer.hart # None => Real!ticks_to_usec(writer.time) <= clock

\* Whoever set a timer and waits: asleep until it is due, or due and noticed.
IsComing(h) ==
    ~realTip[h] /\ realCmp[h] > 0 /\ writer.hart # h =>
        \/ timer[h].at = "asleep" /\ clock + timer[h].left >= Real!ticks_to_usec(realCmp[h])
        \/ Due(h) /\ (timer[h].at = "awake" \/ event)

PendingIsDue(h) == realTip[h] /\ writer.hart # h => Due(h)

RealIInv ==
    /\ Real!TypeOK
    /\ CancelledIsJoined
    /\ WriterIsNotAhead
    /\ \A h \in Harts : IsComing(h) /\ PendingIsDue(h)

LEMMA ClockIsNat ==
    ASSUME Real!TypeOK
    PROVE  clock \in Nat /\ Real!MaxClock \in Nat /\ clock <= Real!MaxClock
  BY RealConstants, ProductIsNat DEF Real!TypeOK, Real!MaxClock

\* The clock does not stop before a timer that can be set.
LEMMA TimersAreWithinTheBound ==
    ASSUME Real!TypeOK, NEW h \in Harts
    PROVE  /\ realCmp[h] \in Nat
           /\ Real!ticks_to_usec(realCmp[h]) \in Nat
           /\ Real!ticks_to_usec(realCmp[h]) <= Real!MaxClock
  <1>1. realCmp[h] \in Nat /\ realCmp[h] <= MaxTicks
    BY RealConstants DEF Real!TypeOK
  <1>2. Real!ticks_to_usec(MaxTicks) = Real!MaxClock
    BY DEF Real!ticks_to_usec, Real!MaxClock
  <1> QED
    BY <1>1, <1>2, RealConstants, MicrosecondsAreMonotonic, MicrosecondsAreNat

LEMMA InitHolds == Real!Init => RealIInv
  <1> SUFFICES ASSUME Real!Init PROVE RealIInv
    OBVIOUS
  <1>1. Real!ticks_to_usec(0) = 0
    BY RealConstants DEF Real!ticks_to_usec
  <1>2. Real!MaxClock \in Nat
    BY RealConstants, ProductIsNat DEF Real!MaxClock
  <1>3. Real!TypeOK
    <2>1. Real!Stopped \in [at : {"none", "asleep", "cancelled", "awake", "over"}, left : Nat]
      BY DEF Real!Stopped
    <2>2. Real!Free \in [hart : Harts \cup {None}, time : Nat]
      BY DEF Real!Free
    <2>3. clock \in 0 .. Real!MaxClock /\ realCmp \in [Harts -> 0 .. MaxTicks]
      BY <1>2, RealConstants DEF Real!Init
    <2> QED
      BY <2>1, <2>2, <2>3 DEF Real!TypeOK, Real!Init
  <1>4. CancelledIsJoined /\ WriterIsNotAhead
    BY DEF CancelledIsJoined, WriterIsNotAhead, Real!Init, Real!Stopped, Real!Free
  <1>5. ASSUME NEW h \in Harts PROVE IsComing(h) /\ PendingIsDue(h)
    BY <1>1 DEF IsComing, PendingIsDue, Real!Init
  <1> QED
    BY <1>3, <1>4, <1>5 DEF RealIInv
LEMMA TimePassesKeeps == RealIInv /\ Real!TimePasses => RealIInv'
  <1> SUFFICES ASSUME RealIInv, Real!TimePasses PROVE RealIInv'
    OBVIOUS
  <1> USE DEF Real!TimePasses
  <1>1. clock \in Nat /\ Real!MaxClock \in Nat /\ clock <= Real!MaxClock
    BY ClockIsNat DEF RealIInv
  <1>2. clock' \in 0 .. Real!MaxClock /\ clock' >= clock
    BY <1>1
  <1>3. \A h \in Harts :
          /\ timer[h] \in [at : {"none", "asleep", "cancelled", "awake", "over"}, left : Nat]
          /\ timer'[h] \in [at : {"none", "asleep", "cancelled", "awake", "over"}, left : Nat]
          /\ timer'[h].at = timer[h].at
          /\ clock' = Real!MaxClock \/ clock' + timer'[h].left >= clock + timer[h].left
    BY <1>1 DEF RealIInv, Real!TypeOK
  <1>4. Real!TypeOK'
    <2>1. timer' \in [Harts -> [at : {"none", "asleep", "cancelled", "awake", "over"}, left : Nat]]
      BY <1>3
    <2> QED
      BY <1>2, <2>1 DEF RealIInv, Real!TypeOK, Real!MaxClock
  <1>5. CancelledIsJoined'
    BY <1>3 DEF RealIInv, CancelledIsJoined
  <1>6. WriterIsNotAhead'
    <2> SUFFICES ASSUME writer'.hart # None PROVE Real!ticks_to_usec(writer'.time) <= clock'
      BY DEF WriterIsNotAhead, Real!ticks_to_usec
    <2>1. Real!ticks_to_usec(writer.time) <= clock /\ writer' = writer
      BY DEF RealIInv, WriterIsNotAhead
    <2>2. Real!ticks_to_usec(writer.time) \in Nat
      BY MicrosecondsAreNat DEF RealIInv, Real!TypeOK
    <2> QED
      BY <1>1, <1>2, <2>1, <2>2
  <1>7. ASSUME NEW h \in Harts PROVE (IsComing(h) /\ PendingIsDue(h))'
    <2>1. /\ Real!ticks_to_usec(realCmp[h]) \in Nat
          /\ Real!ticks_to_usec(realCmp[h]) <= Real!MaxClock
      BY TimersAreWithinTheBound DEF RealIInv
    <2>2. Due(h) => Due(h)'
      BY <1>1, <1>2, <2>1 DEF Due
    <2>3. clock + timer[h].left >= Real!ticks_to_usec(realCmp[h]) =>
            clock' + timer'[h].left >= Real!ticks_to_usec(realCmp[h])
      <3>1. timer[h].left \in Nat /\ timer'[h].left \in Nat
        BY <1>3
      <3>2. clock' = Real!MaxClock \/ clock' + timer'[h].left >= clock + timer[h].left
        BY <1>3
      <3> HIDE DEF Real!TimePasses
      <3> QED
        BY <1>1, <1>2, <2>1, <3>1, <3>2
    <2>4. IsComing(h) /\ PendingIsDue(h)
      BY DEF RealIInv
    <2> QED
      BY <1>3, <2>2, <2>3, <2>4 DEF IsComing, PendingIsDue
  <1> QED
    BY <1>4, <1>5, <1>6, <1>7 DEF RealIInv

\* The clock, the timers that are set and the thread that writes do not change.
LEMMA ThreadStepKeeps ==
    ASSUME NEW h \in Harts, RealIInv, Real!WakeUp(h) \/ Real!Notify(h)
    PROVE  RealIInv'
  <1> DEFINE Threads == [at : {"none", "asleep", "cancelled", "awake", "over"}, left : Nat]
  <1>0. /\ UNCHANGED <<clock, realCmp, realTip, realSip, writer>>
        /\ \A g \in Harts : Real!ticks_to_usec(realCmp[g]) \in Nat
        /\ clock \in Nat
        /\ timer \in [Harts -> Threads]
    BY ClockIsNat, TimersAreWithinTheBound DEF RealIInv, Real!WakeUp, Real!Notify, Real!TypeOK
  <1>1. /\ \A g \in Harts : g # h => timer'[g] = timer[g]
        /\ timer' \in [Harts -> Threads]
        /\ event' \in BOOLEAN
        /\ event => event'
    <2>1. ASSUME NEW r \in Threads
          PROVE  /\ [timer EXCEPT ![h] = r] \in [Harts -> Threads]
                 /\ \A g \in Harts : g # h => [timer EXCEPT ![h] = r][g] = timer[g]
      BY <1>0
    <2>2. \E r \in Threads : timer' = [timer EXCEPT ![h] = r]
      <3>1. [timer[h] EXCEPT !.at = "awake"] \in Threads /\ [timer[h] EXCEPT !.at = "over"] \in Threads
        BY <1>0
      <3>2. [at |-> "over", left |-> 0] \in Threads
        OBVIOUS
      <3> QED
        BY <3>1, <3>2 DEF Real!WakeUp, Real!Notify
    <2>3. event' \in BOOLEAN /\ (event => event')
      BY DEF Real!WakeUp, Real!Notify, RealIInv, Real!TypeOK
    <2> QED
      BY <2>1, <2>2, <2>3
  <1>2. timer'[h].at = "cancelled" => FALSE
    BY <1>0 DEF Real!WakeUp, Real!Notify
  <1>3. Real!TypeOK'
    BY <1>0, <1>1 DEF RealIInv, Real!TypeOK, Real!MaxClock
  <1>4. CancelledIsJoined'
    BY <1>0, <1>1, <1>2 DEF RealIInv, CancelledIsJoined
  <1>5. WriterIsNotAhead'
    BY <1>0 DEF RealIInv, WriterIsNotAhead, Real!ticks_to_usec
  <1>6. ASSUME NEW g \in Harts PROVE (IsComing(g) /\ PendingIsDue(g))'
    <2>1. IsComing(g) /\ PendingIsDue(g)
      BY DEF RealIInv
    <2>2. Due(g)' <=> Due(g)
      BY <1>0 DEF Due, Real!ticks_to_usec
    <2>3. CASE g # h
      BY <1>0, <1>1, <2>1, <2>2, <2>3 DEF IsComing, PendingIsDue, Real!ticks_to_usec
    <2>4. CASE g = h /\ Real!WakeUp(h)
      <3>1. (timer[h].left = 0 /\ timer[h].at = "asleep") \/ timer[h].at = "cancelled"
        BY <2>4 DEF Real!WakeUp
      <3>2. timer[h].at = "cancelled" => writer'.hart = h
        BY <1>0 DEF RealIInv, CancelledIsJoined
      <3>3. timer[h].at = "asleep" => timer'[h].at = "awake"
        BY <1>0, <2>4 DEF Real!WakeUp
      <3>4. timer[h].left = 0 /\ clock + timer[h].left >= Real!ticks_to_usec(realCmp[h]) => Due(h)
        BY <1>0 DEF Due
      <3> QED
        BY <1>0, <2>1, <2>2, <2>4, <3>1, <3>2, <3>3, <3>4 DEF IsComing, PendingIsDue
    <2>5. CASE g = h /\ Real!Notify(h)
      <3>1. timer[h].at = "awake" /\ event'
        BY <2>5 DEF Real!Notify
      <3> QED
        BY <1>0, <2>1, <2>2, <2>5, <3>1 DEF IsComing, PendingIsDue
    <2> QED
      BY <2>3, <2>4, <2>5
  <1> QED
    BY <1>3, <1>4, <1>5, <1>6 DEF RealIInv

LEMMA WriteMtimecmpKeeps ==
    ASSUME NEW h \in Harts, NEW cmp \in 0 .. MaxTicks, RealIInv, Real!WriteMtimecmp(h, cmp)
    PROVE  RealIInv'
  <1> DEFINE Threads == [at : {"none", "asleep", "cancelled", "awake", "over"}, left : Nat]
  <1>0. /\ UNCHANGED <<clock, realTip, realSip, event>>
        /\ realCmp' = [realCmp EXCEPT ![h] = cmp]
        /\ writer' = [hart |-> h, time |-> Real!mtime]
        /\ writer = Real!Free
        /\ timer' = Real!Cancel(h)
    BY DEF Real!WriteMtimecmp
  <1>1. clock \in Nat
    BY ClockIsNat DEF RealIInv
  <1>2. Real!mtime \in Nat /\ Real!ticks_to_usec(Real!mtime) <= clock
    <2>1. Real!mtime \in Nat
      BY <1>1, RoundingIsExact DEF Real!mtime
    <2> QED
      BY <1>1, <2>1, RoundingIsExact, MicrosecondsAreNat DEF Real!mtime
  <1>3. /\ timer' \in [Harts -> Threads]
        /\ \A g \in Harts : g # h => timer'[g] = timer[g]
    BY <1>0 DEF RealIInv, Real!TypeOK, Real!Cancel
  <1>4. Real!TypeOK'
    BY <1>0, <1>2, <1>3 DEF RealIInv, Real!TypeOK, Real!MaxClock
  <1>5. CancelledIsJoined'
    <2>1. \A g \in Harts : timer[g].at # "cancelled"
      BY <1>0, RealConstants DEF RealIInv, CancelledIsJoined, Real!Free
    <2> QED
      BY <1>0, <1>3, <2>1 DEF CancelledIsJoined
  <1>6. WriterIsNotAhead'
    BY <1>0, <1>2 DEF WriterIsNotAhead, Real!ticks_to_usec
  <1>7. ASSUME NEW g \in Harts PROVE (IsComing(g) /\ PendingIsDue(g))'
    <2>1. CASE g = h
      BY <1>0, <2>1 DEF IsComing, PendingIsDue
    <2>2. CASE g # h
      <3>1. writer.hart # g
        BY <1>0, RealConstants DEF Real!Free
      <3>2. realCmp'[g] = realCmp[g] /\ timer'[g] = timer[g] /\ (Due(g)' <=> Due(g))
        BY <1>0, <1>3, <2>2 DEF RealIInv, Real!TypeOK, Due, Real!ticks_to_usec
      <3>3. IsComing(g) /\ PendingIsDue(g)
        BY DEF RealIInv
      <3> QED
        BY <1>0, <3>1, <3>2, <3>3 DEF IsComing, PendingIsDue, Real!ticks_to_usec
    <2> QED
      BY <2>1, <2>2
  <1> QED
    BY <1>4, <1>5, <1>6, <1>7 DEF RealIInv

LEMMA SetTimerKeeps == ASSUME NEW h \in Harts, RealIInv, Real!SetTimer(h) PROVE RealIInv'
  <1> DEFINE Threads == [at : {"none", "asleep", "cancelled", "awake", "over"}, left : Nat]
             cmp == realCmp[h]
             due == writer.time >= cmp
             set == IF due THEN Real!Stopped
                    ELSE [at |-> "asleep", left |-> Real!ticks_to_usec(cmp - writer.time)]
  <1>0. /\ UNCHANGED <<clock, realCmp, realSip, event>>
        /\ realTip' = [realTip EXCEPT ![h] = due]
        /\ timer' = [timer EXCEPT ![h] = set]
        /\ writer.hart = h
        /\ writer' = Real!Free
        /\ timer \in [Harts -> Threads]
        /\ realTip \in [Harts -> BOOLEAN]
    BY DEF Real!SetTimer, RealIInv, Real!TypeOK
  <1>1. /\ clock \in Nat /\ cmp \in Nat /\ writer.time \in Nat
        /\ Real!ticks_to_usec(cmp) \in Nat /\ Real!ticks_to_usec(writer.time) \in Nat
    BY ClockIsNat, TimersAreWithinTheBound, MicrosecondsAreNat DEF RealIInv, Real!TypeOK
  <1>2. Real!ticks_to_usec(writer.time) <= clock
    BY <1>0, RealConstants DEF RealIInv, WriterIsNotAhead
  <1>3. ~due => /\ Real!ticks_to_usec(cmp - writer.time) \in Nat
                /\ clock + Real!ticks_to_usec(cmp - writer.time) >= Real!ticks_to_usec(cmp)
    <2> SUFFICES ASSUME ~due
                 PROVE  /\ Real!ticks_to_usec(cmp - writer.time) \in Nat
                        /\ clock + Real!ticks_to_usec(cmp - writer.time) >= Real!ticks_to_usec(cmp)
      OBVIOUS
    <2>1. cmp - writer.time \in Nat /\ cmp >= writer.time
      BY <1>1
    <2>2. Real!ticks_to_usec(cmp - writer.time) \in Nat
      BY <2>1, MicrosecondsAreNat
    <2>3. Real!ticks_to_usec(cmp - writer.time) + Real!ticks_to_usec(writer.time) = Real!ticks_to_usec(cmp)
      BY <1>1, <2>1, MicrosecondsAdd
    <2> QED
      BY <1>1, <1>2, <2>2, <2>3
  <1>4. due => clock >= Real!ticks_to_usec(cmp)
    BY <1>1, <1>2, MicrosecondsAreMonotonic
  <1>5. set \in Threads /\ set.at # "cancelled"
    BY <1>3 DEF Real!Stopped
  <1>6. /\ timer' \in [Harts -> Threads]
        /\ timer'[h] = set
        /\ \A g \in Harts : g # h => timer'[g] = timer[g]
    BY <1>0, <1>5
  <1>7. /\ realTip' \in [Harts -> BOOLEAN]
        /\ realTip'[h] = due
        /\ \A g \in Harts : g # h => realTip'[g] = realTip[g]
    BY <1>0
  <1>8. Real!TypeOK'
    <2>1. writer' \in [hart : Harts \cup {None}, time : Nat]
      BY <1>0 DEF Real!Free
    <2> QED
      BY <1>0, <1>6, <1>7, <2>1 DEF RealIInv, Real!TypeOK, Real!MaxClock
  <1>9. CancelledIsJoined'
    <2>1. \A g \in Harts : g # h => timer[g].at # "cancelled"
      BY <1>0 DEF RealIInv, CancelledIsJoined
    <2> QED
      BY <1>5, <1>6, <2>1 DEF CancelledIsJoined
  <1>10. WriterIsNotAhead'
    BY <1>0 DEF WriterIsNotAhead, Real!Free
  <1>11. ASSUME NEW g \in Harts PROVE (IsComing(g) /\ PendingIsDue(g))'
    <2>1. CASE g = h
      <3>1. due => Due(h)'
        BY <1>0, <1>4 DEF Due, Real!ticks_to_usec
      <3>2. ~due => /\ timer'[h].at = "asleep"
                    /\ clock' + timer'[h].left >= Real!ticks_to_usec(realCmp[h])'
        BY <1>0, <1>3, <1>6 DEF Real!ticks_to_usec
      <3> QED
        BY <1>7, <2>1, <3>1, <3>2 DEF IsComing, PendingIsDue
    <2>2. CASE g # h
      <3>1. IsComing(g) /\ PendingIsDue(g)
        BY DEF RealIInv
      <3> HIDE DEF due, set
      <3> QED
        BY <1>0, <1>6, <1>7, <2>2, <3>1 DEF IsComing, PendingIsDue, Due, Real!ticks_to_usec
    <2> QED
      BY <2>1, <2>2
  <1> QED
    BY <1>8, <1>9, <1>10, <1>11 DEF RealIInv

LEMMA InterruptKeeps == ASSUME RealIInv, Real!Interrupt PROVE RealIInv'
  <1>0. /\ UNCHANGED <<clock, realCmp, realSip, timer, writer>>
        /\ realTip' = [h \in Harts |-> realTip[h] \/ Real!mtime >= realCmp[h]]
        /\ event' = FALSE
    BY DEF Real!Interrupt
  <1>1. ASSUME NEW h \in Harts
        PROVE  Real!mtime >= realCmp[h] <=> Due(h)
    BY RoundingIsExact, ClockIsNat, TimersAreWithinTheBound DEF RealIInv, Real!mtime, Due
  <1>2. Real!TypeOK'
    BY <1>0 DEF RealIInv, Real!TypeOK, Real!MaxClock
  <1>3. CancelledIsJoined' /\ WriterIsNotAhead'
    BY <1>0 DEF RealIInv, CancelledIsJoined, WriterIsNotAhead, Real!ticks_to_usec
  <1>4. ASSUME NEW h \in Harts PROVE (IsComing(h) /\ PendingIsDue(h))'
    <2>1. IsComing(h) /\ PendingIsDue(h)
      BY DEF RealIInv
    <2>2. realTip'[h] <=> realTip[h] \/ Due(h)
      BY <1>0, <1>1 DEF RealIInv, Real!TypeOK
    <2>3. Due(h)' <=> Due(h)
      BY <1>0 DEF Due, Real!ticks_to_usec
    <2> QED
      BY <1>0, <2>1, <2>2, <2>3 DEF IsComing, PendingIsDue, Real!ticks_to_usec
  <1> QED
    BY <1>2, <1>3, <1>4 DEF RealIInv

LEMMA NothingElseKeeps ==
    ASSUME RealIInv, UNCHANGED <<clock, realCmp, realTip, timer, event, writer>>,
           realSip' \in [Harts -> BOOLEAN]
    PROVE  RealIInv'
  BY DEF RealIInv, Real!TypeOK, Real!MaxClock, CancelledIsJoined, WriterIsNotAhead,
         IsComing, PendingIsDue, Due, Real!ticks_to_usec

LEMMA RealNextKeeps == RealIInv /\ (Real!Next \/ UNCHANGED realVars) => RealIInv'
  <1> SUFFICES ASSUME RealIInv, Real!Next \/ UNCHANGED realVars PROVE RealIInv'
    OBVIOUS
  <1>1. CASE Real!TimePasses
    BY <1>1, TimePassesKeeps
  <1>2. CASE Real!Interrupt
    BY <1>2, InterruptKeeps
  <1>3. ASSUME NEW h \in Harts, Real!HartStep(h) PROVE RealIInv'
    <2>1. CASE Real!WakeUp(h) \/ Real!Notify(h)
      BY <2>1, ThreadStepKeeps
    <2>2. CASE Real!SetTimer(h)
      BY <2>2, SetTimerKeeps
    <2>3. CASE \E cmp \in 0 .. MaxTicks : Real!WriteMtimecmp(h, cmp)
      BY <2>3, WriteMtimecmpKeeps
    <2>4. CASE \E b \in BOOLEAN : Real!WriteMsip(h, b)
      BY <2>4, NothingElseKeeps DEF Real!WriteMsip, RealIInv, Real!TypeOK
    <2> QED
      BY <1>3, <2>1, <2>2, <2>3, <2>4 DEF Real!HartStep
  <1>4. CASE UNCHANGED realVars
    BY <1>4, NothingElseKeeps DEF realVars, RealIInv, Real!TypeOK
  <1> QED
    BY <1>1, <1>2, <1>3, <1>4 DEF Real!Next

LEMMA IInvIsExact == RealIInv => Real!RealTimersAreExact
  <1> SUFFICES ASSUME RealIInv PROVE Real!RealTimersAreExact
    OBVIOUS
  <1>1. clock \in Nat /\ \A h \in Harts : realCmp[h] \in Nat /\ timer[h].left \in Nat
    BY ClockIsNat, TimersAreWithinTheBound DEF RealIInv, Real!TypeOK
  <1>2. \A h \in Harts : Due(h) => Real!mtime >= realCmp[h]
    BY <1>1, RoundingIsExact DEF Due, Real!mtime
  <1>3. Real!ExpiryIsNotLost
    <2> SUFFICES ASSUME NEW h \in Harts, ~realTip[h], realCmp[h] > 0, writer.hart # h
                 PROVE  \/ /\ timer[h].at = "asleep"
                           /\ Real!usec_to_ticks(clock + timer[h].left) >= realCmp[h]
                        \/ Real!mtime >= realCmp[h] /\ (timer[h].at = "awake" \/ event)
      BY DEF Real!ExpiryIsNotLost
    <2>1. IsComing(h)
      BY DEF RealIInv
    <2>2. clock + timer[h].left >= Real!ticks_to_usec(realCmp[h]) =>
            Real!usec_to_ticks(clock + timer[h].left) >= realCmp[h]
      BY <1>1, RoundingIsExact
    <2> QED
      BY <1>2, <2>1, <2>2 DEF IsComing
  <1>4. Real!NeverEarly
    BY <1>2 DEF RealIInv, PendingIsDue, Real!NeverEarly
  <1> QED
    BY <1>3, <1>4 DEF Real!RealTimersAreExact


LEMMA RealInductive == MCSpec => []RealIInv
  <1>1. MCInit => RealIInv
    BY InitHolds DEF MCInit
  <1>2. RealIInv /\ [MCNext]_<<vars, realVars, topVars, kind>> => RealIInv'
    <2> SUFFICES ASSUME RealIInv, [MCNext]_<<vars, realVars, topVars, kind>>
                 PROVE  RealIInv'
      OBVIOUS
    <2>1. Real!Next \/ UNCHANGED realVars
      BY DEF MCNext
    <2> QED
      BY <2>1, RealNextKeeps
  <1> QED
    BY <1>1, <1>2, PTL DEF MCSpec

(* The threads, the clock and the writer of a timer are what RealClint's TypeOK
   says, for every set of harts: post_write_mtimecmp, callback and interrupt keep it. *)
THEOREM TypeIsRight == MCSpec => []Real!TypeOK
  <1>1. RealIInv => Real!TypeOK
    BY DEF RealIInv
  <1> QED
    BY RealInductive, <1>1, PTL

(* Whatever threads sleep, wake up late, are cancelled and joined: a timer of the
   interruptor that follows the wall clock goes off when it is set, and none goes
   off before mtime has reached mtimecmp (real_clint.cpp, timer.cpp). *)
THEOREM RealTimersGoOff == MCSpec => []RealTimersAreExact
  <1>1. RealIInv => RealTimersAreExact
    BY IInvIsExact DEF RealTimersAreExact
  <1> QED
    BY RealInductive, <1>1, PTL
=============================================================================
