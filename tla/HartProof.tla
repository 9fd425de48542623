------------------------------ MODULE HartProof ------------------------------
(***************************************************************************)
(* Of one hart: that nested traps never lose a context, whatever software  *)
(* delegates, enables and sets pending, and however many contexts it       *)
(* saves, since the levels of the handlers that wait only rise, and a      *)
(* level whose CSRs hold the only copy of a context has its interrupts     *)
(* disabled.  And that the counters of PipelineTiming keep the times of    *)
(* Scoreboard, for any registers, accesses and latencies: every            *)
(* instruction waits, which is one advance of all counters by the cycles   *)
(* waited, changes what it reserves, and ends with an advance by 1.        *)
(***************************************************************************)
EXTENDS MCHart, SequenceTheorems, FiniteSetTheorems, TLAPS

\* Each handler interrupted the code below it, at a level not above its own,
Nesting ==
    /\ \A n \in DOMAIN frames :
        /\ frames[n].of.pc = n - 1
        /\ frames[n].of.prv <= frames[n].level
        /\ n < Len(frames) => frames[n+1].of.prv = frames[n].level
    /\ \A m, n \in DOMAIN frames : m <= n => frames[m].level <= frames[n].level
    /\ frames # <<>> => prv = frames[Len(frames)].level

\* and a level of which it is the exposed handler is interrupted no more.
Masked ==
    /\ \A n \in DOMAIN frames : frames[n].copy = None => ~ie[frames[n].level]
    /\ \A m, n \in DOMAIN frames :
           m < n /\ frames[m].copy = None => frames[n].level # frames[m].level

Inv == TypeOK /\ ContextsAreKept /\ RunsTheInnermost /\ Nesting /\ Masked

\* The privilege levels and None.
LEMMA Constants ==
    /\ Levels \subseteq Nat
    /\ None \notin Levels /\ None \notin Context /\ None \notin Causes
  BY TrapUnitAssumption DEF TrapUnitAssumption, Levels, U, S, M, Causes

\* prepare_interrupt finds a cause among the interrupts that are pending.
LEMMA FirstIsPending ==
    ASSUME NEW ready \in SUBSET Interrupts, ready # {}
    PROVE  FirstOf(ready) \in ready
  BY TrapUnitAssumption DEF TrapUnitAssumption, FirstOf

LEMMA InitInv == Init => Inv
  <1> SUFFICES ASSUME Init PROVE Inv
    OBVIOUS
  <1>1. TypeOK
    <2>1. frames \in Seq(Frame)
      BY EmptySeq DEF Init
    <2>2. deleg \in Delegation
      BY TrapUnitAssumption DEF Init, TrapUnitAssumption
    <2> QED
      BY <2>1, <2>2 DEF Init, TypeOK, Levels
  <1>2. ContextsAreKept /\ RunsTheInnermost /\ Nesting /\ Masked
    BY DEF Init, ContextsAreKept, RunsTheInnermost, Nesting, Masked
  <1> QED
    BY <1>1, <1>2 DEF Inv

\* A trap to a level that is not exposed, at or above the current one, nests properly.
LEMMA TrapInv ==
    ASSUME Inv, NEW l \in Levels, NEW why \in Causes, SwitchToTrapHandler(l, why),
           prv <= l, ~Exposed(l),
           thread' \in {"ready", "check", "asleep"},
           UNCHANGED <<wfi_event, mip, mie, deleg>>
    PROVE  Inv' /\ prv' >= prv /\ Len(frames') = Len(frames) + 1
  <1> DEFINE f == [level |-> l, of |-> [pc |-> pc, prv |-> prv, ie |-> ie[l], cause |-> why],
                   copy |-> None]
             k == Len(frames)
  <1>1. frames \in Seq(Frame) /\ f \in Frame /\ k \in Nat
    BY Constants DEF Inv, TypeOK, Frame, Context
  <1>2. /\ frames' = Append(frames, f) /\ Len(frames') = k + 1
        /\ frames' \in Seq(Frame) /\ DOMAIN frames' = 1 .. k + 1 /\ DOMAIN frames = 1 .. k
        /\ frames'[k + 1] = f /\ \A n \in 1 .. k : frames'[n] = frames[n]
    BY <1>1, AppendProperties, LenProperties DEF SwitchToTrapHandler
  <1>3. \A n \in 1 .. k : frames[n] \in Frame
    BY <1>1, <1>2, ElementOfSeq
  <1>4. TypeOK'
    BY <1>1, <1>2, Constants DEF Inv, TypeOK, SwitchToTrapHandler, Disabled, Levels, U
  <1>5. \A n \in 1 .. k : frames[n].copy = None => frames[n].level # l
    BY <1>2 DEF Exposed
  <1>6. ContextsAreKept'
    <2>1. \A n \in 1 .. k : LET g == frames[n] IN
            IF g.copy # None THEN g.copy = g.of
            ELSE /\ epc'[g.level] = g.of.pc /\ pie'[g.level] = g.of.ie
                 /\ cause'[g.level] = g.of.cause
                 /\ pp'[g.level] = g.of.prv
      BY <1>2, <1>3, <1>5 DEF Inv, TypeOK, ContextsAreKept, SwitchToTrapHandler, Frame
    <2>2. /\ epc'[l] = pc /\ pie'[l] = ie[l] /\ cause'[l] = why
          /\ pp'[l] = prv
      <3>1. l = U => prv = U
        BY DEF Inv, TypeOK, Levels, U, S, M
      <3> QED
        BY <3>1 DEF Inv, TypeOK, SwitchToTrapHandler
    <2> QED
      BY <1>1, <1>2, <2>1, <2>2 DEF ContextsAreKept
  <1>7. RunsTheInnermost'
    BY <1>2 DEF RunsTheInnermost, SwitchToTrapHandler
  <1>8. Nesting'
    <2>1. \A n \in 1 .. k : frames[n].level <= prv
      BY <1>1, <1>2 DEF Inv, Nesting
    <2>2. pc = k /\ prv' = l
      BY DEF Inv, RunsTheInnermost, SwitchToTrapHandler
    <2>3. \A n \in 1 .. k : frames[n].level \in Nat
      BY <1>3, Constants DEF Frame
    <2>4. prv \in Nat /\ l \in Nat
      BY Constants DEF Inv, TypeOK
    <2>5. \A n \in DOMAIN frames' :
            /\ frames'[n].of.pc = n - 1
            /\ frames'[n].of.prv <= frames'[n].level
            /\ n < Len(frames') => frames'[n+1].of.prv = frames'[n].level
      BY <1>1, <1>2, <2>2, <2>4 DEF Inv, Nesting
    <2>6. \A m, n \in DOMAIN frames' : m <= n => frames'[m].level <= frames'[n].level
      BY <1>1, <1>2, <2>1, <2>3, <2>4 DEF Inv, Nesting
    <2> QED
      BY <1>1, <1>2, <2>2, <2>5, <2>6 DEF Nesting
  <1>9. Masked'
    <2>1. \A n \in 1 .. k : frames[n].copy = None => ~ie'[frames[n].level]
      BY <1>2, <1>3, <1>5 DEF Inv, TypeOK, Masked, SwitchToTrapHandler, Disabled, Frame
    <2>2. ~ie'[l]
      BY DEF Inv, TypeOK, SwitchToTrapHandler, Disabled
    <2> QED
      BY <1>1, <1>2, <1>5, <2>1, <2>2 DEF Inv, Masked
  <1> QED
    BY <1>2, <1>4, <1>6, <1>7, <1>8, <1>9 DEF Inv, SwitchToTrapHandler

\* An interrupt goes to a level that is not below the current one, and not exposed:
\* while it is, the level runs or has run a handler with its interrupts disabled.
LEMMA InterruptTarget ==
    ASSUME Inv, InterruptLevel # None
    PROVE  /\ InterruptLevel \in Levels /\ prv <= InterruptLevel
           /\ ~Exposed(InterruptLevel)
           /\ FirstOf(TakenAt(InterruptLevel)) \in Causes
  <1> DEFINE l == InterruptLevel
  <1>1. l \in Levels /\ TakenAt(l) # {}
    BY DEF InterruptLevel, Levels
  <1>2. (prv < l \/ (prv = l /\ ie[l])) /\ TakenAt(l) = PendingAt(l)
    BY <1>1 DEF TakenAt
  <1>3. TakenAt(l) \subseteq Interrupts
    BY <1>1, <1>2 DEF PendingAt, Inv, TypeOK, Levels
  <1>4. FirstOf(TakenAt(l)) \in Causes
    BY <1>1, <1>3, FirstIsPending DEF Causes
  <1>5. prv \in Nat /\ l \in Nat
    BY <1>1, Constants DEF Inv, TypeOK
  <1>6. ASSUME Exposed(l) PROVE FALSE
    <2>1. PICK n \in DOMAIN frames : frames[n].level = l /\ frames[n].copy = None
      BY <1>6 DEF Exposed
    <2>2. ~ie[l]
      BY <2>1 DEF Inv, Masked
    <2>3. DOMAIN frames = 1 .. Len(frames) /\ Len(frames) \in Nat /\ frames # <<>>
      BY <2>1, LenProperties DEF Inv, TypeOK
    <2>4. l <= prv
      BY <2>1, <2>3 DEF Inv, Nesting
    <2> QED
      BY <1>2, <1>5, <2>2, <2>4
  <1> QED
    BY <1>1, <1>2, <1>4, <1>5, <1>6

\* So does an exception.
LEMMA ExceptionTarget ==
    ASSUME Inv, NEW e \in Exceptions
    PROVE  ExceptionLevel(e) \in Levels /\ prv <= ExceptionLevel(e)
  BY DEF Inv, TypeOK, ExceptionLevel, Levels, U, S, M

\* The xRET of the innermost handler restores the context that it interrupted.
LEMMA ReturnInv ==
    ASSUME Inv, Return
    PROVE  Inv' /\ prv' <= prv /\ Len(frames') = Len(frames) - 1
  <1> DEFINE k == Len(frames)
             top == frames[k]
  <1>1. /\ frames \in Seq(Frame) /\ k \in Nat \ {0} /\ DOMAIN frames = 1 .. k
        /\ top.level = prv /\ top.copy = None
    BY LenProperties, EmptySeq DEF Inv, TypeOK, Return, Handles, Copy
  <1>2. \A n \in 1 .. k : frames[n] \in Frame
    BY <1>1, ElementOfSeq
  <1>3. /\ frames' = SubSeq(frames, 1, k - 1) /\ frames' \in Seq(Frame)
        /\ Len(frames') = k - 1 /\ DOMAIN frames' = 1 .. k - 1
        /\ \A n \in 1 .. k - 1 : frames'[n] = frames[n]
    BY <1>1, SubSeqProperties DEF Return
  <1>4. epc[prv] = k - 1 /\ ReturnLevel(prv) = top.of.prv
    <2>1. epc[prv] = top.of.pc /\ pp[prv] = top.of.prv
      BY <1>1 DEF Inv, ContextsAreKept
    <2>2. top.of.pc = k - 1 /\ top.of.prv <= prv
      BY <1>1 DEF Inv, Nesting
    <2>3. top.of.prv \in Levels
      BY <1>1, <1>2 DEF Frame, Context
    <2>4. prv = U => top.of.prv = U
      BY <2>2, <2>3 DEF Levels, U, S, M
    <2> QED
      BY <2>1, <2>2, <2>4 DEF ReturnLevel
  <1>5. TypeOK'
    BY <1>1, <1>3, <1>4, Constants
       DEF Inv, TypeOK, Return, Executes, ReturnLevel, Levels, U
  <1>6. \A n \in 1 .. k - 1 : frames[n].copy = None => frames[n].level # prv
    BY <1>1 DEF Inv, Masked
  <1>7. ContextsAreKept'
    <2>1. \A l \in Levels \ {prv} : /\ epc'[l] = epc[l] /\ pie'[l] = pie[l]
                                    /\ cause'[l] = cause[l] /\ pp'[l] = pp[l]
      BY DEF Inv, TypeOK, Return
    <2>2. \A n \in 1 .. k - 1 : n \in 1 .. k /\ frames[n].level \in Levels
      BY <1>1, <1>2 DEF Frame
    <2>3. \A n \in 1 .. k - 1 : LET f == frames[n] IN
            IF f.copy # None THEN f.copy = f.of
            ELSE /\ epc'[f.level] = f.of.pc /\ pie'[f.level] = f.of.ie
                 /\ cause'[f.level] = f.of.cause
                 /\ pp'[f.level] = f.of.prv
      BY <1>1, <1>6, <2>1, <2>2 DEF Inv, ContextsAreKept
    <2> QED
      BY <1>3, <2>3 DEF ContextsAreKept
  <1>8. RunsTheInnermost'
    BY <1>3, <1>4 DEF RunsTheInnermost, Return
  <1>9. Nesting'
    <2>1. frames' # <<>> => prv' = frames'[k - 1].level
      <3>1. CASE k = 1
        BY <1>3, <3>1, EmptySeq, LenProperties
      <3>2. CASE k # 1
        <4>1. k - 1 \in DOMAIN frames /\ k - 1 < k /\ (k - 1) + 1 = k
          BY <1>1, <3>2
        <4>2. top.of.prv = frames[k - 1].level
          BY <4>1 DEF Inv, Nesting
        <4> QED
          BY <1>3, <1>4, <4>1, <4>2, <1>1 DEF Return
      <3> QED
        BY <3>1, <3>2
    <2>2. \A n \in DOMAIN frames' :
            /\ frames'[n].of.pc = n - 1
            /\ frames'[n].of.prv <= frames'[n].level
            /\ n < Len(frames') => frames'[n+1].of.prv = frames'[n].level
      <3> SUFFICES ASSUME NEW n \in 1 .. k - 1
                   PROVE  /\ frames'[n].of.pc = n - 1
                          /\ frames'[n].of.prv <= frames'[n].level
                          /\ n < k - 1 => frames'[n+1].of.prv = frames'[n].level
        BY <1>3
      <3>1. n \in 1 .. k /\ (n < k - 1 => n + 1 \in 1 .. k - 1 /\ n < k)
        BY <1>1
      <3> QED
        BY <1>1, <1>3, <3>1 DEF Inv, Nesting
    <2>3. \A m, n \in DOMAIN frames' : m <= n => frames'[m].level <= frames'[n].level
      BY <1>1, <1>3 DEF Inv, Nesting
    <2> QED
      BY <1>3, <2>1, <2>2, <2>3 DEF Nesting
  <1>10. Masked'
    <2>1. \A l \in Levels \ {prv} : ie'[l] = ie[l]
      BY DEF Inv, TypeOK, Return
    <2>2. \A n \in 1 .. k - 1 : n \in 1 .. k /\ frames[n].level \in Levels
      BY <1>1, <1>2 DEF Frame
    <2>3. \A n \in 1 .. k - 1 : frames[n].copy = None => ~ie'[frames[n].level]
      BY <1>1, <1>6, <2>1, <2>2 DEF Inv, Masked
    <2>4. \A m, n \in 1 .. k - 1 :
             m < n /\ frames[m].copy = None => frames[n].level # frames[m].level
      BY <1>1, <2>2 DEF Inv, Masked
    <2> QED
      BY <1>3, <2>3, <2>4 DEF Masked
  <1>11. prv' <= prv
    BY <1>1, <1>4 DEF Inv, Nesting, Return
  <1> QED
    BY <1>3, <1>5, <1>7, <1>8, <1>9, <1>10, <1>11 DEF Inv

\* What an instruction may change without disturbing a context: not frames, nor the
\* CSRs of a level, nor an interrupt enable of an exposed one.
LEMMA QuietInv ==
    ASSUME Inv, UNCHANGED <<prv, pc, pie, pp, epc, cause, frames>>,
           thread' \in {"ready", "check", "asleep"}, wfi_event' \in BOOLEAN,
           mip' \subseteq Interrupts, mie' \subseteq Interrupts, deleg' \in Delegation,
           ie' \in [Levels -> BOOLEAN],
           \A l \in Levels : Exposed(l) => ie'[l] = ie[l] \/ ~ie'[l]
    PROVE  Inv'
  <1>1. TypeOK'
    BY DEF Inv, TypeOK
  <1>2. \A n \in DOMAIN frames : frames[n].level \in Levels
    <2>1. frames \in Seq(Frame)
      BY DEF Inv, TypeOK
    <2>2. \A n \in DOMAIN frames : frames[n] \in Frame
      BY <2>1, ElementOfSeq, LenProperties
    <2> QED
      BY <2>2 DEF Frame
  <1>3. Masked'
    <2>1. ASSUME NEW n \in DOMAIN frames, frames[n].copy = None PROVE ~ie'[frames[n].level]
      <3>1. Exposed(frames[n].level) /\ ~ie[frames[n].level]
        BY <2>1 DEF Exposed, Inv, Masked
      <3> QED
        BY <1>2, <3>1
    <2> QED
      BY <2>1 DEF Inv, Masked
  <1>4. ContextsAreKept' /\ RunsTheInnermost' /\ Nesting'
    BY DEF Inv, ContextsAreKept, RunsTheInnermost, Nesting
  <1> QED
    BY <1>1, <1>3, <1>4 DEF Inv

\* Saving the innermost handler's CSRs, and writing them back.
LEMMA CopyInv == Inv /\ (Save \/ Restore) => Inv' /\ Len(frames') = Len(frames)
  <1> SUFFICES ASSUME Inv, Save \/ Restore PROVE Inv' /\ Len(frames') = Len(frames)
    OBVIOUS
  <1> DEFINE k == Len(frames)
             top == frames[k]
  <1>1. /\ frames \in Seq(Frame) /\ k \in Nat \ {0} /\ DOMAIN frames = 1 .. k
        /\ top.level = prv
    BY LenProperties, EmptySeq DEF Inv, TypeOK, Save, status, Restore, Handles
  <1>2. \A n \in 1 .. k : frames[n] \in Frame
    BY <1>1, ElementOfSeq
  <1>3. PICK c \in Context \cup {None} :
           /\ frames' = [frames EXCEPT ![k].copy = c]
           /\ Save => top.copy = None /\ c \in Context /\ c = [pc |-> epc[prv], prv |-> pp[prv],
                                             ie |-> pie[prv], cause |-> cause[prv]]
           /\ Restore => top.copy # None /\ c = None
    <2> USE DEF Save, status, Restore, Copy
    <2>1. CASE Save
      <3>1. [pc |-> epc[prv], prv |-> pp[prv], ie |-> pie[prv], cause |-> cause[prv]] \in Context
        <4>1. top \in Frame /\ top.copy = None
          BY <1>1, <1>2, <2>1
        <4>2. /\ epc[prv] = top.of.pc /\ pp[prv] = top.of.prv
              /\ pie[prv] = top.of.ie /\ cause[prv] = top.of.cause
          BY <1>1, <4>1 DEF Inv, ContextsAreKept
        <4> QED
          BY <4>1, <4>2 DEF Frame, Context
      <3> QED
        BY <2>1, <3>1
    <2>2. CASE Restore
      BY <2>2
    <2> QED
      BY <2>1, <2>2
  <1>4. /\ frames' \in Seq(Frame) /\ Len(frames') = k /\ DOMAIN frames' = 1 .. k
        /\ frames'[k] = [level |-> top.level, of |-> top.of, copy |-> c]
        /\ \A n \in 1 .. k - 1 : frames'[n] = frames[n]
    <2>1. [top EXCEPT !.copy = c] = [level |-> top.level, of |-> top.of, copy |-> c]
      BY <1>1, <1>2 DEF Frame
    <2>2. [top EXCEPT !.copy = c] \in Frame
      BY <1>1, <1>2 DEF Frame
    <2> QED
      BY <1>1, <1>3, <2>1, <2>2, ExceptSeq, LenProperties
  <1>5. /\ \A n \in 1 .. k : frames'[n].level = frames[n].level /\ frames'[n].of = frames[n].of
        /\ UNCHANGED <<prv, pc, ie>>
    BY <1>1, <1>4 DEF Save, status, Restore
  <1>6. TypeOK'
    <2>1. CASE Save
      BY <1>4, <2>1 DEF Inv, TypeOK, Save, status, Executes
    <2>2. CASE Restore
      <3>1. Copy \in Context
        BY <1>1, <1>2, <2>2 DEF Restore, Copy, Frame
      <3> QED
        BY <1>4, <2>2, <3>1 DEF Inv, TypeOK, Restore, Executes, Context
    <2> QED
      BY <2>1, <2>2
  <1>7. RunsTheInnermost'
    BY <1>4, <1>5 DEF Inv, RunsTheInnermost
  <1>8. Nesting'
    <2>1. \A n \in 1 .. k : n < k => n + 1 \in 1 .. k
      BY <1>1
    <2>2. \A n \in 1 .. k :
            /\ frames'[n].of.pc = n - 1
            /\ frames'[n].of.prv <= frames'[n].level
            /\ n < k => frames'[n+1].of.prv = frames'[n].level
      BY <1>1, <1>5, <2>1 DEF Inv, Nesting
    <2>3. \A m, n \in 1 .. k : m <= n => frames'[m].level <= frames'[n].level
      BY <1>1, <1>5 DEF Inv, Nesting
    <2>4. \A n \in DOMAIN frames' :
            /\ frames'[n].of.pc = n - 1
            /\ frames'[n].of.prv <= frames'[n].level
            /\ n < Len(frames') => frames'[n+1].of.prv = frames'[n].level
      BY <1>4, <2>2
    <2>5. \A m, n \in DOMAIN frames' : m <= n => frames'[m].level <= frames'[n].level
      BY <1>4, <2>3
    <2>6. prv' = frames'[Len(frames')].level
      BY <1>1, <1>4, <1>5
    <2> QED
      BY <2>4, <2>5, <2>6 DEF Nesting
  <1>9. \A n \in 1 .. k - 1 : n \in 1 .. k /\ n < k /\ frames'[n] = frames[n]
    BY <1>1, <1>4
  <1>10. ASSUME Save PROVE ContextsAreKept' /\ Masked'
    <2>1. c # None /\ top.copy = None /\ UNCHANGED <<pie, pp, epc, cause>>
      BY <1>3, <1>10, Constants DEF Save, status, Context
    <2>2. top.of = c
      <3>1. /\ epc[prv] = top.of.pc /\ pp[prv] = top.of.prv
            /\ pie[prv] = top.of.ie /\ cause[prv] = top.of.cause
        BY <1>1, <2>1 DEF Inv, ContextsAreKept
      <3>2. top.of \in Context
        BY <1>1, <1>2 DEF Frame
      <3> QED
        BY <1>3, <1>10, <3>1, <3>2 DEF Context
    <2>3. ContextsAreKept'
      BY <1>1, <1>4, <1>9, <2>1, <2>2 DEF Inv, ContextsAreKept
    <2>4. Masked'
      BY <1>1, <1>4, <1>5, <1>9, <2>1 DEF Inv, Masked
    <2> QED
      BY <2>3, <2>4
  <1>11. ASSUME Restore PROVE ContextsAreKept' /\ Masked'
    <2>1. c = None /\ top.copy = top.of /\ ~ie[prv] /\ frames'[k].copy = None
      <3>1. c = None /\ top.copy # None
        BY <1>3, <1>11
      <3>2. top.copy = top.of
        BY <1>1, <3>1 DEF Inv, ContextsAreKept
      <3> QED
        BY <1>4, <1>11, <3>1, <3>2 DEF Restore
    <2>2. /\ epc' = [epc EXCEPT ![prv] = top.of.pc] /\ pp' = [pp EXCEPT ![prv] = top.of.prv]
          /\ pie' = [pie EXCEPT ![prv] = top.of.ie]
          /\ cause' = [cause EXCEPT ![prv] = top.of.cause]
      BY <2>1, <1>11 DEF Restore, Copy
    <2>3. \A n \in 1 .. k - 1 : frames[n].copy = None => frames[n].level # prv
      BY <1>1, <1>9 DEF Inv, Masked
    <2>4. ContextsAreKept'
      <3>1. \A l \in Levels \ {prv} : /\ epc'[l] = epc[l] /\ pie'[l] = pie[l]
                                      /\ cause'[l] = cause[l] /\ pp'[l] = pp[l]
        BY <2>2 DEF Inv, TypeOK
      <3>2. /\ epc'[prv] = top.of.pc /\ pie'[prv] = top.of.ie
            /\ cause'[prv] = top.of.cause /\ pp'[prv] = top.of.prv
        BY <2>2 DEF Inv, TypeOK
      <3>3. \A n \in 1 .. k - 1 : frames[n].level \in Levels
        BY <1>2, <1>9 DEF Frame
      <3>4. ASSUME NEW n \in 1 .. k - 1
            PROVE  LET f == frames[n] IN
                   IF f.copy # None THEN f.copy = f.of
                   ELSE /\ epc'[f.level] = f.of.pc /\ pie'[f.level] = f.of.ie
                        /\ cause'[f.level] = f.of.cause
                        /\ pp'[f.level] = f.of.prv
        BY <1>1, <1>9, <2>3, <3>1, <3>3 DEF Inv, ContextsAreKept
      <3> QED
        BY <1>1, <1>4, <1>9, <2>1, <3>2, <3>4 DEF ContextsAreKept
    <2>5. \A n \in 1 .. k : frames'[n].copy = None => ~ie'[frames'[n].level]
      BY <1>1, <1>4, <1>5, <1>9, <2>1 DEF Inv, Masked
    <2>6. \A m, n \in 1 .. k : m < n /\ frames'[m].copy = None => frames'[n].level # frames'[m].level
      <3> SUFFICES ASSUME NEW m \in 1 .. k, NEW n \in 1 .. k, m < n, frames'[m].copy = None
                   PROVE  frames'[n].level # frames'[m].level
        OBVIOUS
      <3>1. m \in 1 .. k - 1 /\ frames[m].copy = None
        BY <1>1, <1>9
      <3> QED
        BY <1>1, <1>5, <3>1 DEF Inv, Masked
    <2>7. Masked'
      BY <1>4, <2>5, <2>6 DEF Masked
    <2> QED
      BY <2>4, <2>7
  <1> QED
    BY <1>4, <1>6, <1>7, <1>8, <1>10, <1>11 DEF Inv

LEMMA NextInv == Inv /\ [Next]_vars => Inv'
  <1> SUFFICES ASSUME Inv, [Next]_vars PROVE Inv'
    OBVIOUS
  <1> USE DEF Executes, status
  <1>1. CASE Compute
    BY <1>1, QuietInv DEF Compute, Inv, TypeOK
  <1>2. CASE WriteIe
    BY <1>2, QuietInv DEF WriteIe, Inv, TypeOK
  <1>3. CASE WriteIp
    BY <1>3, QuietInv DEF WriteIp, Writable, Inv, TypeOK
  <1>4. CASE WriteDelegation
    <2>1. deleg' \in Delegation
      BY <1>4, TrapUnitAssumption DEF WriteDelegation, TrapUnitAssumption
    <2> QED
      BY <1>4, <2>1, QuietInv DEF WriteDelegation, Inv, TypeOK
  <1>5. CASE WriteStatus
    <2>1. PICK l \in Levels, b \in BOOLEAN : (b => ~Exposed(l)) /\ ie' = [ie EXCEPT ![l] = b]
      BY <1>5 DEF WriteStatus
    <2>2. /\ ie' \in [Levels -> BOOLEAN]
          /\ \A x \in Levels : Exposed(x) => ie'[x] = ie[x] \/ ~ie'[x]
      BY <2>1 DEF Inv, TypeOK
    <2> QED
      BY <1>5, <2>2, QuietInv DEF WriteStatus, Inv, TypeOK
  <1>6. CASE Wfi
    BY <1>6, QuietInv DEF Wfi, MaySleep, Inv, TypeOK
  <1>7. CASE Exception
    <2>1. PICK e \in Exceptions :
             ~Exposed(ExceptionLevel(e)) /\ SwitchToTrapHandler(ExceptionLevel(e), e)
      BY <1>7 DEF Exception
    <2> QED
      BY <1>7, <2>1, ExceptionTarget, TrapInv DEF Exception, Causes
  <1>8. CASE CheckInterrupts
    <2>1. CASE InterruptLevel # None
      BY <1>8, <2>1, InterruptTarget, TrapInv DEF CheckInterrupts
    <2>2. CASE InterruptLevel = None
      BY <1>8, <2>2, QuietInv DEF CheckInterrupts, Inv, TypeOK
    <2> QED
      BY <2>1, <2>2
  <1>9. CASE DeltaNotify
    BY <1>9, QuietInv DEF DeltaNotify, Inv, TypeOK
  <1>10. CASE Devices
    <2>1. PICK i \in Interrupts : Trigger(i) \/ Clear(i)
      BY <1>10, TrapUnitAssumption DEF Devices, TrapUnitAssumption
    <2> QED
      BY <2>1, QuietInv DEF Trigger, Clear, Inv, TypeOK
  <1>11. CASE UNCHANGED vars
    BY <1>11, QuietInv DEF vars, Inv, TypeOK
  <1> QED
    BY <1>1, <1>2, <1>3, <1>4, <1>5, <1>6, <1>7, <1>8, <1>9, <1>10, <1>11,
       CopyInv, ReturnInv DEF Next, Step

(* The trap CSRs and the history stay in their types: in particular prv is never a
   level without a handler (the default cases of return_from_trap_handler and
   switch_to_trap_handler, and the assertion of prepare_trap, are never reached). *)
THEOREM TypeCorrect == Spec => []TypeOK
  <1>1. Inv => TypeOK
    BY DEF Inv
  <1> QED
    BY <1>1, InitInv, NextInv, PTL DEF Spec

(* Nested traps of any depth lose no context (switch_to_trap_handler against
   return_from_trap_handler), for every order of priority, delegation and handler. *)
THEOREM ContextsSurvive == Spec => []ContextsAreKept
  <1>1. Inv => ContextsAreKept
    BY DEF Inv
  <1> QED
    BY <1>1, InitInv, NextInv, PTL DEF Spec

(* And every return goes back to the innermost of them. *)
THEOREM ReturnsProperly == Spec => []NestingUnwinds
  <1>1. Inv => NestingUnwinds
    BY DEF Inv, NestingUnwinds
  <1> QED
    BY <1>1, InitInv, NextInv, PTL DEF Spec

(* A wake-up is never lost: only WFI sleeps, and every trigger notifies. *)
THEOREM WfiWakes == Spec => []NoLostWakeup
  <1>1. Init => NoLostWakeup
    BY DEF Init, NoLostWakeup
  <1>2. NoLostWakeup /\ [Next]_vars => NoLostWakeup'
    <2> SUFFICES ASSUME NoLostWakeup, [Next]_vars PROVE NoLostWakeup'
      OBVIOUS
    <2> USE DEF NoLostWakeup
    <2>1. CASE Step
      BY <2>1 DEF Step, Compute, WriteIe, WriteIp, WriteDelegation, WriteStatus, Save, Restore,
                  Return, Wfi, MaySleep, Exception, Executes
    <2>2. CASE CheckInterrupts
      BY <2>2 DEF CheckInterrupts
    <2>3. CASE DeltaNotify
      BY <2>3 DEF DeltaNotify
    <2>4. CASE Devices
      BY <2>4 DEF Devices, Trigger, Clear
    <2>5. CASE UNCHANGED vars
      BY <2>5 DEF vars
    <2> QED
      BY <2>1, <2>2, <2>3, <2>4, <2>5 DEF Next
  <1> QED
    BY <1>1, <1>2, PTL DEF Spec

(* A trap goes up and a return comes down, never past what it was (prepare_trap,
   compute_pending_interrupts and the xPP of the level). *)
THEOREM PrivilegeIsKept == Spec => TrapsKeepPrivilege
  <1> DEFINE A == /\ Len(frames') > Len(frames) => prv' >= prv
                  /\ Len(frames') < Len(frames) => prv' <= prv
  <1>1. Inv /\ [Next]_vars => A \/ UNCHANGED vars
    <2> SUFFICES ASSUME Inv, Next PROVE A
      OBVIOUS
    <2>1. Len(frames) \in Nat
      BY LenProperties DEF Inv, TypeOK
    <2>2. frames' = frames => A
      BY <2>1
    <2>3. CASE Exception
      <3>1. PICK e \in Exceptions :
               ~Exposed(ExceptionLevel(e)) /\ SwitchToTrapHandler(ExceptionLevel(e), e)
        BY <2>3 DEF Exception
      <3>2. thread' \in {"ready", "check", "asleep"} /\ UNCHANGED <<wfi_event, mip, mie, deleg>>
        BY <2>3 DEF Exception
      <3>3. prv' >= prv /\ Len(frames') = Len(frames) + 1
        BY <3>1, <3>2, ExceptionTarget, TrapInv DEF Causes
      <3> QED
        BY <2>1, <3>3
    <2>4. CASE CheckInterrupts
      <3>1. CASE InterruptLevel # None
        <4>1. prv' >= prv /\ Len(frames') = Len(frames) + 1
          BY <2>4, <3>1, InterruptTarget, TrapInv DEF CheckInterrupts
        <4> QED
          BY <2>1, <4>1
      <3>2. CASE InterruptLevel = None
        BY <2>2, <2>4, <3>2 DEF CheckInterrupts
      <3> QED
        BY <3>1, <3>2
    <2>5. CASE Return
      BY <2>1, <2>5, ReturnInv
    <2>6. CASE Save \/ Restore
      BY <2>1, <2>6, CopyInv
    <2>7. CASE Compute \/ WriteIe \/ WriteIp \/ WriteDelegation \/ WriteStatus \/ Wfi
      BY <2>2, <2>7 DEF Compute, WriteIe, WriteIp, WriteDelegation, WriteStatus, Wfi
    <2>8. CASE DeltaNotify \/ Devices
      BY <2>2, <2>8 DEF DeltaNotify, Devices, Trigger, Clear
    <2> QED
      BY <2>3, <2>4, <2>5, <2>6, <2>7, <2>8 DEF Next, Step
  <1> QED
    BY <1>1, InitInv, NextInv, PTL DEF Spec, TrapsKeepPrivilege

-----------------------------------------------------------------------------
(* The times of the pipeline.                                              *)

Reservation == [range : Ranges, latency : Nat \ {0}]

Pipe == [pending : [Regs -> Nat], mult : Nat, div : Nat, stores : SUBSET Reservation,
         cycles : Nat, failed : BOOLEAN]

PipeTypeOK ==
    /\ pending \in [Regs -> Nat]
    /\ mult \in Nat /\ div \in Nat
    /\ stores \in SUBSET Reservation
    /\ num_total_cycles \in Nat
    /\ failed \in BOOLEAN

PipeInv == PipeTypeOK /\ ~failed

\* When a latency that is counted at the time t is over; 0 where there is none.
Abs(t, latency) == IF latency > 0 THEN t + latency ELSE 0
TimeAt(t, u) == Timing!Abstract!At(t, u)
-----------------------------------------------------------------------------
LEMMA LessTwice ==
    ASSUME NEW l \in Nat, NEW m \in Nat, NEW n \in Nat
    PROVE  Timing!Less(l, m) \in Nat /\ Timing!Less(Timing!Less(l, m), n) = Timing!Less(l, m + n)
  BY DEF Timing!Less

\* A count that goes down by n tells the same time.
LEMMA CountTellsTime ==
    ASSUME NEW t \in Nat, NEW l \in Nat, NEW n \in Nat, NEW u \in Nat,
           Abs(t, l) = TimeAt(t, u)
    PROVE  Abs(t + n, Timing!Less(l, n)) = TimeAt(t + n, u)
  BY DEF Timing!Less, Abs, TimeAt, Timing!Abstract!At

\* The latest of a set is the one that no other is later than.
LEMMA LatestIs ==
    ASSUME NEW times, NEW m \in times, m \in Nat, \A u \in times : u \in Nat /\ u <= m
    PROVE  Timing!Abstract!Latest(times) = m
  <1>1. \A x \in times : (\A u \in times : u <= x) => x = m
    OBVIOUS
  <1> QED  BY <1>1 DEF Timing!Abstract!Latest

LEMMA AdvanceType ==
    ASSUME NEW p \in Pipe, NEW n \in Nat
    PROVE  /\ Timing!advance(p, n) \in Pipe
           /\ Timing!advance(p, n).pending = [r \in Regs |-> Timing!Less(p.pending[r], n)]
           /\ Timing!advance(p, n).mult = Timing!Less(p.mult, n)
           /\ Timing!advance(p, n).div = Timing!Less(p.div, n)
           /\ Timing!advance(p, n).stores = {[range |-> s.range, latency |-> s.latency - n] :
                                         s \in {t \in p.stores : t.latency > n}}
           /\ Timing!advance(p, n).cycles = p.cycles + n
           /\ Timing!advance(p, n).failed = p.failed
  <1>1. \A l \in Nat : Timing!Less(l, n) \in Nat
    BY DEF Timing!Less
  <1>2. {[range |-> s.range, latency |-> s.latency - n] :
           s \in {t \in p.stores : t.latency > n}} \subseteq Reservation
    BY DEF Pipe, Reservation
  <1> QED  BY <1>1, <1>2 DEF Pipe, Timing!advance

\* Two waits are one.
LEMMA AdvanceTwice ==
    ASSUME NEW p \in Pipe, NEW m \in Nat, NEW n \in Nat
    PROVE  Timing!advance(Timing!advance(p, m), n) = Timing!advance(p, m + n)
  <1> DEFINE q == Timing!advance(p, m)
  <1>1. /\ q \in Pipe /\ q.cycles = p.cycles + m /\ q.failed = p.failed
        /\ q.pending = [r \in Regs |-> Timing!Less(p.pending[r], m)]
        /\ q.mult = Timing!Less(p.mult, m) /\ q.div = Timing!Less(p.div, m)
        /\ q.stores = {[range |-> s.range, latency |-> s.latency - m] :
                          s \in {t \in p.stores : t.latency > m}}
    BY AdvanceType
  <1> HIDE DEF q
  <1>0. /\ \A r \in Regs : p.pending[r] \in Nat
        /\ p.mult \in Nat /\ p.div \in Nat /\ p.cycles \in Nat
    BY DEF Pipe
  <1>a. \A l \in Nat : Timing!Less(Timing!Less(l, m), n) = Timing!Less(l, m + n)
    BY LessTwice
  <1>2. [r \in Regs |-> Timing!Less(q.pending[r], n)] = [r \in Regs |-> Timing!Less(p.pending[r], m + n)]
    BY <1>0, <1>1, <1>a
  <1>3. Timing!Less(q.mult, n) = Timing!Less(p.mult, m + n) /\ Timing!Less(q.div, n) = Timing!Less(p.div, m + n)
    BY <1>0, <1>1, <1>a
  <1>4. {[range |-> s.range, latency |-> s.latency - n] : s \in {t \in q.stores : t.latency > n}}
          = {[range |-> s.range, latency |-> s.latency - (m + n)] :
               s \in {t \in p.stores : t.latency > m + n}}
    <2> DEFINE Left(waits, k) == {[range |-> s.range, latency |-> s.latency - k] :
                                s \in {t \in waits : t.latency > k}}
    <2>1. q.stores = Left(p.stores, m)
      BY <1>1
    <2>2. \A s \in p.stores : s \in Reservation
      BY DEF Pipe
    <2>3. ASSUME NEW x \in Left(q.stores, n)
          PROVE  x \in Left(p.stores, m + n)
      <3>1. PICK y \in q.stores : y.latency > n /\ x = [range |-> y.range, latency |-> y.latency - n]
        OBVIOUS
      <3>2. PICK s \in p.stores : s.latency > m /\ y = [range |-> s.range, latency |-> s.latency - m]
        BY <2>1
      <3> QED  BY <3>1, <3>2, <2>2 DEF Reservation
    <2>4. ASSUME NEW x \in Left(p.stores, m + n)
          PROVE  x \in Left(q.stores, n)
      <3>1. PICK s \in p.stores :
               s.latency > m + n /\ x = [range |-> s.range, latency |-> s.latency - (m + n)]
        OBVIOUS
      <3>2. [range |-> s.range, latency |-> s.latency - m] \in q.stores
        BY <3>1, <2>1, <2>2 DEF Reservation
      <3> QED  BY <3>1, <3>2, <2>2 DEF Reservation
    <2> QED  BY <2>3, <2>4
  <1>5. q.cycles + n = p.cycles + (m + n)
    BY <1>0, <1>1
  <1>6. Timing!advance(q, n) = Timing!advance(p, m + n)
    BY <1>1, <1>2, <1>3, <1>4, <1>5 DEF Timing!advance
  <1> QED  BY <1>6 DEF q

LEMMA AdvanceByNone ==
    ASSUME NEW p \in Pipe
    PROVE  Timing!advance(p, 0) = p
  <1>1. [r \in Regs |-> Timing!Less(p.pending[r], 0)] = p.pending
    BY DEF Pipe, Timing!Less
  <1>2. Timing!Less(p.mult, 0) = p.mult /\ Timing!Less(p.div, 0) = p.div /\ p.cycles + 0 = p.cycles
    BY DEF Pipe, Timing!Less
  <1>3. {[range |-> s.range, latency |-> s.latency - 0] : s \in {t \in p.stores : t.latency > 0}}
          = p.stores
    BY DEF Pipe, Reservation
  <1> QED  BY <1>1, <1>2, <1>3 DEF Pipe, Timing!advance

Later(a, b) == IF a > b THEN a ELSE b

\* To access a register is to wait for it.
LEMMA AccessWaits ==
    ASSUME NEW p \in Pipe, NEW n \in Nat, NEW r \in Regs
    PROVE  /\ Later(n, p.pending[r]) \in Nat
           /\ Timing!access_register(Timing!advance(p, n), r) = Timing!advance(p, Later(n, p.pending[r]))
  <1> DEFINE q == Timing!advance(p, n)
             l == p.pending[r]
  <1>0. l \in Nat
    BY DEF Pipe
  <1>a. q \in Pipe /\ q.pending = [x \in Regs |-> Timing!Less(p.pending[x], n)]
    BY AdvanceType
  <1> HIDE DEF q
  <1>1. l \in Nat /\ q \in Pipe /\ q.pending[r] = Timing!Less(l, n)
    BY <1>0, <1>a
  <1>2. Later(n, l) \in Nat
    BY <1>1 DEF Later
  <1>3. CASE l > n
    <2>1. q.pending[r] = l - n /\ l - n \in Nat /\ l - n > 0 /\ n + (l - n) = l
      BY <1>1, <1>3 DEF Timing!Less
    <2>2. Timing!access_register(q, r) = Timing!advance(q, l - n)
      BY <2>1 DEF Timing!access_register, Timing!stall
    <2>3. Timing!advance(q, l - n) = Timing!advance(p, l)
      BY <2>1, AdvanceTwice DEF q
    <2> QED  BY <1>2, <1>1, <1>3, <2>2, <2>3 DEF Later, q
  <1>4. CASE ~(l > n)
    <2>1. ~(q.pending[r] > 0)
      BY <1>1, <1>4 DEF Timing!Less
    <2> QED  BY <1>1, <1>2, <1>4, <2>1 DEF Later, Timing!access_register, q
  <1> QED  BY <1>3, <1>4

\* Reading two registers, and writing a third, is one wait for the latest of them.
LEMMA ReadWaits ==
    ASSUME PipeInv, NEW rs1 \in Regs, NEW rs2 \in Regs, NEW rd \in Regs
    PROVE  LET n == Later(pending[rs1], pending[rs2])
           IN  /\ n \in Nat /\ Later(n, pending[rd]) \in Nat
               /\ Timing!Model \in Pipe
               /\ Timing!Read(rs1, rs2) = Timing!advance(Timing!Model, n)
               /\ Timing!ReadAndWrite(rs1, rs2, rd) = Timing!advance(Timing!Model, Later(n, pending[rd]))
  <1>1. Timing!Model \in Pipe /\ Timing!Model.pending = pending
    BY DEF PipeInv, PipeTypeOK, Timing!Model, Pipe
  <1>2. pending[rs1] \in Nat
    BY DEF PipeInv, PipeTypeOK
  <1>3. Timing!access_register(Timing!Model, rs1) = Timing!advance(Timing!Model, pending[rs1])
    <2>1. Timing!access_register(Timing!advance(Timing!Model, 0), rs1) = Timing!advance(Timing!Model, Later(0, Timing!Model.pending[rs1]))
      BY <1>1, AccessWaits
    <2>2. Later(0, Timing!Model.pending[rs1]) = pending[rs1]
      BY <1>1, <1>2 DEF Later
    <2> QED  BY <1>1, <2>1, <2>2, AdvanceByNone
  <1>4. Timing!Read(rs1, rs2) = Timing!advance(Timing!Model, Later(pending[rs1], pending[rs2]))
        /\ Later(pending[rs1], pending[rs2]) \in Nat
    BY <1>1, <1>2, <1>3, AccessWaits DEF Timing!Read
  <1>5. /\ Later(Later(pending[rs1], pending[rs2]), pending[rd]) \in Nat
        /\ Timing!ReadAndWrite(rs1, rs2, rd)
             = Timing!advance(Timing!Model, Later(Later(pending[rs1], pending[rs2]), pending[rd]))
    BY <1>1, <1>4, AccessWaits DEF Timing!ReadAndWrite
  <1> QED  BY <1>1, <1>4, <1>5
-----------------------------------------------------------------------------
Ready == [r \in Regs |-> Timing!Time(pending[r])]
Stored == {[range |-> s.range, until |-> Timing!Time(s.latency)] : s \in stores}

LEMMA StoredType ==
    ASSUME PipeInv
    PROVE  \A s \in Stored : s.until \in Nat
  <1>1. num_total_cycles \in Nat /\ \A s \in stores : s.latency \in Nat
    BY DEF PipeInv, PipeTypeOK, Reservation
  <1>2. \A s \in stores : Timing!Time(s.latency) \in Nat
    BY <1>1 DEF Timing!Time
  <1> QED  BY <1>2 DEF Stored

\* What the scoreboard knows of the state after a wait of n cycles.
LEMMA WaitTellsTime ==
    ASSUME PipeInv, NEW n \in Nat
    PROVE  LET q == Timing!advance(Timing!Model, n)
               t == num_total_cycles + n
           IN  /\ q \in Pipe /\ q.cycles = t /\ t \in Nat /\ ~q.failed
               /\ \A r \in Regs : /\ Ready[r] \in Nat
                                  /\ Abs(t, q.pending[r]) = TimeAt(t, Ready[r])
               /\ Timing!Time(mult) \in Nat /\ Abs(t, q.mult) = TimeAt(t, Timing!Time(mult))
               /\ Timing!Time(div) \in Nat /\ Abs(t, q.div) = TimeAt(t, Timing!Time(div))
               /\ {[range |-> s.range, until |-> t + s.latency] : s \in q.stores}
                    = {s \in Stored : s.until > t}
  <1> DEFINE q == Timing!advance(Timing!Model, n)
             t == num_total_cycles + n
  <1>1. /\ Timing!Model \in Pipe /\ Timing!Model.pending = pending /\ Timing!Model.mult = mult /\ Timing!Model.div = div
        /\ Timing!Model.stores = stores /\ Timing!Model.cycles = num_total_cycles /\ Timing!Model.failed = failed
    BY DEF PipeInv, PipeTypeOK, Timing!Model, Pipe
  <1>2. /\ q \in Pipe /\ q.cycles = t /\ ~q.failed
        /\ q.pending = [r \in Regs |-> Timing!Less(pending[r], n)]
        /\ q.mult = Timing!Less(mult, n) /\ q.div = Timing!Less(div, n)
        /\ q.stores = {[range |-> s.range, latency |-> s.latency - n] :
                          s \in {u \in stores : u.latency > n}}
    BY <1>1, AdvanceType DEF PipeInv
  <1>3. ASSUME NEW l \in Nat
        PROVE  Timing!Time(l) \in Nat /\ Abs(t, Timing!Less(l, n)) = TimeAt(t, Timing!Time(l))
    <2>1. num_total_cycles \in Nat
      BY DEF PipeInv, PipeTypeOK
    <2> QED  BY <2>1 DEF Timing!Time, Abs, Timing!Less, TimeAt, Timing!Abstract!At
  <1>4. \A r \in Regs : Ready[r] \in Nat /\ Abs(t, q.pending[r]) = TimeAt(t, Ready[r])
    <2>1. \A r \in Regs : pending[r] \in Nat
      BY DEF PipeInv, PipeTypeOK
    <2> QED  BY <1>2, <1>3, <2>1 DEF Ready
  <1>5. {[range |-> s.range, until |-> t + s.latency] : s \in q.stores}
          = {s \in Stored : s.until > t}
    <2>1. \A s \in stores : s \in Reservation
      BY DEF PipeInv, PipeTypeOK
    <2>2. num_total_cycles \in Nat
      BY DEF PipeInv, PipeTypeOK
    <2>3. ASSUME NEW s \in stores
          PROVE  Timing!Time(s.latency) = num_total_cycles + s.latency
                 /\ (Timing!Time(s.latency) > t <=> s.latency > n)
                 /\ t + (s.latency - n) = Timing!Time(s.latency)
      <3>1. s.latency \in Nat /\ s.latency > 0
        BY <2>1 DEF Reservation
      <3> QED  BY <2>2, <3>1 DEF Timing!Time
    <2>4. ASSUME NEW x \in {[range |-> s.range, until |-> t + s.latency] : s \in q.stores}
          PROVE  x \in {s \in Stored : s.until > t}
      <3>1. PICK y \in q.stores : x = [range |-> y.range, until |-> t + y.latency]
        OBVIOUS
      <3>2. PICK s \in stores : s.latency > n /\ y = [range |-> s.range, latency |-> s.latency - n]
        BY <1>2
      <3> QED  BY <3>1, <3>2, <2>3 DEF Stored
    <2>5. ASSUME NEW x \in {s \in Stored : s.until > t}
          PROVE  x \in {[range |-> s.range, until |-> t + s.latency] : s \in q.stores}
      <3>1. PICK s \in stores : x = [range |-> s.range, until |-> Timing!Time(s.latency)]
        BY DEF Stored
      <3>2. [range |-> s.range, latency |-> s.latency - n] \in q.stores
        BY <1>2, <2>3, <3>1
      <3> QED  BY <2>3, <3>1, <3>2
    <2> QED  BY <2>4, <2>5
  <1>6. t \in Nat /\ mult \in Nat /\ div \in Nat
    BY DEF PipeInv, PipeTypeOK
  <1> QED  BY <1>2, <1>3, <1>4, <1>5, <1>6

\* An instruction that went on at p.cycles, and left in p what the scoreboard says it
\* leaves, ends as on the scoreboard.
LEMMA EndingTellsTime ==
    ASSUME NEW p \in Pipe, ~p.failed, Timing!Ends(p),
           NEW results \in [Regs -> Nat], NEW m \in Nat, NEW d \in Nat, NEW sto,
           \A r \in Regs : Abs(p.cycles, p.pending[r]) = TimeAt(p.cycles, results[r]),
           Abs(p.cycles, p.mult) = TimeAt(p.cycles, m),
           Abs(p.cycles, p.div) = TimeAt(p.cycles, d),
           \A s \in sto : s.until \in Nat,
           {[range |-> s.range, until |-> p.cycles + s.latency] : s \in p.stores}
             = {s \in sto : s.until > p.cycles}
    PROVE  /\ num_total_cycles' = p.cycles + 1
           /\ Ready' = [r \in Regs |-> TimeAt(p.cycles + 1, results[r])]
           /\ Timing!Time(mult)' = TimeAt(p.cycles + 1, m)
           /\ Timing!Time(div)' = TimeAt(p.cycles + 1, d)
           /\ Stored' = {s \in sto : s.until > p.cycles + 1}
           /\ PipeInv'
  <1> DEFINE q == Timing!advance(p, 1)
             t == p.cycles
  <1>1. /\ q \in Pipe /\ q.cycles = t + 1 /\ ~q.failed /\ t \in Nat
        /\ q.pending = [r \in Regs |-> Timing!Less(p.pending[r], 1)]
        /\ q.mult = Timing!Less(p.mult, 1) /\ q.div = Timing!Less(p.div, 1)
        /\ q.stores = {[range |-> s.range, latency |-> s.latency - 1] :
                          s \in {u \in p.stores : u.latency > 1}}
        /\ p.mult \in Nat /\ p.div \in Nat /\ \A r \in Regs : p.pending[r] \in Nat
        /\ \A s \in p.stores : s \in Reservation
    <2>1. 1 \in Nat
      OBVIOUS
    <2> QED  BY <2>1, AdvanceType DEF Pipe
  <1>2. /\ pending' = q.pending /\ mult' = q.mult /\ div' = q.div /\ stores' = q.stores
        /\ num_total_cycles' = t + 1 /\ failed' = q.failed
    BY <1>1 DEF Timing!Ends
  <1>3. PipeInv'
    BY <1>1, <1>2 DEF PipeInv, PipeTypeOK, Pipe
  <1> HIDE DEF q
  <1>4. ASSUME NEW l \in Nat, NEW u \in Nat, Abs(t, l) = TimeAt(t, u)
        PROVE  Abs(t + 1, Timing!Less(l, 1)) = TimeAt(t + 1, u)
    BY <1>1, <1>4, CountTellsTime
  <1>5. \A r \in Regs : results[r] \in Nat
    OBVIOUS
  <1>6. \A r \in Regs : Abs(t + 1, q.pending[r]) = TimeAt(t + 1, results[r])
    BY <1>1, <1>4, <1>5
  <1>7. Abs(t + 1, q.mult) = TimeAt(t + 1, m) /\ Abs(t + 1, q.div) = TimeAt(t + 1, d)
    BY <1>1, <1>4
  <1>8. {[range |-> s.range, until |-> t + 1 + s.latency] : s \in q.stores}
          = {s \in sto : s.until > t + 1}
    <2>1. ASSUME NEW x \in {[range |-> s.range, until |-> t + 1 + s.latency] : s \in q.stores}
          PROVE  x \in {s \in sto : s.until > t + 1}
      <3>1. PICK y \in q.stores : x = [range |-> y.range, until |-> t + 1 + y.latency]
        OBVIOUS
      <3>2. PICK s \in p.stores : s.latency > 1 /\ y = [range |-> s.range, latency |-> s.latency - 1]
        BY <1>1
      <3>3. s.latency \in Nat
        BY <1>1 DEF Reservation
      <3>4. x = [range |-> s.range, until |-> t + s.latency] /\ x.until > t + 1
        BY <1>1, <3>1, <3>2, <3>3
      <3> QED  BY <3>4
    <2>2. ASSUME NEW x \in {s \in sto : s.until > t + 1}
          PROVE  x \in {[range |-> s.range, until |-> t + 1 + s.latency] : s \in q.stores}
      <3>1. x \in {s \in sto : s.until > t}
        BY <1>1
      <3>2. PICK s \in p.stores : x = [range |-> s.range, until |-> t + s.latency]
        BY <3>1
      <3>3. s.latency \in Nat /\ s.latency > 1
        BY <1>1, <2>2, <3>2 DEF Reservation
      <3>4. [range |-> s.range, latency |-> s.latency - 1] \in q.stores
        BY <1>1, <3>3
      <3>5. t + 1 + (s.latency - 1) = t + s.latency
        BY <1>1, <3>3
      <3> QED  BY <3>2, <3>4, <3>5
    <2> QED  BY <2>1, <2>2
  <1>9. \A s \in q.stores : s.latency > 0
    BY <1>1 DEF Pipe, Reservation
  <1>a. /\ [r \in Regs |-> Timing!Time(pending[r])]' = [r \in Regs |-> TimeAt(t + 1, results[r])]
        /\ Timing!Time(mult)' = TimeAt(t + 1, m) /\ Timing!Time(div)' = TimeAt(t + 1, d)
    BY <1>2, <1>6, <1>7 DEF Timing!Time, Abs
  <1>b. {[range |-> s.range, until |-> Timing!Time(s.latency)] : s \in stores}'
          = {s \in sto : s.until > t + 1}
    BY <1>2, <1>8, <1>9 DEF Timing!Time
  <1> QED  BY <1>2, <1>3, <1>a, <1>b DEF Ready, Stored
-----------------------------------------------------------------------------
\* The scoreboard lets an instruction go on when the last of its registers is ready.
LEMMA IssueIs ==
    ASSUME PipeInv, NEW regs \in SUBSET Regs, NEW n \in Nat,
           \A r \in regs : pending[r] <= n,
           n = 0 \/ \E r \in regs : pending[r] = n
    PROVE  Timing!Abstract!Issue(regs) = num_total_cycles + n
  <1> DEFINE times == {num_total_cycles} \cup {Ready[r] : r \in regs}
             m == num_total_cycles + n
  <1>1. num_total_cycles \in Nat /\ \A r \in Regs : pending[r] \in Nat
    BY DEF PipeInv, PipeTypeOK
  <1>2. \A r \in regs : Ready[r] = Timing!Time(pending[r])
    BY DEF Ready
  <1>3. ASSUME NEW u \in times
        PROVE  u \in Nat /\ u <= m
    <2>1. CASE u = num_total_cycles
      BY <1>1, <2>1
    <2>2. CASE u \in {Ready[r] : r \in regs}
      <3>1. PICK r \in regs : u = Timing!Time(pending[r])
        BY <1>2, <2>2
      <3>2. pending[r] \in Nat /\ pending[r] <= n
        BY <1>1
      <3> QED  BY <1>1, <3>1, <3>2 DEF Timing!Time
    <2> QED  BY <2>1, <2>2
  <1>4. m \in times
    <2>1. CASE n = 0
      BY <1>1, <2>1
    <2>2. CASE n > 0
      <3>1. PICK r \in regs : pending[r] = n
        BY <2>2
      <3>2. Ready[r] = m
        BY <1>2, <2>2, <3>1 DEF Timing!Time
      <3> QED  BY <3>2
    <2> QED  BY <2>1, <2>2
  <1>5. m \in Nat
    BY <1>1
  <1> HIDE DEF m
  <1>6. Timing!Abstract!Latest(times) = m
    BY <1>3, <1>4, <1>5, LatestIs
  <1> QED  BY <1>6 DEF Timing!Abstract!Issue, Ready, m

\* Of two registers, and of three.
LEMMA IssueOfThree ==
    ASSUME PipeInv, NEW rs1 \in Regs, NEW rs2 \in Regs, NEW rd \in Regs
    PROVE  LET n == Later(pending[rs1], pending[rs2])
               k == Later(n, pending[rd])
           IN  /\ n \in Nat /\ k \in Nat
               /\ pending[rd] <= k
               /\ Timing!Abstract!Issue({rs1, rs2}) = num_total_cycles + n
               /\ Timing!Abstract!Issue({rs1, rs2, rd}) = num_total_cycles + k
  <1> DEFINE n == Later(pending[rs1], pending[rs2])
             k == Later(n, pending[rd])
  <1>1. pending[rs1] \in Nat /\ pending[rs2] \in Nat /\ pending[rd] \in Nat
    BY DEF PipeInv, PipeTypeOK
  <1>2. /\ n \in Nat /\ pending[rs1] <= n /\ pending[rs2] <= n
        /\ n = pending[rs1] \/ n = pending[rs2]
    BY <1>1 DEF Later
  <1> HIDE DEF n
  <1>3. /\ k \in Nat /\ n <= k /\ pending[rd] <= k
        /\ k = n \/ k = pending[rd]
    BY <1>1, <1>2 DEF Later
  <1> HIDE DEF k
  <1>4. Timing!Abstract!Issue({rs1, rs2}) = num_total_cycles + n
    <2>1. \A r \in {rs1, rs2} : pending[r] <= n
      BY <1>2
    <2>2. \E r \in {rs1, rs2} : pending[r] = n
      BY <1>2
    <2> QED  BY <1>2, <2>1, <2>2, IssueIs
  <1>5. Timing!Abstract!Issue({rs1, rs2, rd}) = num_total_cycles + k
    <2>1. \A r \in {rs1, rs2, rd} : pending[r] <= k
      BY <1>1, <1>2, <1>3
    <2>2. \E r \in {rs1, rs2, rd} : pending[r] = k
      BY <1>2, <1>3
    <2> QED  BY <1>3, <2>1, <2>2, IssueIs
  <1> QED  BY <1>2, <1>3, <1>4, <1>5 DEF n, k

\* An instruction that only waits.
LEMMA WaitingStep ==
    ASSUME PipeInv, NEW regs \in SUBSET Regs, NEW n \in Nat,
           Timing!Abstract!Issue(regs) = num_total_cycles + n,
           Timing!Ends(Timing!advance(Timing!Model, n))
    PROVE  Timing!Abstract!Simple(regs) /\ PipeInv'
  <1> DEFINE q == Timing!advance(Timing!Model, n)
             t == num_total_cycles + n
  <1>1. /\ q \in Pipe /\ q.cycles = t /\ ~q.failed
        /\ \A r \in Regs : Ready[r] \in Nat /\ Abs(t, q.pending[r]) = TimeAt(t, Ready[r])
        /\ Timing!Time(mult) \in Nat /\ Abs(t, q.mult) = TimeAt(t, Timing!Time(mult))
        /\ Timing!Time(div) \in Nat /\ Abs(t, q.div) = TimeAt(t, Timing!Time(div))
        /\ {[range |-> s.range, until |-> t + s.latency] : s \in q.stores}
             = {s \in Stored : s.until > t}
    BY WaitTellsTime
  <1>2. Timing!Ends(q)
    OBVIOUS
  <1> HIDE DEF q
  <1>3. Ready \in [Regs -> Nat]
    BY <1>1 DEF Ready
  <1>4. \A s \in Stored : s.until \in Nat
    BY StoredType
  <1>5. /\ num_total_cycles' = q.cycles + 1
        /\ Ready' = [r \in Regs |-> TimeAt(q.cycles + 1, Ready[r])]
        /\ Timing!Time(mult)' = TimeAt(q.cycles + 1, Timing!Time(mult))
        /\ Timing!Time(div)' = TimeAt(q.cycles + 1, Timing!Time(div))
        /\ Stored' = {s \in Stored : s.until > q.cycles + 1}
        /\ PipeInv'
    <2>1. /\ \A r \in Regs : Abs(q.cycles, q.pending[r]) = TimeAt(q.cycles, Ready[r])
          /\ Abs(q.cycles, q.mult) = TimeAt(q.cycles, Timing!Time(mult))
          /\ Abs(q.cycles, q.div) = TimeAt(q.cycles, Timing!Time(div))
          /\ {[range |-> s.range, until |-> q.cycles + s.latency] : s \in q.stores}
               = {s \in Stored : s.until > q.cycles}
      BY <1>1
    <2> HIDE DEF t
    <2> QED  BY <1>1, <1>2, <1>3, <1>4, <2>1, EndingTellsTime
  <1> QED  BY <1>1, <1>5 DEF Timing!Abstract!Simple, Timing!Abstract!Leaves, Ready, Stored, TimeAt

\* A register that was waited for can be given a new result.
LEMMA ResultIsAdded ==
    ASSUME PipeInv, NEW n \in Nat, NEW rd \in Regs, pending[rd] <= n,
           NEW q \in Pipe, ~q.failed, q.pending = Timing!advance(Timing!Model, n).pending,
           NEW latency \in Nat \ {0}
    PROVE  LET p == Timing!add_result_latency(q, rd, latency)
           IN  /\ p \in Pipe /\ ~p.failed
               /\ p.pending = [q.pending EXCEPT ![rd] = latency]
               /\ p.mult = q.mult /\ p.div = q.div /\ p.stores = q.stores
               /\ p.cycles = q.cycles
  <1>1. q.pending = [r \in Regs |-> Timing!Less(pending[r], n)]
    <2>1. Timing!Model \in Pipe /\ Timing!Model.pending = pending
      BY DEF PipeInv, PipeTypeOK, Timing!Model, Pipe
    <2> QED  BY <2>1, AdvanceType
  <1>2. pending[rd] \in Nat
    BY DEF PipeInv, PipeTypeOK
  <1>3. ~(q.pending[rd] > 0)
    BY <1>1, <1>2 DEF Timing!Less
  <1>4. [q.pending EXCEPT ![rd] = latency] \in [Regs -> Nat]
    BY DEF Pipe
  <1> QED  BY <1>3, <1>4 DEF Timing!add_result_latency, Pipe

\* An instruction that waits, and then records a result.
LEMMA ResultStep ==
    ASSUME PipeInv, NEW n \in Nat, NEW rd \in Regs, NEW latency \in Nat \ {0},
           NEW p \in Pipe, ~p.failed, Timing!Ends(p),
           p.cycles = num_total_cycles + n,
           p.pending = [Timing!advance(Timing!Model, n).pending EXCEPT ![rd] = latency],
           p.stores = Timing!advance(Timing!Model, n).stores,
           NEW m \in Nat, Abs(p.cycles, p.mult) = TimeAt(p.cycles, m),
           NEW d \in Nat, Abs(p.cycles, p.div) = TimeAt(p.cycles, d)
    PROVE  /\ num_total_cycles' = p.cycles + 1
           /\ Ready' = [r \in Regs |-> TimeAt(p.cycles + 1, [Ready EXCEPT ![rd] = p.cycles + latency][r])]
           /\ Timing!Time(mult)' = TimeAt(p.cycles + 1, m)
           /\ Timing!Time(div)' = TimeAt(p.cycles + 1, d)
           /\ Stored' = {s \in Stored : s.until > p.cycles + 1}
           /\ PipeInv'
  <1> DEFINE q == Timing!advance(Timing!Model, n)
             results == [Ready EXCEPT ![rd] = p.cycles + latency]
  <1>1. /\ q \in Pipe /\ q.cycles = p.cycles
        /\ \A r \in Regs : Ready[r] \in Nat /\ Abs(q.cycles, q.pending[r]) = TimeAt(q.cycles, Ready[r])
        /\ {[range |-> s.range, until |-> q.cycles + s.latency] : s \in q.stores}
             = {s \in Stored : s.until > q.cycles}
    BY WaitTellsTime
  <1>2. p.pending = [q.pending EXCEPT ![rd] = latency] /\ p.stores = q.stores
    OBVIOUS
  <1> HIDE DEF q
  <1>3. p.cycles \in Nat /\ q.pending \in [Regs -> Nat]
    BY <1>1 DEF Pipe
  <1>4. Ready \in [Regs -> Nat]
    BY <1>1 DEF Ready
  <1>5. results \in [Regs -> Nat]
    BY <1>3, <1>4
  <1>6. Abs(p.cycles, latency) = TimeAt(p.cycles, p.cycles + latency)
    BY <1>3 DEF Abs, TimeAt, Timing!Abstract!At
  <1>7. \A r \in Regs : Abs(p.cycles, p.pending[r]) = TimeAt(p.cycles, results[r])
    BY <1>1, <1>2, <1>3, <1>4, <1>6
  <1>8. \A s \in Stored : s.until \in Nat
    BY StoredType
  <1>9. {[range |-> s.range, until |-> p.cycles + s.latency] : s \in p.stores}
          = {s \in Stored : s.until > p.cycles}
    BY <1>1, <1>2
  <1> HIDE DEF results
  <1>10. /\ num_total_cycles' = p.cycles + 1
         /\ Ready' = [r \in Regs |-> TimeAt(p.cycles + 1, results[r])]
         /\ Timing!Time(mult)' = TimeAt(p.cycles + 1, m)
         /\ Timing!Time(div)' = TimeAt(p.cycles + 1, d)
         /\ Stored' = {s \in Stored : s.until > p.cycles + 1}
         /\ PipeInv'
    BY <1>5, <1>7, <1>8, <1>9, EndingTellsTime
  <1> QED  BY <1>10 DEF results

\* A unit that is waited for, with all that the instruction waits for.
LEMMA UnitWaits ==
    ASSUME PipeInv, NEW n \in Nat, NEW l \in {mult, div}
    PROVE  LET q == Timing!advance(Timing!Model, n)
               k == Later(n, l)
           IN  /\ k \in Nat /\ n <= k
               /\ (Timing!Less(l, n) > 0) => Timing!advance(q, Timing!Less(l, n)) = Timing!advance(Timing!Model, k)
               /\ ~(Timing!Less(l, n) > 0) => q = Timing!advance(Timing!Model, k)
               /\ Timing!Abstract!Latest({num_total_cycles + n, Timing!Time(l)}) = num_total_cycles + k
  <1> DEFINE k == Later(n, l)
  <1>1. l \in Nat /\ num_total_cycles \in Nat /\ Timing!Model \in Pipe
    BY DEF PipeInv, PipeTypeOK, Timing!Model, Pipe
  <1>2. k \in Nat /\ n <= k
    BY <1>1 DEF Later
  <1>3. CASE l > n
    <2>1. Timing!Less(l, n) = l - n /\ l - n \in Nat /\ n + (l - n) = l /\ k = l
      BY <1>1, <1>3 DEF Timing!Less, Later
    <2>2. Timing!advance(Timing!advance(Timing!Model, n), l - n) = Timing!advance(Timing!Model, l)
      BY <1>1, <2>1, AdvanceTwice
    <2>3. Timing!Time(l) = num_total_cycles + l /\ num_total_cycles + l \in Nat
      BY <1>1, <1>3 DEF Timing!Time
    <2>4. Timing!Abstract!Latest({num_total_cycles + n, Timing!Time(l)}) = Timing!Time(l)
      BY <1>1, <1>3, <2>3, LatestIs
    <2>5. Timing!Less(l, n) > 0
      BY <1>1, <1>3, <2>1
    <2> QED  BY <1>2, <2>1, <2>2, <2>3, <2>4, <2>5
  <1>4. CASE ~(l > n)
    <2>1. ~(Timing!Less(l, n) > 0) /\ k = n
      BY <1>1, <1>4 DEF Timing!Less, Later
    <2>2. Timing!Time(l) \in Nat /\ Timing!Time(l) <= num_total_cycles + n /\ num_total_cycles + n \in Nat
      BY <1>1, <1>4 DEF Timing!Time
    <2>3. Timing!Abstract!Latest({num_total_cycles + n, Timing!Time(l)}) = num_total_cycles + n
      BY <2>2, LatestIs
    <2> QED  BY <1>2, <2>1, <2>3
  <1> QED  BY <1>3, <1>4

LEMMA MultStep ==
    ASSUME PipeInv, NEW rs1 \in Regs, NEW rs2 \in Regs, NEW rd \in Regs, Timing!Mult(rs1, rs2, rd)
    PROVE  Timing!Abstract!Mult(rs1, rs2, rd) /\ PipeInv'
  <1> DEFINE n == Later(Later(pending[rs1], pending[rs2]), pending[rd])
             k == Later(n, mult)
             a == Timing!advance(Timing!Model, n)
             q == Timing!advance(Timing!Model, k)
             u == [q EXCEPT !.mult = MultLatency]
             p == Timing!add_result_latency(u, rd, MultLatency + 1)
  <1>1. /\ n \in Nat /\ pending[rd] <= n
        /\ Timing!Abstract!Issue({rs1, rs2, rd}) = num_total_cycles + n
        /\ Timing!ReadAndWrite(rs1, rs2, rd) = a
    BY IssueOfThree, ReadWaits
  <1> HIDE DEF n
  <1>2. MultLatency \in Nat \ {0} /\ MultLatency + 1 \in Nat \ {0}
    BY PipelineAssumption DEF PipelineAssumption
  <1>3. /\ k \in Nat /\ n <= k
        /\ (Timing!Less(mult, n) > 0) => Timing!advance(a, Timing!Less(mult, n)) = q
        /\ ~(Timing!Less(mult, n) > 0) => a = q
        /\ Timing!Abstract!Latest({num_total_cycles + n, Timing!Time(mult)}) = num_total_cycles + k
    BY <1>1, UnitWaits
  <1>4. a.mult = Timing!Less(mult, n)
    <2>1. Timing!Model \in Pipe /\ Timing!Model.mult = mult
      BY DEF PipeInv, PipeTypeOK, Timing!Model, Pipe
    <2> QED  BY <1>1, <2>1, AdvanceType
  <1> HIDE DEF a, k
  <1>5. (IF a.mult > 0 THEN Timing!stall(a, a.mult) ELSE a) = q
    BY <1>3, <1>4 DEF Timing!stall
  <1>6. Timing!do_mult(a, rd) = p
    BY <1>5 DEF Timing!do_mult
  <1>7. Timing!Ends(p)
    BY <1>1, <1>6 DEF Timing!Mult
  <1>8. /\ q \in Pipe /\ q.cycles = num_total_cycles + k /\ ~q.failed
        /\ Timing!Time(div) \in Nat /\ Abs(q.cycles, q.div) = TimeAt(q.cycles, Timing!Time(div))
        /\ q.pending = Timing!advance(Timing!Model, k).pending /\ q.stores = Timing!advance(Timing!Model, k).stores
    BY <1>3, WaitTellsTime
  <1> HIDE DEF q
  <1>9. /\ u \in Pipe /\ u.cycles = q.cycles /\ ~u.failed /\ u.pending = q.pending
        /\ u.stores = q.stores /\ u.div = q.div /\ u.mult = MultLatency
    BY <1>2, <1>8 DEF Pipe
  <1> HIDE DEF u
  <1>10. pending[rd] <= k
    BY <1>1, <1>3 DEF PipeInv, PipeTypeOK
  <1>11. /\ p \in Pipe /\ ~p.failed
         /\ p.pending = [u.pending EXCEPT ![rd] = MultLatency + 1]
         /\ p.mult = u.mult /\ p.div = u.div /\ p.stores = u.stores /\ p.cycles = u.cycles
    BY <1>2, <1>3, <1>8, <1>9, <1>10, ResultIsAdded
  <1> HIDE DEF p
  <1>12. /\ p.cycles \in Nat /\ p.cycles + MultLatency \in Nat
         /\ Abs(p.cycles, p.mult) = TimeAt(p.cycles, p.cycles + MultLatency)
         /\ Abs(p.cycles, p.div) = TimeAt(p.cycles, Timing!Time(div))
    BY <1>2, <1>8, <1>9, <1>11 DEF Pipe, Abs, TimeAt, Timing!Abstract!At
  <1>13. /\ num_total_cycles' = p.cycles + 1
         /\ Ready' = [r \in Regs |->
              TimeAt(p.cycles + 1, [Ready EXCEPT ![rd] = p.cycles + (MultLatency + 1)][r])]
         /\ Timing!Time(mult)' = TimeAt(p.cycles + 1, p.cycles + MultLatency)
         /\ Timing!Time(div)' = TimeAt(p.cycles + 1, Timing!Time(div))
         /\ Stored' = {s \in Stored : s.until > p.cycles + 1}
         /\ PipeInv'
    BY <1>2, <1>3, <1>7, <1>8, <1>9, <1>11, <1>12, ResultStep
  <1>14. p.cycles + (MultLatency + 1) = p.cycles + MultLatency + 1
    BY <1>2, <1>12
  <1>15. /\ p.cycles = num_total_cycles + k
         /\ Timing!Abstract!Latest({Timing!Abstract!Issue({rs1, rs2, rd}), Timing!Time(mult)}) = p.cycles
    BY <1>1, <1>3, <1>8, <1>9, <1>11
  <1> QED
    BY <1>13, <1>14, <1>15 DEF Timing!Abstract!Mult, Timing!Abstract!Leaves, Ready, Stored, TimeAt

LEMMA DivStep ==
    ASSUME PipeInv, NEW rs1 \in Regs, NEW rs2 \in Regs, NEW rd \in Regs, Timing!Div(rs1, rs2, rd)
    PROVE  Timing!Abstract!Div(rs1, rs2, rd) /\ PipeInv'
  <1> PICK l \in DivLatencies : Timing!Ends(Timing!do_div(Timing!ReadAndWrite(rs1, rs2, rd), rd, l))
    BY DEF Timing!Div
  <1> DEFINE n == Later(Later(pending[rs1], pending[rs2]), pending[rd])
             k == Later(n, div)
             a == Timing!advance(Timing!Model, n)
             q == Timing!advance(Timing!Model, k)
             u == [q EXCEPT !.div = l]
             p == Timing!add_result_latency(u, rd, l)
  <1>1. /\ n \in Nat /\ pending[rd] <= n
        /\ Timing!Abstract!Issue({rs1, rs2, rd}) = num_total_cycles + n
        /\ Timing!ReadAndWrite(rs1, rs2, rd) = a
    BY IssueOfThree, ReadWaits
  <1> HIDE DEF n
  <1>2. l \in Nat \ {0}
    BY PipelineAssumption DEF PipelineAssumption
  <1>3. /\ k \in Nat /\ n <= k
        /\ (Timing!Less(div, n) > 0) => Timing!advance(a, Timing!Less(div, n)) = q
        /\ ~(Timing!Less(div, n) > 0) => a = q
        /\ Timing!Abstract!Latest({num_total_cycles + n, Timing!Time(div)}) = num_total_cycles + k
    BY <1>1, UnitWaits
  <1>4. a.div = Timing!Less(div, n)
    <2>1. Timing!Model \in Pipe /\ Timing!Model.div = div
      BY DEF PipeInv, PipeTypeOK, Timing!Model, Pipe
    <2> QED  BY <1>1, <2>1, AdvanceType
  <1> HIDE DEF a, k
  <1>5. (IF a.div > 0 THEN Timing!stall(a, a.div) ELSE a) = q
    BY <1>3, <1>4 DEF Timing!stall
  <1>6. Timing!do_div(a, rd, l) = p
    BY <1>5 DEF Timing!do_div
  <1>7. Timing!Ends(p)
    BY <1>1, <1>6
  <1>8. /\ q \in Pipe /\ q.cycles = num_total_cycles + k /\ ~q.failed
        /\ Timing!Time(mult) \in Nat /\ Abs(q.cycles, q.mult) = TimeAt(q.cycles, Timing!Time(mult))
        /\ q.pending = Timing!advance(Timing!Model, k).pending /\ q.stores = Timing!advance(Timing!Model, k).stores
    BY <1>3, WaitTellsTime
  <1> HIDE DEF q
  <1>9. /\ u \in Pipe /\ u.cycles = q.cycles /\ ~u.failed /\ u.pending = q.pending
        /\ u.stores = q.stores /\ u.mult = q.mult /\ u.div = l
    BY <1>2, <1>8 DEF Pipe
  <1> HIDE DEF u
  <1>10. pending[rd] <= k
    BY <1>1, <1>3 DEF PipeInv, PipeTypeOK
  <1>11. /\ p \in Pipe /\ ~p.failed
         /\ p.pending = [u.pending EXCEPT ![rd] = l]
         /\ p.mult = u.mult /\ p.div = u.div /\ p.stores = u.stores /\ p.cycles = u.cycles
    BY <1>2, <1>3, <1>8, <1>9, <1>10, ResultIsAdded
  <1> HIDE DEF p
  <1>12. /\ p.cycles \in Nat /\ p.cycles + l \in Nat
         /\ Abs(p.cycles, p.div) = TimeAt(p.cycles, p.cycles + l)
         /\ Abs(p.cycles, p.mult) = TimeAt(p.cycles, Timing!Time(mult))
    BY <1>2, <1>8, <1>9, <1>11 DEF Pipe, Abs, TimeAt, Timing!Abstract!At
  <1>13. /\ num_total_cycles' = p.cycles + 1
         /\ Ready' = [r \in Regs |-> TimeAt(p.cycles + 1, [Ready EXCEPT ![rd] = p.cycles + l][r])]
         /\ Timing!Time(mult)' = TimeAt(p.cycles + 1, Timing!Time(mult))
         /\ Timing!Time(div)' = TimeAt(p.cycles + 1, p.cycles + l)
         /\ Stored' = {s \in Stored : s.until > p.cycles + 1}
         /\ PipeInv'
    BY <1>2, <1>3, <1>7, <1>8, <1>9, <1>11, <1>12, ResultStep
  <1>14. Timing!Abstract!Latest({Timing!Abstract!Issue({rs1, rs2, rd}), Timing!Time(div)}) = p.cycles
    BY <1>1, <1>3, <1>8, <1>9, <1>11
  <1> QED
    BY <1>13, <1>14 DEF Timing!Abstract!Div, Timing!Abstract!Leaves, Ready, Stored, TimeAt

LEMMA CsrStep ==
    ASSUME PipeInv, NEW rs1 \in Regs, NEW rd \in Regs, rd # Zero, Timing!Csr(rs1, rd)
    PROVE  Timing!Abstract!Csr(rs1, rd) /\ PipeInv'
  <1> DEFINE k == Later(Later(pending[rs1], pending[rs1]), pending[rd])
             q == Timing!advance(Timing!Model, k)
             p == Timing!add_result_latency(q, rd, CsrLatency)
  <1>1. /\ k \in Nat /\ pending[rd] <= k
        /\ Timing!Abstract!Issue({rs1, rs1, rd}) = num_total_cycles + k
        /\ Timing!ReadAndWrite(rs1, rs1, rd) = q
    BY IssueOfThree, ReadWaits
  <1>2. Timing!Ends(p)
    BY <1>1 DEF Timing!Csr, Timing!do_csr
  <1> HIDE DEF k
  <1>3. CsrLatency \in Nat \ {0}
    BY PipelineAssumption DEF PipelineAssumption
  <1>4. /\ q \in Pipe /\ q.cycles = num_total_cycles + k /\ ~q.failed
        /\ Timing!Time(mult) \in Nat /\ Abs(q.cycles, q.mult) = TimeAt(q.cycles, Timing!Time(mult))
        /\ Timing!Time(div) \in Nat /\ Abs(q.cycles, q.div) = TimeAt(q.cycles, Timing!Time(div))
        /\ q.pending = Timing!advance(Timing!Model, k).pending /\ q.stores = Timing!advance(Timing!Model, k).stores
    BY <1>1, WaitTellsTime
  <1> HIDE DEF q
  <1>5. /\ p \in Pipe /\ ~p.failed
        /\ p.pending = [q.pending EXCEPT ![rd] = CsrLatency]
        /\ p.mult = q.mult /\ p.div = q.div /\ p.stores = q.stores /\ p.cycles = q.cycles
    BY <1>1, <1>3, <1>4, ResultIsAdded
  <1> HIDE DEF p
  <1>6. /\ num_total_cycles' = p.cycles + 1
        /\ Ready' = [r \in Regs |-> TimeAt(p.cycles + 1, [Ready EXCEPT ![rd] = p.cycles + CsrLatency][r])]
        /\ Timing!Time(mult)' = TimeAt(p.cycles + 1, Timing!Time(mult))
        /\ Timing!Time(div)' = TimeAt(p.cycles + 1, Timing!Time(div))
        /\ Stored' = {s \in Stored : s.until > p.cycles + 1}
        /\ PipeInv'
    BY <1>1, <1>2, <1>3, <1>4, <1>5, ResultStep
  <1>7. Timing!Abstract!Issue({rs1, rd}) = p.cycles /\ {rs1, rs1, rd} = {rs1, rd}
    BY <1>1, <1>4, <1>5
  <1> QED
    BY <1>6, <1>7 DEF Timing!Abstract!Csr, Timing!Abstract!Leaves, Ready, Stored, TimeAt

LEMMA StoreStep ==
    ASSUME PipeInv, NEW rs1 \in Regs, NEW rs2 \in Regs, NEW range \in Ranges,
           Timing!Store(rs1, rs2, range)
    PROVE  Timing!Abstract!Store(rs1, rs2, range) /\ PipeInv'
  <1> DEFINE n == Later(pending[rs1], pending[rs2])
             q == Timing!advance(Timing!Model, n)
             p == Timing!reserve_store(q, range)
             new == [range |-> range, latency |-> StoreLatency + 1]
             sto == Stored \cup {[range |-> range, until |-> q.cycles + (StoreLatency + 1)]}
  <1>1. /\ n \in Nat
        /\ Timing!Abstract!Issue({rs1, rs2}) = num_total_cycles + n
        /\ Timing!Read(rs1, rs2) = q
    BY IssueOfThree, ReadWaits
  <1>2. Timing!Ends(p)
    BY <1>1 DEF Timing!Store
  <1> HIDE DEF n
  <1>3. StoreLatency \in Nat /\ StoreLatency + 1 \in Nat \ {0}
    BY PipelineAssumption DEF PipelineAssumption
  <1>4. /\ q \in Pipe /\ q.cycles = num_total_cycles + n /\ ~q.failed
        /\ \A r \in Regs : Ready[r] \in Nat /\ Abs(q.cycles, q.pending[r]) = TimeAt(q.cycles, Ready[r])
        /\ Timing!Time(mult) \in Nat /\ Abs(q.cycles, q.mult) = TimeAt(q.cycles, Timing!Time(mult))
        /\ Timing!Time(div) \in Nat /\ Abs(q.cycles, q.div) = TimeAt(q.cycles, Timing!Time(div))
        /\ {[range |-> s.range, until |-> q.cycles + s.latency] : s \in q.stores}
             = {s \in Stored : s.until > q.cycles}
    BY <1>1, WaitTellsTime
  <1> HIDE DEF q
  <1>5. q.cycles \in Nat /\ q.stores \in SUBSET Reservation /\ new \in Reservation
    BY <1>3, <1>4 DEF Pipe, Reservation
  <1>6. /\ p \in Pipe /\ ~p.failed /\ p.pending = q.pending /\ p.mult = q.mult
        /\ p.div = q.div /\ p.cycles = q.cycles /\ p.stores = q.stores \cup {new}
    BY <1>4, <1>5 DEF Pipe, Timing!reserve_store
  <1> HIDE DEF p
  <1>7. {[range |-> s.range, until |-> p.cycles + s.latency] : s \in p.stores}
          = {s \in sto : s.until > p.cycles}
    <2>1. q.cycles + (StoreLatency + 1) > q.cycles
      BY <1>3, <1>5
    <2>2. {[range |-> s.range, until |-> q.cycles + s.latency] : s \in q.stores \cup {new}}
            = {[range |-> s.range, until |-> q.cycles + s.latency] : s \in q.stores}
                \cup {[range |-> range, until |-> q.cycles + (StoreLatency + 1)]}
      <3>1. new.range = range /\ new.latency = StoreLatency + 1
        OBVIOUS
      <3> HIDE DEF new
      <3>2. \A x : x \in {[range |-> s.range, until |-> q.cycles + s.latency] :
                              s \in q.stores \cup {new}}
                   <=> \E s \in q.stores \cup {new} :
                          x = [range |-> s.range, until |-> q.cycles + s.latency]
        OBVIOUS
      <3> QED  BY <3>1, <3>2
    <2>3. {s \in sto : s.until > q.cycles}
            = {s \in Stored : s.until > q.cycles}
                \cup {[range |-> range, until |-> q.cycles + (StoreLatency + 1)]}
      BY <2>1
    <2> QED  BY <1>4, <1>6, <2>2, <2>3
  <1>8. \A s \in sto : s.until \in Nat
    <2>1. \A s \in Stored : s.until \in Nat
      BY StoredType
    <2> QED  BY <1>3, <1>5, <2>1
  <1>9. Ready \in [Regs -> Nat]
    BY <1>4 DEF Ready
  <1>10. /\ \A r \in Regs : Abs(p.cycles, p.pending[r]) = TimeAt(p.cycles, Ready[r])
         /\ Abs(p.cycles, p.mult) = TimeAt(p.cycles, Timing!Time(mult))
         /\ Abs(p.cycles, p.div) = TimeAt(p.cycles, Timing!Time(div))
    BY <1>4, <1>6
  <1> HIDE DEF sto
  <1>11. /\ num_total_cycles' = p.cycles + 1
         /\ Ready' = [r \in Regs |-> TimeAt(p.cycles + 1, Ready[r])]
         /\ Timing!Time(mult)' = TimeAt(p.cycles + 1, Timing!Time(mult))
         /\ Timing!Time(div)' = TimeAt(p.cycles + 1, Timing!Time(div))
         /\ Stored' = {s \in sto : s.until > p.cycles + 1}
         /\ PipeInv'
    BY <1>2, <1>4, <1>6, <1>7, <1>8, <1>9, <1>10, EndingTellsTime
  <1>12. Timing!Abstract!Issue({rs1, rs2}) = p.cycles
         /\ sto = Stored \cup {[range |-> range, until |-> p.cycles + StoreLatency + 1]}
    <2>1. q.cycles + (StoreLatency + 1) = q.cycles + StoreLatency + 1
      BY <1>3, <1>5
    <2> QED  BY <1>1, <1>4, <1>6, <2>1 DEF sto
  <1> QED
    BY <1>11, <1>12 DEF Timing!Abstract!Store, Timing!Abstract!Leaves, Ready, Stored, TimeAt

\* The comparison of the ends finds the accesses that have a byte in common.
LEMMA OverlapsMeansSharedByte ==
    ASSUME NEW a \in Ranges, NEW b \in Ranges
    PROVE  Timing!overlaps(a, b) <=> Timing!Abstract!Bytes(a) \cap Timing!Abstract!Bytes(b) # {}
  <1>1. /\ a.start \in Nat /\ a.end \in Nat /\ a.start < a.end
        /\ b.start \in Nat /\ b.end \in Nat /\ b.start < b.end
    BY PipelineAssumption DEF PipelineAssumption
  <1>2. ASSUME Timing!overlaps(a, b)
        PROVE  Timing!Abstract!Bytes(a) \cap Timing!Abstract!Bytes(b) # {}
    <2>1. CASE b.start < a.start
      <3>1. a.start \in a.start .. a.end - 1 /\ a.start \in b.start .. b.end - 1
        BY <1>1, <1>2, <2>1 DEF Timing!overlaps
      <3> QED  BY <3>1 DEF Timing!Abstract!Bytes
    <2>2. CASE ~(b.start < a.start)
      <3>1. b.start \in a.start .. a.end - 1 /\ b.start \in b.start .. b.end - 1
        BY <1>1, <1>2, <2>2 DEF Timing!overlaps
      <3> QED  BY <3>1 DEF Timing!Abstract!Bytes
    <2> QED  BY <2>1, <2>2
  <1>3. ASSUME Timing!Abstract!Bytes(a) \cap Timing!Abstract!Bytes(b) # {}
        PROVE  Timing!overlaps(a, b)
    <2>1. PICK i \in a.start .. a.end - 1 : i \in b.start .. b.end - 1
      BY <1>3 DEF Timing!Abstract!Bytes
    <2> QED  BY <1>1, <2>1 DEF Timing!overlaps
  <1> QED  BY <1>2, <1>3

LEMMA SizeIsCardinality ==
    ASSUME NEW range \in Ranges
    PROVE  Timing!Abstract!Cardinality(Timing!Abstract!Bytes(range)) = range.end - range.start
  <1>1. range.start \in Nat /\ range.end \in Nat /\ range.start < range.end
    BY PipelineAssumption DEF PipelineAssumption
  <1> DEFINE last == range.end - 1
  <1>2. last \in Int /\ range.start <= last /\ last - range.start + 1 = range.end - range.start
    BY <1>1
  <1>3. Timing!Abstract!Bytes(range) = range.start .. last
    BY DEF Timing!Abstract!Bytes
  <1> HIDE DEF last
  <1>4. Cardinality(range.start .. last) = last - range.start + 1
    BY <1>1, <1>2, FS_Interval
  <1>5. Timing!Abstract!Cardinality(range.start .. last) = Cardinality(range.start .. last)
    BY DEF Timing!Abstract!Cardinality, Cardinality
  <1> QED  BY <1>2, <1>3, <1>4, <1>5

LEMMA LoadStep ==
    ASSUME PipeInv, NEW rs1 \in Regs, NEW rd \in Regs, NEW range \in Ranges,
           Timing!Load(rs1, rd, range)
    PROVE  Timing!Abstract!Load(rs1, rd, range) /\ PipeInv'
  <1> DEFINE n == Later(Later(pending[rs1], pending[rs1]), pending[rd])
             a == Timing!advance(Timing!Model, n)
             hit == \E s \in a.stores : Timing!overlaps(s.range, range)
             size == range.end - range.start
             latency == (IF size < 4 THEN 3 ELSE 2) + (IF hit /\ size < 4 THEN 2 ELSE 0)
             k == IF hit THEN n + 5 ELSE n
             q == Timing!advance(Timing!Model, k)
             p == Timing!add_result_latency(q, rd, latency)
  <1>1. /\ n \in Nat /\ pending[rd] <= n /\ Timing!Model \in Pipe
        /\ Timing!Abstract!Issue({rs1, rs1, rd}) = num_total_cycles + n
        /\ Timing!ReadAndWrite(rs1, rs1, rd) = a
    BY IssueOfThree, ReadWaits
  <1> HIDE DEF n
  <1>2. (IF hit THEN Timing!stall(a, 5) ELSE a) = q
    <2>1. Timing!advance(Timing!advance(Timing!Model, n), 5) = Timing!advance(Timing!Model, n + 5)
      BY <1>1, AdvanceTwice
    <2> QED  BY <2>1 DEF Timing!stall
  <1>3. Timing!Ends(p)
    BY <1>1, <1>2 DEF Timing!Load, Timing!do_load
  <1>4. size \in Nat \ {0} /\ latency \in Nat \ {0}
    <2>1. range.start \in Nat /\ range.end \in Nat /\ range.start < range.end
      BY PipelineAssumption DEF PipelineAssumption
    <2>2. size \in Nat \ {0}
      BY <2>1
    <2> HIDE DEF size, hit
    <2> QED  BY <2>2
  <1>5. k \in Nat /\ n <= k
    BY <1>1
  <1>6. /\ a.cycles = num_total_cycles + n /\ a \in Pipe
        /\ {[range |-> s.range, until |-> a.cycles + s.latency] : s \in a.stores}
             = {s \in Stored : s.until > a.cycles}
    BY <1>1, WaitTellsTime
  <1> HIDE DEF a
  <1>7. hit <=> \E s \in Stored : s.until > num_total_cycles + n
                                  /\ Timing!Abstract!Bytes(s.range) \cap Timing!Abstract!Bytes(range) # {}
    <2>1. \A s \in a.stores : s.range \in Ranges
      BY <1>6 DEF Pipe, Reservation
    <2>2. \A s \in a.stores :
             Timing!overlaps(s.range, range) <=> Timing!Abstract!Bytes(s.range) \cap Timing!Abstract!Bytes(range) # {}
      BY <2>1, OverlapsMeansSharedByte
    <2>3. ASSUME NEW s \in a.stores
          PROVE  \E u \in Stored : u.until > num_total_cycles + n /\ u.range = s.range
      <3>1. [range |-> s.range, until |-> a.cycles + s.latency] \in {u \in Stored : u.until > a.cycles}
        BY <1>6
      <3> QED  BY <1>6, <3>1
    <2>4. ASSUME NEW u \in Stored, u.until > num_total_cycles + n
          PROVE  \E s \in a.stores : u.range = s.range
      <3>1. u \in {[range |-> s.range, until |-> a.cycles + s.latency] : s \in a.stores}
        BY <1>6, <2>4
      <3> QED  BY <3>1
    <2> QED  BY <2>2, <2>3, <2>4
  <1>8. /\ q \in Pipe /\ q.cycles = num_total_cycles + k /\ ~q.failed
        /\ Timing!Time(mult) \in Nat /\ Abs(q.cycles, q.mult) = TimeAt(q.cycles, Timing!Time(mult))
        /\ Timing!Time(div) \in Nat /\ Abs(q.cycles, q.div) = TimeAt(q.cycles, Timing!Time(div))
        /\ q.pending = Timing!advance(Timing!Model, k).pending /\ q.stores = Timing!advance(Timing!Model, k).stores
    <2> HIDE DEF k
    <2> QED  BY <1>5, WaitTellsTime
  <1>9. latency = IF Timing!Abstract!Cardinality(Timing!Abstract!Bytes(range)) >= 4 THEN 2 ELSE IF hit THEN 5 ELSE 3
    <2>1. Timing!Abstract!Cardinality(Timing!Abstract!Bytes(range)) = size
      BY SizeIsCardinality
    <2> HIDE DEF size, hit
    <2> QED  BY <1>4, <2>1
  <1>10. k = IF hit THEN n + 5 ELSE n
    OBVIOUS
  <1> HIDE DEF q, k, latency, hit
  <1>11. pending[rd] <= k
    BY <1>1, <1>5 DEF PipeInv, PipeTypeOK
  <1>12. /\ p \in Pipe /\ ~p.failed
         /\ p.pending = [q.pending EXCEPT ![rd] = latency]
         /\ p.mult = q.mult /\ p.div = q.div /\ p.stores = q.stores /\ p.cycles = q.cycles
    BY <1>4, <1>5, <1>8, <1>11, ResultIsAdded
  <1> HIDE DEF p
  <1>13. /\ num_total_cycles' = p.cycles + 1
         /\ Ready' = [r \in Regs |-> TimeAt(p.cycles + 1, [Ready EXCEPT ![rd] = p.cycles + latency][r])]
         /\ Timing!Time(mult)' = TimeAt(p.cycles + 1, Timing!Time(mult))
         /\ Timing!Time(div)' = TimeAt(p.cycles + 1, Timing!Time(div))
         /\ Stored' = {s \in Stored : s.until > p.cycles + 1}
         /\ PipeInv'
    BY <1>3, <1>4, <1>5, <1>8, <1>12, ResultStep
  <1>14. /\ {rs1, rs1, rd} = {rs1, rd}
         /\ p.cycles = IF hit THEN Timing!Abstract!Issue({rs1, rd}) + 5 ELSE Timing!Abstract!Issue({rs1, rd})
    <2>1. num_total_cycles \in Nat /\ {rs1, rs1, rd} = {rs1, rd}
      BY DEF PipeInv, PipeTypeOK
    <2> QED  BY <1>1, <1>8, <1>10, <1>12, <2>1
  <1>15. hit <=> \E s \in Stored : s.until > Timing!Abstract!Issue({rs1, rd})
                                   /\ Timing!Abstract!Bytes(s.range) \cap Timing!Abstract!Bytes(range) # {}
    BY <1>1, <1>7, <1>14
  <1> DEFINE there == Timing!Abstract!Issue({rs1, rd})
             ahit == \E s \in Stored : s.until > there
                               /\ Timing!Abstract!Bytes(s.range) \cap Timing!Abstract!Bytes(range) # {}
             alatency == IF Timing!Abstract!Cardinality(Timing!Abstract!Bytes(range)) >= 4 THEN 2
                         ELSE IF ahit THEN 5 ELSE 3
             u == IF ahit THEN there + 5 ELSE there
  <1>16. /\ num_total_cycles' = u + 1
         /\ Ready' = [r \in Regs |-> TimeAt(u + 1, [Ready EXCEPT ![rd] = u + alatency][r])]
         /\ Timing!Time(mult)' = TimeAt(u + 1, Timing!Time(mult))
         /\ Timing!Time(div)' = TimeAt(u + 1, Timing!Time(div))
         /\ Stored' = {s \in Stored : s.until > u + 1}
         => Timing!Abstract!Load(rs1, rd, range)
    BY DEF Timing!Abstract!Load, Timing!Abstract!Leaves, Ready, Stored, TimeAt
  <1>17. ahit <=> hit
    BY <1>15
  <1> HIDE DEF ahit
  <1>18. alatency = latency /\ u = p.cycles
    BY <1>9, <1>14, <1>17
  <1> HIDE DEF alatency, u
  <1> QED  BY <1>13, <1>16, <1>18
-----------------------------------------------------------------------------
LEMMA InitTellsTime ==
    ASSUME Timing!Init
    PROVE  Timing!Abstract!Init /\ PipeInv
  <1>1. num_total_cycles \in Nat /\ num_total_cycles \in FirstCycles
    BY PipelineAssumption DEF PipelineAssumption, Timing!Init
  <1>2. Ready = [r \in Regs |-> 0] /\ Timing!Time(mult) = 0 /\ Timing!Time(div) = 0 /\ Stored = {}
    BY DEF Timing!Init, Ready, Stored, Timing!Time
  <1>3. PipeInv
    BY <1>1 DEF Timing!Init, PipeInv, PipeTypeOK
  <1> QED  BY <1>1, <1>2, <1>3 DEF Timing!Abstract!Init, Ready, Stored

\* An instruction that only waits, for two registers, three or none.
LEMMA WaitingInstruction ==
    ASSUME PipeInv, NEW rs1 \in Regs, NEW rs2 \in Regs, NEW rd \in Regs,
           Timing!Arithmetic(rs1, rs2, rd) \/ Timing!Ends(Timing!Read(rs1, rs2)) \/ Timing!Untimed
    PROVE  (\E regs \in SUBSET {rs1, rs2, rd} : Timing!Abstract!Simple(regs)) /\ PipeInv'
  <1> DEFINE n == Later(pending[rs1], pending[rs2])
             k == Later(n, pending[rd])
  <1>1. /\ n \in Nat /\ k \in Nat /\ Timing!Model \in Pipe
        /\ Timing!Abstract!Issue({rs1, rs2}) = num_total_cycles + n
        /\ Timing!Abstract!Issue({rs1, rs2, rd}) = num_total_cycles + k
        /\ Timing!Read(rs1, rs2) = Timing!advance(Timing!Model, n)
        /\ Timing!ReadAndWrite(rs1, rs2, rd) = Timing!advance(Timing!Model, k)
    BY IssueOfThree, ReadWaits
  <1> HIDE DEF n, k
  <1>2. CASE Timing!Arithmetic(rs1, rs2, rd)
    <2>1. Timing!Ends(Timing!advance(Timing!Model, k))
      BY <1>1, <1>2 DEF Timing!Arithmetic
    <2>2. Timing!Abstract!Simple({rs1, rs2, rd}) /\ PipeInv'
      BY <1>1, <2>1, WaitingStep
    <2> QED  BY <2>2
  <1>3. CASE Timing!Ends(Timing!Read(rs1, rs2))
    <2>1. Timing!Ends(Timing!advance(Timing!Model, n))
      BY <1>1, <1>3
    <2>2. Timing!Abstract!Simple({rs1, rs2}) /\ PipeInv'
      BY <1>1, <2>1, WaitingStep
    <2> QED  BY <2>2
  <1>4. CASE Timing!Untimed
    <2>1. Timing!Ends(Timing!advance(Timing!Model, 0))
      BY <1>1, <1>4, AdvanceByNone DEF Timing!Untimed
    <2>2. Timing!Abstract!Issue({}) = num_total_cycles + 0
      BY IssueIs
    <2>3. Timing!Abstract!Simple({}) /\ PipeInv'
      BY <2>1, <2>2, WaitingStep
    <2> QED  BY <2>3
  <1> QED  BY <1>2, <1>3, <1>4

LEMMA RestTellsTime ==
    ASSUME PipeInv, UNCHANGED timeVars
    PROVE  UNCHANGED Timing!Abstract!vars /\ PipeInv'
  <1>1. PipeInv'
    BY DEF timeVars, PipeInv, PipeTypeOK
  <1>2. /\ Ready' = Ready /\ Timing!Time(mult)' = Timing!Time(mult)
        /\ Timing!Time(div)' = Timing!Time(div)
        /\ Stored' = Stored /\ num_total_cycles' = num_total_cycles
    BY DEF timeVars, Ready, Stored, Timing!Time
  <1> QED  BY <1>1, <1>2 DEF Timing!Abstract!vars, Ready, Stored

LEMMA StepTellsTime ==
    ASSUME PipeInv, Timing!Next
    PROVE  Timing!Abstract!Next /\ PipeInv'
  <1>2. CASE Timing!Untimed
    <2>1. Zero \in Regs
      BY PipelineAssumption DEF PipelineAssumption
    <2>2. (\E regs \in SUBSET {Zero, Zero, Zero} : Timing!Abstract!Simple(regs)) /\ PipeInv'
      BY <1>2, <2>1, WaitingInstruction
    <2> QED  BY <2>1, <2>2 DEF Timing!Abstract!Next
  <1>3. ASSUME NEW rs1 \in Regs, NEW rs2 \in Regs, NEW rd \in Regs, Timing!Arithmetic(rs1, rs2, rd)
        PROVE  Timing!Abstract!Next /\ PipeInv'
    <2>1. (\E regs \in SUBSET {rs1, rs2, rd} : Timing!Abstract!Simple(regs)) /\ PipeInv'
      BY <1>3, WaitingInstruction
    <2> QED  BY <2>1 DEF Timing!Abstract!Next
  <1>4. ASSUME NEW rs1 \in Regs, NEW rs2 \in Regs, NEW rd \in Regs, Timing!Mult(rs1, rs2, rd)
        PROVE  Timing!Abstract!Next /\ PipeInv'
    <2>1. Timing!Abstract!Mult(rs1, rs2, rd) /\ PipeInv'
      BY <1>4, MultStep
    <2> QED  BY <2>1 DEF Timing!Abstract!Next
  <1>5. ASSUME NEW rs1 \in Regs, NEW rs2 \in Regs, NEW rd \in Regs, Timing!Div(rs1, rs2, rd)
        PROVE  Timing!Abstract!Next /\ PipeInv'
    <2>1. Timing!Abstract!Div(rs1, rs2, rd) /\ PipeInv'
      BY <1>5, DivStep
    <2> QED  BY <2>1 DEF Timing!Abstract!Next
  <1>6. ASSUME NEW rs1 \in Regs, NEW rd \in Regs, Timing!Csr(rs1, rd)
        PROVE  Timing!Abstract!Next /\ PipeInv'
    <2>1. CASE rd = Zero
      <3>1. Timing!Ends(Timing!Read(rs1, rs1))
        BY <1>6, <2>1 DEF Timing!Csr
      <3>2. (\E regs \in SUBSET {rs1, rs1, rd} : Timing!Abstract!Simple(regs)) /\ PipeInv'
        BY <3>1, WaitingInstruction
      <3> QED  BY <3>2 DEF Timing!Abstract!Next
    <2>2. CASE rd # Zero
      <3>1. Timing!Abstract!Csr(rs1, rd) /\ PipeInv'
        BY <1>6, <2>2, CsrStep
      <3> QED  BY <2>2, <3>1 DEF Timing!Abstract!Next
    <2> QED  BY <2>1, <2>2
  <1>7. ASSUME NEW rs1 \in Regs, NEW rd \in Regs, NEW range \in Ranges, Timing!Load(rs1, rd, range)
        PROVE  Timing!Abstract!Next /\ PipeInv'
    <2>1. Timing!Abstract!Load(rs1, rd, range) /\ PipeInv'
      BY <1>7, LoadStep
    <2> QED  BY <2>1 DEF Timing!Abstract!Next
  <1>8. ASSUME NEW rs1 \in Regs, NEW rs2 \in Regs, NEW range \in Ranges, Timing!Store(rs1, rs2, range)
        PROVE  Timing!Abstract!Next /\ PipeInv'
    <2>1. Timing!Abstract!Store(rs1, rs2, range) /\ PipeInv'
      BY <1>8, StoreStep
    <2> QED  BY <2>1 DEF Timing!Abstract!Next
  <1> QED  BY <1>2, <1>3, <1>4, <1>5, <1>6, <1>7, <1>8 DEF Timing!Next

(* For any registers, accesses and latencies, and any sequence of instructions: the
   counters that timing.h advances give every instruction the time that a scoreboard
   of absolute times gives it, and its assertions that no register and no unit has an
   operation under way when it gets another one never fail. *)
THEOREM PipelineKeepsTheTimes == Timing!Spec => Timing!KeepsTheTimes
  <1>1. Timing!Init => Timing!Abstract!Init /\ PipeInv
    BY InitTellsTime
  <1>2. PipeInv /\ [Timing!Next]_(Timing!vars)
          => [Timing!Abstract!Next]_(Timing!Abstract!vars) /\ PipeInv'
    BY RestTellsTime, StepTellsTime DEF Timing!vars, timeVars
  <1>3. PipeInv => ~failed
    BY DEF PipeInv
  <1> QED
    BY <1>1, <1>2, <1>3, PTL DEF Timing!Spec, Timing!KeepsTheTimes, Timing!Abstract!Spec
-----------------------------------------------------------------------------
(* The hart as a whole.                                                    *)

(* A hart whose behaviours are about its traps, its pipeline or one instruction is a
   trap unit, so that all that is proved of TrapUnit holds of it: the contexts kept by
   switch_to_trap_handler and return_from_trap_handler and the wakeups of wfi_event. *)
THEOREM HartIsTrapUnit == AllSpec => Spec
  <1>1. AllInit => Init
    BY DEF AllInit
  <1>2. [AllNext]_<<kind, input, vars, timeVars>> => [Next]_vars
    BY DEF AllNext
  <1> QED  BY <1>1, <1>2, PTL DEF AllSpec, Spec

(* The same of the hart: where the pipeline is what runs, each step is one of the
   scoreboard's, and elsewhere the counters of timing.h stand still. *)
THEOREM TimesAreKept == AllSpec => KeepsTheTimes
  <1>1. AllInit => Timing!Abstract!Init /\ PipeInv
    BY InitTellsTime DEF AllInit
  <1>2. PipeInv /\ [AllNext]_<<kind, input, vars, timeVars>>
          => [kind = "timing" => Timing!Abstract!Next]_<<timeVars>> /\ PipeInv'
    <2> SUFFICES ASSUME PipeInv, [AllNext]_<<kind, input, vars, timeVars>>
                 PROVE  [kind = "timing" => Timing!Abstract!Next]_<<timeVars>> /\ PipeInv'
      OBVIOUS
    <2>1. CASE UNCHANGED timeVars
      BY <2>1, RestTellsTime
    <2>2. CASE kind = "timing" /\ Timing!Next
      BY <2>2, StepTellsTime
    <2> QED  BY <2>1, <2>2 DEF AllNext, timeVars
  <1>3. PipeInv => ~failed
    BY DEF PipeInv
  <1> QED  BY <1>1, <1>2, <1>3, PTL DEF AllSpec, KeepsTheTimes
=============================================================================
