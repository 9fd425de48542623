----------------------------- MODULE HartsProof -----------------------------
(***************************************************************************)
(* Proofs about what happens to harts: about GdbServer for every number of *)
(* threads, all breakpoints and every sequence of packets, and about       *)
(* HartMemory for every set of harts, devices, addresses and values, every *)
(* window and every build option.                                          *)
(***************************************************************************)
EXTENDS MCHartsLive, Sequences, WellFoundedInduction, TLAPS

-----------------------------------------------------------------------------
(***************************************************************************)
(* The stub.                                                               *)
(***************************************************************************)

\* The harts that the loop of run_threads has come to, and how each came out of its run.
Checked == sel \ unchecked
Own(h) == IF h \in Checked THEN orig[h] ELSE status[h]

\* What a status says of the reason of a stop.
Tells(s, reason) == (s = "HitBreakpoint" => reason = "05") /\ (s = "Terminated" => reason = "03")

\* Where a hart is fits its status, and only a selected one is about to execute.
HartFits(h) ==
    /\ Tells(Own(h), why[h])
    /\ runner[h] \in {"woken", "exec", "step"} => Own(h) = "Runnable" /\ h \in sel
    /\ runner[h] \in {"loop", "stepped"} => status[h] = "Terminated" \/ (Own(h) = "Runnable" /\ h \in sel)
    /\ Own(h) = "HitBreakpoint" => status[h] = "HitBreakpoint" /\ runner[h] \in {"final", "waiting"}
    /\ Own(h) = "Terminated" => status[h] = "Terminated" /\ runner[h] \in {"loop", "stepped", "final", "dead"}
    /\ runner[h] = "waiting" => status[h] # "Terminated"
    /\ h \notin sel => status[h] # "HitBreakpoint"

\* A hart that was told to stop has stopped before the loop goes on.
CheckedFits(h) ==
    /\ status[h] # "Runnable"
    /\ orig[h] = "Runnable" => runner[h] \in {"waiting", "dead"} \/ (phase = "one" /\ h = Gdb!WaitsFor)

\* Whoever woke the server stopped on its own; or it had stopped before it was selected, and
\* the server waits for it in vain.
Cause(h) ==
    \/ Own(h) # "Runnable"
    \/ runner[h] = "waiting" /\ (h \in Checked => phase = "one" /\ h = Gdb!WaitsFor)

Stop == [thread : Gdb!Threads, reason : {"03", "05"}]

StubTypeOK ==
    /\ packet \in Commands \cup {None}
    /\ phase \in Gdb!Phase
    /\ actions \in Seq(Gdb!Action)
    /\ sel \in SUBSET Gdb!Threads /\ unchecked \in SUBSET sel
    /\ orig \in [Gdb!Threads -> Gdb!Status] /\ status \in [Gdb!Threads -> Gdb!Status]
    /\ runner \in [Gdb!Threads -> Gdb!Place]
    /\ why \in [Gdb!Threads -> {"03", "05", None}]
    /\ stopped \in Stop \cup {None} /\ answer \in Stop \cup {None}

\* The server, and what it knows of a stop.
ServerFits ==
    /\ phase \in {"idle", "next"} => sel = {}
    /\ phase # "idle" => packet # None /\ packet.name = "vCont"
    /\ packet # None => answer = None
    /\ phase = "all" => unchecked = sel
    /\ phase \in {"all", "one", "sweep"} => actions # <<>>
    /\ \A o \in Checked, h \in unchecked : o < h
    /\ phase = "next" /\ stopped = None => matched = {} /\ actions # <<>>
    /\ phase = "next" /\ stopped # None => stopped.reason = why[stopped.thread]
    /\ answer # None => answer.reason = why[answer.thread]

StubInv ==
    /\ StubTypeOK
    /\ \A h \in Gdb!Threads : HartFits(h)
    /\ \A h \in Checked : CheckedFits(h)
    /\ phase \in {"one", "sweep"} => \E h \in sel : Cause(h)
    /\ ServerFits

LEMMA ThreadTypes ==
    /\ N \in Nat /\ Gdb!Threads \subseteq Nat
    /\ Commands \subseteq Gdb!Command
    /\ None \notin Stop
  BY GdbAssumption DEF Gdb!GdbServerAssumption, Gdb!Threads, Stop

\* A set of threads has a first and a last one.
LEMMA LeastIsOne ==
    ASSUME NEW S \in SUBSET Nat, S # {}
    PROVE  Gdb!Least(S) \in S /\ \A o \in S : Gdb!Least(S) <= o
  <1> DEFINE Less == {p \in Nat \X Nat : p[1] < p[2]}
  <1>0. IsWellFoundedOn(Less, Nat)
    BY NatLessThanWellFounded DEF OpToRel
  <1>1. PICK h \in S : \A o \in S : ~(<<o, h>> \in Less)
    BY <1>0, WFMin, Zenon
  <1>2. ASSUME NEW o \in S
        PROVE  h <= o
    <2>1. o \in Nat /\ h \in Nat /\ <<o, h>> \notin Less
      BY <1>1
    <2>2. <<o, h>> \in Nat \X Nat /\ <<o, h>>[1] = o /\ <<o, h>>[2] = h
      BY <2>1
    <2>3. ~(o < h)
      BY <2>1, <2>2
    <2> QED
      BY <2>1, <2>3
  <1> HIDE DEF Less
  <1> QED
    BY <1>2 DEF Gdb!Least

LEMMA GreatestIsOne ==
    ASSUME NEW S \in SUBSET Gdb!Threads, S # {}
    PROVE  Gdb!Greatest(S) \in S /\ \A o \in S : Gdb!Greatest(S) >= o
  <1> DEFINE T == {N - h : h \in S}
  <1>1. T \in SUBSET Nat /\ T # {}
    <2>1. \A h \in S : N - h \in Nat
      BY ThreadTypes DEF Gdb!Threads
    <2> QED
      BY <2>1
  <1>2. Gdb!Least(T) \in T /\ \A o \in T : Gdb!Least(T) <= o
    BY <1>1, LeastIsOne
  <1>3. PICK h \in S : Gdb!Least(T) = N - h
    BY <1>2
  <1>4. \A o \in S : N - o \in T
    OBVIOUS
  <1>5. \A o \in S : N - h <= N - o
    BY <1>2, <1>3, <1>4
  <1>6. \A o \in S : h >= o
    BY <1>5, ThreadTypes DEF Gdb!Threads
  <1> QED
    BY <1>6 DEF Gdb!Greatest
-----------------------------------------------------------------------------
(* The harts.                                                              *)

\* A step of the runner of one hart.
RunnerMoves(h) ==
    /\ phase # "next" /\ runner[h] \notin {"waiting", "dead"}
    /\ UNCHANGED <<packet, actions, matched, single, sel, unchecked, orig, stopped, answer>>
    /\ status' = [status EXCEPT ![h] = status'[h]] /\ status'[h] \in Gdb!Status
    /\ runner' = [runner EXCEPT ![h] = runner'[h]] /\ runner'[h] \in Gdb!Place
    /\ why' = [why EXCEPT ![h] = why'[h]] /\ why'[h] \in {"03", "05", None}

\* It may be the one that wakes the server.
WakesServer(h) ==
    /\ phase' = "sweep" /\ runner'[h] \in {"waiting", "dead"}
    /\ (phase = "all" /\ h \in sel) \/ (phase = "one" /\ h = Gdb!WaitsFor)
    /\ status'[h] = "Runnable" => runner'[h] = "waiting"

LEMMA RunnerKeeps ==
    ASSUME StubInv, NEW h \in Gdb!Threads, RunnerMoves(h), phase' = phase \/ WakesServer(h),
           HartFits(h)',
           h \in Checked => status'[h] # "Runnable",
           Own(h) # "Runnable" => Own(h)' # "Runnable",
           h \notin sel => why'[h] = why[h]
    PROVE  StubInv'
  <1>1. StubTypeOK /\ ServerFits /\ (\A o \in Gdb!Threads : HartFits(o)) /\ (\A o \in Checked : CheckedFits(o))
        /\ (phase \in {"one", "sweep"} => \E o \in sel : Cause(o))
    BY DEF StubInv
  <1>0. /\ phase # "next" /\ runner[h] \notin {"waiting", "dead"}
        /\ packet' = packet /\ actions' = actions /\ matched' = matched /\ single' = single /\ sel' = sel
        /\ unchecked' = unchecked /\ orig' = orig /\ stopped' = stopped /\ answer' = answer
        /\ status' = [status EXCEPT ![h] = status'[h]] /\ status'[h] \in Gdb!Status
        /\ runner' = [runner EXCEPT ![h] = runner'[h]] /\ runner'[h] \in Gdb!Place
        /\ why' = [why EXCEPT ![h] = why'[h]] /\ why'[h] \in {"03", "05", None}
    BY DEF RunnerMoves
  <1>00. phase' = phase \/ (/\ phase' = "sweep" /\ runner'[h] \in {"waiting", "dead"}
                            /\ (phase = "all" /\ h \in sel) \/ (phase = "one" /\ h = Gdb!WaitsFor)
                            /\ status'[h] = "Runnable" => runner'[h] = "waiting")
    BY DEF WakesServer
  <1> USE <1>0, <1>00
  <1>2. /\ \A o \in Gdb!Threads \ {h} : status'[o] = status[o] /\ runner'[o] = runner[o] /\ why'[o] = why[o]
    BY <1>1 DEF StubTypeOK
  <1>3. Checked' = Checked /\ Gdb!WaitsFor' = Gdb!WaitsFor /\ Checked \subseteq Gdb!Threads
    BY <1>1 DEF Checked, Gdb!WaitsFor, StubTypeOK
  <1>4. phase' \in Gdb!Phase /\ phase' # "next" /\ (phase' = "idle" => phase = "idle") /\ (phase = "idle" => phase' = "idle")
        /\ (phase' = "all" => phase = "all") /\ (phase' = "one" => phase = "one")
    BY <1>1 DEF StubTypeOK, Gdb!Phase
  <1>5. StubTypeOK'
    BY <1>1, <1>4 DEF StubTypeOK
  <1>6. \A o \in Gdb!Threads \ {h} : Own(o)' = Own(o)
    BY <1>2, <1>3 DEF Own
  <1>7. \A o \in Gdb!Threads : HartFits(o)'
    <2> SUFFICES ASSUME NEW o \in Gdb!Threads, o # h
                 PROVE  HartFits(o)'
      OBVIOUS
    <2>1. Own(o)' = Own(o) /\ status'[o] = status[o] /\ runner'[o] = runner[o] /\ why'[o] = why[o] /\ sel' = sel
      BY <1>2, <1>6
    <2>2. HartFits(o)
      BY <1>1
    <2> QED
      BY <2>1, <2>2 DEF HartFits, Tells
  <1>8. \A o \in Checked' : CheckedFits(o)'
    <2> SUFFICES ASSUME NEW o \in Checked
                 PROVE  CheckedFits(o)'
      BY <1>3
    <2>1. CheckedFits(o) /\ orig' = orig /\ o \in Gdb!Threads
      BY <1>1, <1>3
    <2>2. CASE o = h
      BY <1>2, <1>3, <2>1, <2>2 DEF CheckedFits
    <2>3. CASE o # h
      <3>1. status'[o] = status[o] /\ runner'[o] = runner[o]
        BY <1>2, <2>1, <2>3
      <3>2. phase = "one" /\ o = Gdb!WaitsFor => phase' = "one"
        BY <1>1, <2>3
      <3> QED
        BY <1>3, <2>1, <3>1, <3>2 DEF CheckedFits
    <2> QED
      BY <2>2, <2>3
  <1>9. ASSUME phase' \in {"one", "sweep"}
        PROVE  \E o \in sel' : Cause(o)'
    <2>1. CASE phase \in {"one", "sweep"}
      <3>1. PICK o \in sel : Cause(o)
        BY <1>1, <2>1
      <3>2. o \in Gdb!Threads
        BY <1>1 DEF StubTypeOK
      <3>3. CASE o = h
        BY <3>1, <3>3 DEF Cause
      <3>4. CASE o # h
        <4>1. Own(o)' = Own(o) /\ runner'[o] = runner[o]
          BY <1>2, <1>6, <3>2, <3>4
        <4>2. phase = "one" /\ o = Gdb!WaitsFor => phase' = "one"
          BY <3>4
        <4> QED
          BY <1>3, <3>1, <4>1, <4>2 DEF Cause
      <3> QED
        BY <3>3, <3>4
    <2>2. CASE phase = "all"
      <3>1. h \in sel /\ (status'[h] = "Runnable" => runner'[h] = "waiting") /\ phase' = "sweep"
        BY <1>9, <2>2
      <3>2. Checked = {}
        BY <1>1, <2>2 DEF ServerFits, Checked
      <3>3. Own(h)' = status'[h]
        BY <1>2, <1>3, <3>2 DEF Own
      <3>4. Cause(h)'
        BY <1>2, <1>3, <3>1, <3>2, <3>3 DEF Cause
      <3> QED
        BY <3>1, <3>4
    <2> QED
      BY <1>1, <1>4, <1>9, <2>1, <2>2 DEF StubTypeOK, Gdb!Phase
  <1>10. ServerFits'
    <2>1. phase' \in {"idle", "next"} => sel' = {}
      BY <1>1, <1>4 DEF ServerFits
    <2>2. phase' # "idle" => packet' # None /\ packet'.name = "vCont"
      BY <1>1, <1>4 DEF ServerFits
    <2>3. packet' # None => answer' = None
      BY <1>1 DEF ServerFits
    <2>4. phase' = "all" => unchecked' = sel'
      BY <1>1, <1>4 DEF ServerFits
    <2>5. phase' \in {"all", "one", "sweep"} => actions' # <<>>
      BY <1>1, <1>4 DEF ServerFits
    <2>6. \A o \in Checked', q \in unchecked' : o < q
      BY <1>1, <1>3 DEF ServerFits
    <2>7. answer' # None => answer'.reason = why'[answer'.thread]
      <3> SUFFICES ASSUME answer # None
                   PROVE  answer.reason = why'[answer.thread]
        OBVIOUS
      <3>1. packet = None /\ phase = "idle" /\ sel = {} /\ answer.reason = why[answer.thread]
        BY <1>1 DEF ServerFits
      <3>2. answer \in Stop
        BY <1>1 DEF StubTypeOK
      <3>3. answer.thread \in Gdb!Threads
        BY <3>2 DEF Stop
      <3>4. why'[answer.thread] = why[answer.thread]
        BY <1>2, <3>1, <3>3
      <3> QED
        BY <3>1, <3>4
    <2> QED
      BY <1>4, <2>1, <2>2, <2>3, <2>4, <2>5, <2>6, <2>7 DEF ServerFits
  <1> QED
    BY <1>5, <1>7, <1>8, <1>9, <1>10 DEF StubInv

\* What the invariant says of the hart that takes a step.
LEMMA OneHart ==
    ASSUME StubInv, NEW h \in Gdb!Threads
    PROVE  /\ HartFits(h) /\ (h \in Checked => status[h] # "Runnable")
           /\ status[h] \in Gdb!Status /\ runner[h] \in Gdb!Place /\ why[h] \in {"03", "05", None}
           /\ status = [status EXCEPT ![h] = status[h]] /\ why = [why EXCEPT ![h] = why[h]]
           /\ h \notin sel => Own(h) = status[h]
  <1>1. StubTypeOK /\ HartFits(h) /\ (h \in Checked => CheckedFits(h))
    BY DEF StubInv
  <1>2. h \notin sel => Own(h) = status[h]
    BY DEF Own, Checked
  <1> QED
    BY <1>1, <1>2 DEF StubTypeOK, CheckedFits

LEMMA WakeStep ==
    ASSUME StubInv, NEW h \in Gdb!Threads, Gdb!Runner(h), Gdb!Wake(h)
    PROVE  StubInv'
  <1>1. /\ HartFits(h) /\ (h \in Checked => status[h] # "Runnable")
        /\ status[h] \in Gdb!Status /\ runner[h] \in Gdb!Place /\ why[h] \in {"03", "05", None}
        /\ status = [status EXCEPT ![h] = status[h]] /\ why = [why EXCEPT ![h] = why[h]]
        /\ h \notin sel => Own(h) = status[h]
    BY OneHart
  <1>2. /\ phase # "next"
        /\ UNCHANGED <<packet, actions, matched, single, sel, unchecked, orig, stopped, answer>>
    BY DEF Gdb!Runner
  <1>3. /\ Own(h)' = (IF h \in Checked THEN orig[h] ELSE status'[h])
        /\ Own(h) = (IF h \in Checked THEN orig[h] ELSE status[h])
    BY <1>2 DEF Own, Checked
  <1>4. status \in [Gdb!Threads -> Gdb!Status] /\ runner \in [Gdb!Threads -> Gdb!Place] /\ why \in [Gdb!Threads -> {"03", "05", None}]
        /\ phase \in Gdb!Phase
    BY DEF StubInv, StubTypeOK
  <1>5. runner[h] = "woken" /\ Own(h) = "Runnable" /\ h \in sel
    BY <1>1 DEF Gdb!Wake, HartFits
  <1>6. CASE Gdb!BreaksAt(h) /\ single
    <2>1. /\ status' = [status EXCEPT ![h] = "HitBreakpoint"] /\ runner' = [runner EXCEPT ![h] = "waiting"]
          /\ why' = [why EXCEPT ![h] = "05"]
      <3>1. Gdb!HitsBreakpoint(h) /\ Gdb!StopEvent(h)
        BY <1>6 DEF Gdb!Wake
      <3>2. status' = [status EXCEPT ![h] = "HitBreakpoint"] /\ why' = [why EXCEPT ![h] = "05"]
        BY <3>1 DEF Gdb!HitsBreakpoint
      <3>3. status'[h] = "HitBreakpoint"
        BY <1>4, <3>2
      <3> QED
        BY <3>1, <3>2, <3>3 DEF Gdb!StopEvent
    <2>2. status'[h] = "HitBreakpoint" /\ runner'[h] = "waiting" /\ why'[h] = "05" /\ "HitBreakpoint" \in Gdb!Status /\ "waiting" \in Gdb!Place
          /\ sel' = sel
      BY <1>1, <1>2, <1>4, <2>1 DEF Gdb!Status, Gdb!Place
    <2>3. phase' = phase \/ WakesServer(h)
      BY <1>5, <1>6, <2>2 DEF Gdb!Wake, Gdb!StopEvent, WakesServer
    <2>4. RunnerMoves(h)
      BY <1>1, <1>2, <1>5, <2>1, <2>2 DEF RunnerMoves
    <2>5. HartFits(h)'
      BY <1>1, <1>3, <1>5, <1>6, <2>2 DEF HartFits, Tells
    <2>6. (h \in Checked => status'[h] # "Runnable") /\ (Own(h) # "Runnable" => Own(h)' # "Runnable")
          /\ (h \notin sel => why'[h] = why[h])
      BY <1>1, <1>3, <1>5, <1>6, <2>2 DEF HartFits
    <2> QED
      BY <2>3, <2>4, <2>5, <2>6, RunnerKeeps
  <1>7. CASE Gdb!BreaksAt(h) /\ ~single
    <2>1. /\ status' = [status EXCEPT ![h] = "HitBreakpoint"] /\ runner' = [runner EXCEPT ![h] = "final"]
          /\ why' = [why EXCEPT ![h] = "05"]
      BY <1>1, <1>5, <1>7 DEF Gdb!Wake, Gdb!HitsBreakpoint
    <2>2. status'[h] = "HitBreakpoint" /\ runner'[h] = "final" /\ why'[h] = "05" /\ "HitBreakpoint" \in Gdb!Status /\ "final" \in Gdb!Place
          /\ sel' = sel
      BY <1>1, <1>2, <1>4, <2>1 DEF Gdb!Status, Gdb!Place
    <2>3. phase' = phase \/ WakesServer(h)
      BY <1>5, <1>7, <2>2 DEF Gdb!Wake
    <2>4. RunnerMoves(h)
      BY <1>1, <1>2, <1>5, <2>1, <2>2 DEF RunnerMoves
    <2>5. HartFits(h)'
      BY <1>1, <1>3, <1>5, <1>7, <2>2 DEF HartFits, Tells
    <2>6. (h \in Checked => status'[h] # "Runnable") /\ (Own(h) # "Runnable" => Own(h)' # "Runnable")
          /\ (h \notin sel => why'[h] = why[h])
      BY <1>1, <1>3, <1>5, <1>7, <2>2 DEF HartFits
    <2> QED
      BY <2>3, <2>4, <2>5, <2>6, RunnerKeeps
  <1>8. CASE ~Gdb!BreaksAt(h)
    <2>1. /\ status' = [status EXCEPT ![h] = status[h]] /\ runner' = [runner EXCEPT ![h] = (IF single THEN "step" ELSE "exec")]
          /\ why' = [why EXCEPT ![h] = None]
      BY <1>1, <1>5, <1>8 DEF Gdb!Wake
    <2>2. status'[h] = status[h] /\ runner'[h] = (IF single THEN "step" ELSE "exec") /\ why'[h] = None /\ status[h] \in Gdb!Status /\ (IF single THEN "step" ELSE "exec") \in Gdb!Place
          /\ sel' = sel
      BY <1>1, <1>2, <1>4, <2>1 DEF Gdb!Status, Gdb!Place
    <2>3. phase' = phase \/ WakesServer(h)
      BY <1>5, <1>8, <2>2 DEF Gdb!Wake
    <2>4. RunnerMoves(h)
      BY <1>1, <1>2, <1>5, <2>1, <2>2 DEF RunnerMoves
    <2>5. HartFits(h)'
      BY <1>1, <1>3, <1>5, <1>8, <2>2 DEF HartFits, Tells
    <2>6. (h \in Checked => status'[h] # "Runnable") /\ (Own(h) # "Runnable" => Own(h)' # "Runnable")
          /\ (h \notin sel => why'[h] = why[h])
      BY <1>1, <1>3, <1>5, <1>8, <2>2 DEF HartFits
    <2> QED
      BY <2>3, <2>4, <2>5, <2>6, RunnerKeeps
  <1> QED
    BY <1>6, <1>7, <1>8


LEMMA ExecuteStep ==
    ASSUME StubInv, ~Ebreaks, NEW h \in Gdb!Threads, Gdb!Runner(h), Gdb!Execute(h)
    PROVE  StubInv'
  <1>1. /\ HartFits(h) /\ (h \in Checked => status[h] # "Runnable")
        /\ status[h] \in Gdb!Status /\ runner[h] \in Gdb!Place /\ why[h] \in {"03", "05", None}
        /\ status = [status EXCEPT ![h] = status[h]] /\ why = [why EXCEPT ![h] = why[h]]
        /\ h \notin sel => Own(h) = status[h]
    BY OneHart
  <1>2. /\ phase # "next"
        /\ UNCHANGED <<packet, actions, matched, single, sel, unchecked, orig, stopped, answer>>
    BY DEF Gdb!Runner
  <1>3. /\ Own(h)' = (IF h \in Checked THEN orig[h] ELSE status'[h])
        /\ Own(h) = (IF h \in Checked THEN orig[h] ELSE status[h])
    BY <1>2 DEF Own, Checked
  <1>4. status \in [Gdb!Threads -> Gdb!Status] /\ runner \in [Gdb!Threads -> Gdb!Place] /\ why \in [Gdb!Threads -> {"03", "05", None}]
        /\ phase \in Gdb!Phase
    BY DEF StubInv, StubTypeOK
  <1>5. runner[h] \in {"exec", "step"} /\ Own(h) = "Runnable" /\ h \in sel
    BY <1>1 DEF Gdb!Execute, HartFits
  <1> DEFINE r == IF runner[h] = "exec" THEN "loop" ELSE "stepped"
  <1>6. CASE UNCHANGED <<status, why>>
    <2>1. /\ status' = [status EXCEPT ![h] = status[h]] /\ runner' = [runner EXCEPT ![h] = r]
          /\ why' = [why EXCEPT ![h] = why[h]]
      BY <1>1, <1>5, <1>6 DEF Gdb!Execute
    <2>2. status'[h] = status[h] /\ runner'[h] = r /\ why'[h] = why[h] /\ status[h] \in Gdb!Status /\ r \in Gdb!Place
          /\ sel' = sel
      BY <1>1, <1>2, <1>4, <2>1 DEF Gdb!Status, Gdb!Place
    <2>3. phase' = phase \/ WakesServer(h)
      BY <1>5, <1>6, <2>2 DEF Gdb!Execute
    <2>4. RunnerMoves(h)
      BY <1>1, <1>2, <1>5, <2>1, <2>2 DEF RunnerMoves
    <2>5. HartFits(h)'
      BY <1>1, <1>3, <1>5, <1>6, <2>2 DEF HartFits, Tells
    <2>6. (h \in Checked => status'[h] # "Runnable") /\ (Own(h) # "Runnable" => Own(h)' # "Runnable")
          /\ (h \notin sel => why'[h] = why[h])
      BY <1>1, <1>3, <1>5, <1>6, <2>2 DEF HartFits
    <2> QED
      BY <2>3, <2>4, <2>5, <2>6, RunnerKeeps
  <1>7. CASE status' = [status EXCEPT ![h] = "Terminated"] /\ why' = [why EXCEPT ![h] = "03"]
    <2>1. /\ status' = [status EXCEPT ![h] = "Terminated"] /\ runner' = [runner EXCEPT ![h] = r]
          /\ why' = [why EXCEPT ![h] = "03"]
      BY <1>1, <1>5, <1>7 DEF Gdb!Execute
    <2>2. status'[h] = "Terminated" /\ runner'[h] = r /\ why'[h] = "03" /\ "Terminated" \in Gdb!Status /\ r \in Gdb!Place
          /\ sel' = sel
      BY <1>1, <1>2, <1>4, <2>1 DEF Gdb!Status, Gdb!Place
    <2>3. phase' = phase \/ WakesServer(h)
      BY <1>5, <1>7, <2>2 DEF Gdb!Execute
    <2>4. RunnerMoves(h)
      BY <1>1, <1>2, <1>5, <2>1, <2>2 DEF RunnerMoves
    <2>5. HartFits(h)'
      BY <1>1, <1>3, <1>5, <1>7, <2>2 DEF HartFits, Tells
    <2>6. (h \in Checked => status'[h] # "Runnable") /\ (Own(h) # "Runnable" => Own(h)' # "Runnable")
          /\ (h \notin sel => why'[h] = why[h])
      BY <1>1, <1>3, <1>5, <1>7, <2>2 DEF HartFits
    <2> QED
      BY <2>3, <2>4, <2>5, <2>6, RunnerKeeps
  <1> QED
    BY <1>6, <1>7 DEF Gdb!Execute


LEMMA LoopStep ==
    ASSUME StubInv, NEW h \in Gdb!Threads, Gdb!Runner(h), Gdb!Loop(h)
    PROVE  StubInv'
  <1>1. /\ HartFits(h) /\ (h \in Checked => status[h] # "Runnable")
        /\ status[h] \in Gdb!Status /\ runner[h] \in Gdb!Place /\ why[h] \in {"03", "05", None}
        /\ status = [status EXCEPT ![h] = status[h]] /\ why = [why EXCEPT ![h] = why[h]]
        /\ h \notin sel => Own(h) = status[h]
    BY OneHart
  <1>2. /\ phase # "next"
        /\ UNCHANGED <<packet, actions, matched, single, sel, unchecked, orig, stopped, answer>>
    BY DEF Gdb!Runner
  <1>3. /\ Own(h)' = (IF h \in Checked THEN orig[h] ELSE status'[h])
        /\ Own(h) = (IF h \in Checked THEN orig[h] ELSE status[h])
    BY <1>2 DEF Own, Checked
  <1>4. status \in [Gdb!Threads -> Gdb!Status] /\ runner \in [Gdb!Threads -> Gdb!Place] /\ why \in [Gdb!Threads -> {"03", "05", None}]
        /\ phase \in Gdb!Phase
    BY DEF StubInv, StubTypeOK
  <1>5. runner[h] = "loop" /\ (status[h] = "Terminated" \/ (Own(h) = "Runnable" /\ h \in sel))
    BY <1>1 DEF Gdb!Loop, HartFits
  <1>6. CASE status[h] # "Runnable"
    <2>1. /\ status' = [status EXCEPT ![h] = status[h]] /\ runner' = [runner EXCEPT ![h] = "final"]
          /\ why' = [why EXCEPT ![h] = why[h]]
      BY <1>1, <1>5, <1>6 DEF Gdb!Loop
    <2>2. status'[h] = status[h] /\ runner'[h] = "final" /\ why'[h] = why[h] /\ status[h] \in Gdb!Status /\ "final" \in Gdb!Place
          /\ sel' = sel
      BY <1>1, <1>2, <1>4, <2>1 DEF Gdb!Status, Gdb!Place
    <2>3. phase' = phase \/ WakesServer(h)
      BY <1>5, <1>6, <2>2 DEF Gdb!Loop
    <2>4. RunnerMoves(h)
      BY <1>1, <1>2, <1>5, <2>1, <2>2 DEF RunnerMoves
    <2>5. HartFits(h)'
      BY <1>1, <1>3, <1>5, <1>6, <2>2 DEF HartFits, Tells
    <2>6. (h \in Checked => status'[h] # "Runnable") /\ (Own(h) # "Runnable" => Own(h)' # "Runnable")
          /\ (h \notin sel => why'[h] = why[h])
      BY <1>1, <1>3, <1>5, <1>6, <2>2 DEF HartFits
    <2> QED
      BY <2>3, <2>4, <2>5, <2>6, RunnerKeeps
  <1>7. CASE status[h] = "Runnable" /\ Gdb!BreaksAt(h)
    <2>1. /\ status' = [status EXCEPT ![h] = "HitBreakpoint"] /\ runner' = [runner EXCEPT ![h] = "final"]
          /\ why' = [why EXCEPT ![h] = "05"]
      BY <1>1, <1>5, <1>7 DEF Gdb!Loop, Gdb!HitsBreakpoint
    <2>2. status'[h] = "HitBreakpoint" /\ runner'[h] = "final" /\ why'[h] = "05" /\ "HitBreakpoint" \in Gdb!Status /\ "final" \in Gdb!Place
          /\ sel' = sel
      BY <1>1, <1>2, <1>4, <2>1 DEF Gdb!Status, Gdb!Place
    <2>3. phase' = phase \/ WakesServer(h)
      BY <1>5, <1>7, <2>2 DEF Gdb!Loop
    <2>4. RunnerMoves(h)
      BY <1>1, <1>2, <1>5, <2>1, <2>2 DEF RunnerMoves
    <2>5. HartFits(h)'
      BY <1>1, <1>3, <1>5, <1>7, <2>2 DEF HartFits, Tells
    <2>6. (h \in Checked => status'[h] # "Runnable") /\ (Own(h) # "Runnable" => Own(h)' # "Runnable")
          /\ (h \notin sel => why'[h] = why[h])
      BY <1>1, <1>3, <1>5, <1>7, <2>2 DEF HartFits
    <2> QED
      BY <2>3, <2>4, <2>5, <2>6, RunnerKeeps
  <1>8. CASE status[h] = "Runnable" /\ ~Gdb!BreaksAt(h)
    <2>1. /\ status' = [status EXCEPT ![h] = status[h]] /\ runner' = [runner EXCEPT ![h] = "exec"]
          /\ why' = [why EXCEPT ![h] = why[h]]
      BY <1>1, <1>5, <1>8 DEF Gdb!Loop
    <2>2. status'[h] = status[h] /\ runner'[h] = "exec" /\ why'[h] = why[h] /\ status[h] \in Gdb!Status /\ "exec" \in Gdb!Place
          /\ sel' = sel
      BY <1>1, <1>2, <1>4, <2>1 DEF Gdb!Status, Gdb!Place
    <2>3. phase' = phase \/ WakesServer(h)
      BY <1>5, <1>8, <2>2 DEF Gdb!Loop
    <2>4. RunnerMoves(h)
      BY <1>1, <1>2, <1>5, <2>1, <2>2 DEF RunnerMoves
    <2>5. HartFits(h)'
      BY <1>1, <1>3, <1>5, <1>8, <2>2 DEF HartFits, Tells
    <2>6. (h \in Checked => status'[h] # "Runnable") /\ (Own(h) # "Runnable" => Own(h)' # "Runnable")
          /\ (h \notin sel => why'[h] = why[h])
      BY <1>1, <1>3, <1>5, <1>8, <2>2 DEF HartFits
    <2> QED
      BY <2>3, <2>4, <2>5, <2>6, RunnerKeeps
  <1> QED
    BY <1>6, <1>7, <1>8


LEMMA FinalStep ==
    ASSUME StubInv, NEW h \in Gdb!Threads, Gdb!Runner(h), Gdb!Final(h)
    PROVE  StubInv'
  <1>1. /\ HartFits(h) /\ (h \in Checked => status[h] # "Runnable")
        /\ status[h] \in Gdb!Status /\ runner[h] \in Gdb!Place /\ why[h] \in {"03", "05", None}
        /\ status = [status EXCEPT ![h] = status[h]] /\ why = [why EXCEPT ![h] = why[h]]
        /\ h \notin sel => Own(h) = status[h]
    BY OneHart
  <1>2. /\ phase # "next"
        /\ UNCHANGED <<packet, actions, matched, single, sel, unchecked, orig, stopped, answer>>
    BY DEF Gdb!Runner
  <1>3. /\ Own(h)' = (IF h \in Checked THEN orig[h] ELSE status'[h])
        /\ Own(h) = (IF h \in Checked THEN orig[h] ELSE status[h])
    BY <1>2 DEF Own, Checked
  <1>4. status \in [Gdb!Threads -> Gdb!Status] /\ runner \in [Gdb!Threads -> Gdb!Place] /\ why \in [Gdb!Threads -> {"03", "05", None}]
        /\ phase \in Gdb!Phase
    BY DEF StubInv, StubTypeOK
  <1>5. runner[h] = "final"
    BY DEF Gdb!Final
  <1>6. CASE status[h] = "Terminated"
    <2>1. /\ status' = [status EXCEPT ![h] = status[h]] /\ runner' = [runner EXCEPT ![h] = "dead"]
          /\ why' = [why EXCEPT ![h] = why[h]]
      BY <1>1, <1>5, <1>6 DEF Gdb!Final, Gdb!StopEvent
    <2>2. status'[h] = status[h] /\ runner'[h] = "dead" /\ why'[h] = why[h] /\ status[h] \in Gdb!Status /\ "dead" \in Gdb!Place
          /\ sel' = sel
      BY <1>1, <1>2, <1>4, <2>1 DEF Gdb!Status, Gdb!Place
    <2>3. phase' = phase \/ WakesServer(h)
      BY <1>5, <1>6, <2>2 DEF Gdb!Final, Gdb!StopEvent, WakesServer
    <2>4. RunnerMoves(h)
      BY <1>1, <1>2, <1>5, <2>1, <2>2 DEF RunnerMoves
    <2>5. HartFits(h)'
      BY <1>1, <1>3, <1>5, <1>6, <2>2 DEF HartFits, Tells
    <2>6. (h \in Checked => status'[h] # "Runnable") /\ (Own(h) # "Runnable" => Own(h)' # "Runnable")
          /\ (h \notin sel => why'[h] = why[h])
      BY <1>1, <1>3, <1>5, <1>6, <2>2 DEF HartFits
    <2> QED
      BY <2>3, <2>4, <2>5, <2>6, RunnerKeeps
  <1>7. CASE status[h] # "Terminated"
    <2>1. /\ status' = [status EXCEPT ![h] = status[h]] /\ runner' = [runner EXCEPT ![h] = "waiting"]
          /\ why' = [why EXCEPT ![h] = why[h]]
      BY <1>1, <1>5, <1>7 DEF Gdb!Final, Gdb!StopEvent
    <2>2. status'[h] = status[h] /\ runner'[h] = "waiting" /\ why'[h] = why[h] /\ status[h] \in Gdb!Status /\ "waiting" \in Gdb!Place
          /\ sel' = sel
      BY <1>1, <1>2, <1>4, <2>1 DEF Gdb!Status, Gdb!Place
    <2>3. phase' = phase \/ WakesServer(h)
      BY <1>5, <1>7, <2>2 DEF Gdb!Final, Gdb!StopEvent, WakesServer
    <2>4. RunnerMoves(h)
      BY <1>1, <1>2, <1>5, <2>1, <2>2 DEF RunnerMoves
    <2>5. HartFits(h)'
      BY <1>1, <1>3, <1>5, <1>7, <2>2 DEF HartFits, Tells
    <2>6. (h \in Checked => status'[h] # "Runnable") /\ (Own(h) # "Runnable" => Own(h)' # "Runnable")
          /\ (h \notin sel => why'[h] = why[h])
      BY <1>1, <1>3, <1>5, <1>7, <2>2 DEF HartFits
    <2> QED
      BY <2>3, <2>4, <2>5, <2>6, RunnerKeeps
  <1> QED
    BY <1>6, <1>7


LEMMA SteppedStep ==
    ASSUME StubInv, NEW h \in Gdb!Threads, Gdb!Runner(h), Gdb!Stepped(h)
    PROVE  StubInv'
  <1>1. /\ HartFits(h) /\ (h \in Checked => status[h] # "Runnable")
        /\ status[h] \in Gdb!Status /\ runner[h] \in Gdb!Place /\ why[h] \in {"03", "05", None}
        /\ status = [status EXCEPT ![h] = status[h]] /\ why = [why EXCEPT ![h] = why[h]]
        /\ h \notin sel => Own(h) = status[h]
    BY OneHart
  <1>2. /\ phase # "next"
        /\ UNCHANGED <<packet, actions, matched, single, sel, unchecked, orig, stopped, answer>>
    BY DEF Gdb!Runner
  <1>3. /\ Own(h)' = (IF h \in Checked THEN orig[h] ELSE status'[h])
        /\ Own(h) = (IF h \in Checked THEN orig[h] ELSE status[h])
    BY <1>2 DEF Own, Checked
  <1>4. status \in [Gdb!Threads -> Gdb!Status] /\ runner \in [Gdb!Threads -> Gdb!Place] /\ why \in [Gdb!Threads -> {"03", "05", None}]
        /\ phase \in Gdb!Phase
    BY DEF StubInv, StubTypeOK
  <1>5. runner[h] = "stepped" /\ (status[h] = "Terminated" \/ (Own(h) = "Runnable" /\ h \in sel))
    BY <1>1 DEF Gdb!Stepped, HartFits
  <1>6. CASE status[h] = "Runnable"
    <2>1. /\ status' = [status EXCEPT ![h] = "HitBreakpoint"] /\ runner' = [runner EXCEPT ![h] = "waiting"]
          /\ why' = [why EXCEPT ![h] = "05"]
      BY <1>1, <1>5, <1>6 DEF Gdb!Stepped, Gdb!HitsBreakpoint, Gdb!StopEvent
    <2>2. status'[h] = "HitBreakpoint" /\ runner'[h] = "waiting" /\ why'[h] = "05" /\ "HitBreakpoint" \in Gdb!Status /\ "waiting" \in Gdb!Place
          /\ sel' = sel
      BY <1>1, <1>2, <1>4, <2>1 DEF Gdb!Status, Gdb!Place
    <2>3. phase' = phase \/ WakesServer(h)
      BY <1>5, <1>6, <2>2 DEF Gdb!Stepped, Gdb!StopEvent, WakesServer
    <2>4. RunnerMoves(h)
      BY <1>1, <1>2, <1>5, <2>1, <2>2 DEF RunnerMoves
    <2>5. HartFits(h)'
      BY <1>1, <1>3, <1>5, <1>6, <2>2 DEF HartFits, Tells
    <2>6. (h \in Checked => status'[h] # "Runnable") /\ (Own(h) # "Runnable" => Own(h)' # "Runnable")
          /\ (h \notin sel => why'[h] = why[h])
      BY <1>1, <1>3, <1>5, <1>6, <2>2 DEF HartFits
    <2> QED
      BY <2>3, <2>4, <2>5, <2>6, RunnerKeeps
  <1>7. CASE status[h] = "Terminated"
    <2>1. /\ status' = [status EXCEPT ![h] = status[h]] /\ runner' = [runner EXCEPT ![h] = "dead"]
          /\ why' = [why EXCEPT ![h] = why[h]]
      BY <1>1, <1>5, <1>7 DEF Gdb!Stepped, Gdb!StopEvent
    <2>2. status'[h] = status[h] /\ runner'[h] = "dead" /\ why'[h] = why[h] /\ status[h] \in Gdb!Status /\ "dead" \in Gdb!Place
          /\ sel' = sel
      BY <1>1, <1>2, <1>4, <2>1 DEF Gdb!Status, Gdb!Place
    <2>3. phase' = phase \/ WakesServer(h)
      BY <1>5, <1>7, <2>2 DEF Gdb!Stepped, Gdb!StopEvent, WakesServer
    <2>4. RunnerMoves(h)
      BY <1>1, <1>2, <1>5, <2>1, <2>2 DEF RunnerMoves
    <2>5. HartFits(h)'
      BY <1>1, <1>3, <1>5, <1>7, <2>2 DEF HartFits, Tells
    <2>6. (h \in Checked => status'[h] # "Runnable") /\ (Own(h) # "Runnable" => Own(h)' # "Runnable")
          /\ (h \notin sel => why'[h] = why[h])
      BY <1>1, <1>3, <1>5, <1>7, <2>2 DEF HartFits
    <2> QED
      BY <2>3, <2>4, <2>5, <2>6, RunnerKeeps
  <1>8. CASE status[h] = "HitBreakpoint"
    <2>1. /\ status' = [status EXCEPT ![h] = status[h]] /\ runner' = [runner EXCEPT ![h] = "waiting"]
          /\ why' = [why EXCEPT ![h] = why[h]]
      BY <1>1, <1>5, <1>8 DEF Gdb!Stepped, Gdb!StopEvent
    <2>2. status'[h] = status[h] /\ runner'[h] = "waiting" /\ why'[h] = why[h] /\ status[h] \in Gdb!Status /\ "waiting" \in Gdb!Place
          /\ sel' = sel
      BY <1>1, <1>2, <1>4, <2>1 DEF Gdb!Status, Gdb!Place
    <2>3. phase' = phase \/ WakesServer(h)
      BY <1>5, <1>8, <2>2 DEF Gdb!Stepped, Gdb!StopEvent, WakesServer
    <2>4. RunnerMoves(h)
      BY <1>1, <1>2, <1>5, <2>1, <2>2 DEF RunnerMoves
    <2>5. HartFits(h)'
      BY <1>1, <1>3, <1>5, <1>8, <2>2 DEF HartFits, Tells
    <2>6. (h \in Checked => status'[h] # "Runnable") /\ (Own(h) # "Runnable" => Own(h)' # "Runnable")
          /\ (h \notin sel => why'[h] = why[h])
      BY <1>1, <1>3, <1>5, <1>8, <2>2 DEF HartFits
    <2> QED
      BY <2>3, <2>4, <2>5, <2>6, RunnerKeeps
  <1> QED
    BY <1>1, <1>6, <1>7, <1>8 DEF Gdb!Status
-----------------------------------------------------------------------------
(* The server.                                                             *)

LEMMA StubParts ==
    ASSUME StubInv
    PROVE  /\ StubTypeOK /\ ServerFits
           /\ \A h \in Gdb!Threads : HartFits(h)
           /\ \A h \in Checked : CheckedFits(h)
           /\ phase \in {"one", "sweep"} => \E h \in sel : Cause(h)
  BY DEF StubInv

\* No hart is selected before and after: what is known of the harts stays.
LEMMA NothingRuns ==
    ASSUME StubInv, phase \in {"idle", "next"}, phase' \in {"idle", "next"},
           UNCHANGED <<sel, unchecked, Gdb!guests>>
    PROVE  /\ \A h \in Gdb!Threads : HartFits(h)'
           /\ \A h \in Checked' : CheckedFits(h)'
           /\ phase' \in {"one", "sweep"} => \E h \in sel' : Cause(h)'
           /\ sel' = {} /\ unchecked' = {} /\ Checked' = {}
  <1>1. sel = {} /\ unchecked = {}
    BY StubParts DEF ServerFits, StubTypeOK
  <1>2. sel' = {} /\ unchecked' = {} /\ Checked' = {} /\ Checked = {} /\ status' = status /\ runner' = runner /\ why' = why
    BY <1>1 DEF Checked, Gdb!guests
  <1>3. \A h \in Gdb!Threads : HartFits(h)'
    <2> SUFFICES ASSUME NEW h \in Gdb!Threads
                 PROVE  HartFits(h)'
      OBVIOUS
    <2>1. HartFits(h) /\ Own(h)' = Own(h)
      BY <1>2, StubParts DEF Own
    <2> QED
      BY <1>1, <1>2, <2>1 DEF HartFits
  <1> QED
    BY <1>2, <1>3

LEMMA ReceiveStep ==
    ASSUME StubInv, Gdb!Receive
    PROVE  StubInv'
  <1>1. /\ phase = "idle" /\ phase' = "idle" /\ packet' \in Commands /\ answer' = None
        /\ UNCHANGED <<actions, matched, sel, unchecked, orig, stopped, Gdb!guests, status, runner, why>>
    BY DEF Gdb!Receive, Gdb!guests
  <1>2. StubTypeOK'
    BY <1>1, StubParts DEF StubTypeOK
  <1>3. ServerFits'
    <2>1. sel' = {} /\ unchecked' = {} /\ Checked' = {}
      BY <1>1, NothingRuns
    <2> QED
      BY <1>1, <2>1 DEF ServerFits
  <1> QED
    BY <1>1, <1>2, <1>3, NothingRuns DEF StubInv

LEMMA HandleStep ==
    ASSUME StubInv, Gdb!Handle
    PROVE  StubInv'
  <1>1. /\ phase = "idle" /\ phase' = "idle" /\ packet' = None
        /\ UNCHANGED <<actions, matched, sel, unchecked, orig, stopped, answer, Gdb!guests, status, runner, why>>
    BY DEF Gdb!Handle, Gdb!guests
  <1>2. StubTypeOK'
    BY <1>1, StubParts DEF StubTypeOK
  <1>3. ServerFits'
    <2>1. sel' = {} /\ unchecked' = {} /\ Checked' = {}
      BY <1>1, NothingRuns
    <2>2. answer # None => answer.reason = why[answer.thread]
      BY StubParts DEF ServerFits
    <2> QED
      BY <1>1, <2>1, <2>2 DEF ServerFits
  <1> QED
    BY <1>1, <1>2, <1>3, NothingRuns DEF StubInv

LEMMA VContStep ==
    ASSUME StubInv, Gdb!VCont
    PROVE  StubInv'
  <1>1. /\ phase = "idle" /\ phase' = "next" /\ packet # None /\ packet.name = "vCont" /\ packet' = packet
        /\ actions' = packet.actions /\ matched' = {} /\ stopped' = None
        /\ UNCHANGED <<sel, unchecked, orig, answer, Gdb!guests, status, runner, why>>
    BY DEF Gdb!VCont, Gdb!guests
  <1>2. packet.actions \in Seq(Gdb!Action) /\ packet.actions # <<>>
    <2>1. packet \in Gdb!Command
      BY <1>1, StubParts, ThreadTypes DEF StubTypeOK
    <2> QED
      BY <1>1, <2>1 DEF Gdb!Command
  <1>3. StubTypeOK'
    BY <1>1, <1>2, StubParts DEF StubTypeOK, Gdb!Phase
  <1>4. ServerFits'
    <2>1. sel' = {} /\ unchecked' = {} /\ Checked' = {}
      BY <1>1, NothingRuns
    <2>2. answer' = None
      BY <1>1, StubParts DEF ServerFits
    <2> QED
      BY <1>1, <1>2, <2>1, <2>2 DEF ServerFits
  <1> QED
    BY <1>1, <1>3, <1>4, NothingRuns DEF StubInv

LEMMA NextAction ==
    ASSUME StubInv, actions # <<>>
    PROVE  /\ Gdb!GetThreads(Head(actions).tid) \in SUBSET Gdb!Threads
           /\ Tail(actions) \in Seq(Gdb!Action)
           /\ Head(actions).single \in BOOLEAN
  <1>1. actions \in Seq(Gdb!Action)
    BY StubParts DEF StubTypeOK
  <1>2. Head(actions) \in Gdb!Action /\ Tail(actions) \in Seq(Gdb!Action)
    BY <1>1
  <1>3. 1 \in Gdb!Threads
    BY GdbAssumption DEF Gdb!GdbServerAssumption, Gdb!Threads
  <1> QED
    BY <1>2, <1>3 DEF Gdb!GetThreads, Gdb!Action

LEMMA RunThreadsStep ==
    ASSUME StubInv, Gdb!RunThreads
    PROVE  StubInv'
  <1>1. /\ phase = "next" /\ phase' = "all" /\ actions # <<>> /\ Gdb!Run # {}
        /\ sel' = Gdb!Run /\ unchecked' = Gdb!Run
        /\ runner' = [h \in Gdb!Threads |-> IF h \in Gdb!Run /\ runner[h] = "waiting" THEN "woken" ELSE runner[h]]
        /\ packet' = packet /\ actions' = actions /\ orig' = orig /\ stopped' = stopped
        /\ answer' = answer /\ status' = status /\ why' = why
    BY DEF Gdb!RunThreads
  <1>2. Gdb!Run \in SUBSET Gdb!Threads
    BY <1>1, NextAction DEF Gdb!Run
  <1>3. sel = {} /\ unchecked = {} /\ Checked = {} /\ Checked' = {}
    BY <1>1, StubParts DEF ServerFits, StubTypeOK, Checked
  <1>4. StubTypeOK'
    <2>1. runner' \in [Gdb!Threads -> Gdb!Place]
      BY <1>1, StubParts DEF StubTypeOK, Gdb!Place
    <2> QED
      BY <1>1, <1>2, <2>1, StubParts DEF StubTypeOK, Gdb!Phase
  <1>5. ASSUME NEW h \in Gdb!Threads
        PROVE  HartFits(h)'
    <2>1. HartFits(h) /\ status[h] \in Gdb!Status
      BY StubParts DEF StubTypeOK
    <2>2. Own(h)' = status[h] /\ Own(h) = status[h]
      BY <1>1, <1>3 DEF Own
    <2>3. runner'[h] = IF h \in Gdb!Run /\ runner[h] = "waiting" THEN "woken" ELSE runner[h]
      BY <1>1
    <2>4. runner[h] \notin {"woken", "exec", "step"} /\ status[h] # "HitBreakpoint"
      BY <1>3, <2>1 DEF HartFits
    <2>5. CASE h \in Gdb!Run /\ runner[h] = "waiting"
      <3>1. runner'[h] = "woken" /\ status[h] = "Runnable" /\ h \in sel'
        BY <1>1, <2>1, <2>3, <2>4, <2>5 DEF HartFits, Gdb!Status
      <3> QED
        BY <1>1, <2>2, <3>1 DEF HartFits, Tells
    <2>6. CASE ~(h \in Gdb!Run /\ runner[h] = "waiting")
      BY <1>1, <1>3, <2>1, <2>2, <2>3, <2>4, <2>6 DEF HartFits
    <2> QED
      BY <2>5, <2>6
  <1>6. ServerFits'
    <2>1. packet # None /\ packet.name = "vCont" /\ answer = None
      BY <1>1, StubParts DEF ServerFits
    <2> QED
      BY <1>1, <1>3, <2>1 DEF ServerFits
  <1> QED
    BY <1>1, <1>3, <1>4, <1>5, <1>6 DEF StubInv

LEMMA SkipActionStep ==
    ASSUME StubInv, Gdb!SkipAction
    PROVE  StubInv'
  <1>1. /\ phase = "next" /\ actions # <<>> /\ Gdb!Run = {}
        /\ UNCHANGED <<sel, unchecked, orig, stopped, answer, Gdb!guests, status, runner, why>>
    BY DEF Gdb!SkipAction, Gdb!guests
  <1>2. /\ packet # None /\ packet.name = "vCont" /\ answer = None
        /\ stopped = None => matched = {}
        /\ stopped # None => stopped.reason = why[stopped.thread]
    BY <1>1, StubParts DEF ServerFits
  <1>3. CASE Gdb!GetThreads(Head(actions).tid) = {}
    <2>1. phase' = "idle" /\ packet' = None /\ actions' = actions /\ matched' = matched
      BY <1>3 DEF Gdb!SkipAction
    <2>2. StubTypeOK'
      BY <1>1, <2>1, StubParts DEF StubTypeOK, Gdb!Phase
    <2>3. sel' = {} /\ unchecked' = {} /\ Checked' = {}
      BY <1>1, <2>1, NothingRuns
    <2>4. ServerFits'
      BY <1>1, <1>2, <2>1, <2>3 DEF ServerFits
    <2> QED
      BY <1>1, <2>1, <2>2, <2>4, NothingRuns DEF StubInv
  <1>4. CASE Gdb!GetThreads(Head(actions).tid) # {}
    <2>1. phase' = "next" /\ packet' = packet /\ actions' = Tail(actions)
      BY <1>1, <1>4 DEF Gdb!SkipAction
    <2>2. stopped # None
      BY <1>1, <1>2, <1>4 DEF Gdb!Run
    <2>3. StubTypeOK'
      BY <1>1, <2>1, StubParts, NextAction DEF StubTypeOK, Gdb!Phase
    <2>4. sel' = {} /\ unchecked' = {} /\ Checked' = {}
      BY <1>1, <2>1, NothingRuns
    <2>5. ServerFits'
      BY <1>1, <1>2, <2>1, <2>2, <2>4 DEF ServerFits
    <2> QED
      BY <1>1, <2>1, <2>3, <2>5, NothingRuns DEF StubInv
  <1> QED
    BY <1>3, <1>4

LEMMA ReplyStep ==
    ASSUME StubInv, Gdb!Reply
    PROVE  StubInv'
  <1>1. /\ phase = "next" /\ actions = <<>> /\ answer' = stopped /\ phase' = "idle" /\ packet' = None
        /\ UNCHANGED <<actions, matched, sel, unchecked, orig, stopped, Gdb!guests, status, runner, why>>
    BY DEF Gdb!Reply, Gdb!guests
  <1>2. stopped # None => stopped.reason = why[stopped.thread]
    BY <1>1, StubParts DEF ServerFits
  <1>3. StubTypeOK'
    BY <1>1, StubParts DEF StubTypeOK, Gdb!Phase
  <1>4. ServerFits'
    <2>1. sel' = {} /\ unchecked' = {} /\ Checked' = {}
      BY <1>1, NothingRuns
    <2> QED
      BY <1>1, <1>2, <2>1 DEF ServerFits
  <1> QED
    BY <1>1, <1>3, <1>4, NothingRuns DEF StubInv

LEMMA StopHartStep ==
    ASSUME StubInv, Gdb!StopHart
    PROVE  StubInv'
  <1> DEFINE h == Gdb!Least(Gdb!Running)
  <1>1. /\ phase = "sweep" /\ Gdb!Running # {} /\ phase' = "one"
        /\ orig' = [o \in Gdb!Threads |-> IF o \in unchecked /\ o <= h THEN status[o] ELSE orig[o]]
        /\ status' = [status EXCEPT ![h] = "HitBreakpoint"]
        /\ unchecked' = {o \in unchecked : o > h}
        /\ packet' = packet /\ actions' = actions /\ matched' = matched /\ sel' = sel /\ stopped' = stopped
        /\ answer' = answer /\ runner' = runner /\ why' = why
    BY DEF Gdb!StopHart
  <1>2. /\ sel \in SUBSET Gdb!Threads /\ unchecked \in SUBSET sel /\ Gdb!Threads \in SUBSET Nat
        /\ orig \in [Gdb!Threads -> Gdb!Status] /\ status \in [Gdb!Threads -> Gdb!Status]
    BY StubParts, ThreadTypes DEF StubTypeOK
  <1>3. h \in Gdb!Running /\ \A o \in Gdb!Running : h <= o
    <2>1. Gdb!Running \in SUBSET Nat
      BY <1>2 DEF Gdb!Running
    <2> QED
      BY <1>1, <2>1, LeastIsOne
  <1> HIDE DEF h
  <1>4. h \in unchecked /\ h \in Gdb!Threads /\ h \in sel /\ status[h] = "Runnable" /\ h \notin Checked
    BY <1>2, <1>3 DEF Gdb!Running, Checked
  <1>5. /\ status'[h] = "HitBreakpoint"
        /\ \A o \in Gdb!Threads \ {h} : status'[o] = status[o]
    BY <1>1, <1>2, <1>4
  <1>6. ASSUME NEW o \in sel
        PROVE  /\ o \in Nat /\ o \in Gdb!Threads
               /\ o \in Checked' <=> o \in Checked \/ o <= h
               /\ o \in Checked => o < h
    <2>1. o \in Nat /\ o \in Gdb!Threads /\ h \in Nat
      BY <1>2, <1>4
    <2>2. o \in Checked => o < h
      BY <1>4, StubParts DEF ServerFits
    <2> QED
      BY <1>1, <2>1, <2>2 DEF Checked
  <1>7. ASSUME NEW o \in Gdb!Threads
        PROVE  Own(o)' = Own(o)
    <2>1. CASE o \notin sel
      BY <1>1, <1>4, <1>5, <2>1 DEF Own, Checked
    <2>2. CASE o \in Checked
      BY <1>1, <1>2, <1>6, <2>2 DEF Own, Checked
    <2>3. CASE o \in unchecked /\ o <= h
      BY <1>1, <1>2, <1>6, <2>3 DEF Own, Checked
    <2>4. CASE o \in unchecked /\ ~(o <= h)
      BY <1>1, <1>2, <1>4, <1>5, <1>6, <2>4 DEF Own, Checked
    <2> QED
      BY <2>1, <2>2, <2>3, <2>4 DEF Checked
  <1>8. StubTypeOK'
    <2>1. orig' \in [Gdb!Threads -> Gdb!Status]
      BY <1>1, <1>2
    <2>2. status' \in [Gdb!Threads -> Gdb!Status]
      BY <1>1, <1>2 DEF Gdb!Status
    <2>3. unchecked' \in SUBSET sel'
      BY <1>1, <1>2
    <2> QED
      BY <1>1, <2>1, <2>2, <2>3, StubParts DEF StubTypeOK, Gdb!Phase
  <1>9. ASSUME NEW o \in Gdb!Threads
        PROVE  HartFits(o)'
    <2>1. HartFits(o) /\ Own(o)' = Own(o)
      BY <1>7, StubParts
    <2>2. CASE o = h
      <3>1. Own(h) = "Runnable"
        BY <1>4 DEF Own
      <3> QED
        BY <1>1, <1>4, <1>5, <2>1, <2>2, <3>1 DEF HartFits
    <2>3. CASE o # h
      BY <1>1, <1>5, <2>1, <2>3 DEF HartFits
    <2> QED
      BY <2>2, <2>3
  <1>10. h \in Checked' /\ Gdb!WaitsFor' = h
    <2> DEFINE stoppedOnes == {o \in sel : o \notin unchecked'}
    <2>1. h \in Checked' /\ stoppedOnes = Checked'
      BY <1>1, <1>4, <1>6 DEF Checked
    <2>2. \A o \in stoppedOnes : o <= h
      BY <1>1, <1>2, <1>4, <1>6, <2>1
    <2>3. stoppedOnes \in SUBSET Gdb!Threads /\ stoppedOnes # {}
      BY <1>2, <2>1
    <2>4. Gdb!WaitsFor' = Gdb!Greatest(stoppedOnes)
      BY <1>1 DEF Gdb!WaitsFor
    <2> HIDE DEF stoppedOnes
    <2>5. Gdb!Greatest(stoppedOnes) \in stoppedOnes /\ Gdb!Greatest(stoppedOnes) >= h
      BY <2>1, <2>3, GreatestIsOne
    <2>6. Gdb!Greatest(stoppedOnes) <= h
      BY <2>2, <2>5
    <2>7. Gdb!Greatest(stoppedOnes) \in Nat /\ h \in Nat
      BY <1>2, <1>4, <2>3, <2>5
    <2> QED
      BY <2>1, <2>4, <2>5, <2>6, <2>7
  <1>11. ASSUME NEW o \in Checked'
         PROVE  CheckedFits(o)'
    <2>1. o \in sel /\ o \in Gdb!Threads
      BY <1>1, <1>2 DEF Checked
    <2>2. CASE o = h
      BY <1>1, <1>5, <1>10, <2>2 DEF CheckedFits
    <2>3. CASE o # h /\ o \in Checked
      <3>1. CheckedFits(o) /\ orig'[o] = orig[o] /\ status'[o] = status[o]
        BY <1>1, <1>5, <2>1, <2>3, StubParts DEF Checked
      <3> QED
        BY <1>1, <3>1 DEF CheckedFits
    <2>4. CASE o # h /\ o \notin Checked
      <3>1. o \in unchecked /\ o <= h /\ o \in Nat /\ h \in Nat
        BY <1>2, <1>4, <1>6, <2>1, <2>4 DEF Checked
      <3>2. o \notin Gdb!Running
        BY <1>3, <2>4, <3>1
      <3>3. status[o] # "Runnable" /\ status'[o] = status[o] /\ orig'[o] = status[o]
        BY <1>1, <1>5, <2>1, <2>4, <3>1, <3>2 DEF Gdb!Running
      <3> QED
        BY <3>3 DEF CheckedFits
    <2> QED
      BY <2>2, <2>3, <2>4
  <1>12. \E o \in sel' : Cause(o)'
    <2>1. PICK o \in sel : Cause(o)
      BY <1>1, StubParts
    <2>2. Own(o)' = Own(o) /\ runner' = runner
      BY <1>1, <1>6, <1>7
    <2>3. CASE Own(o) # "Runnable"
      BY <1>1, <2>2, <2>3 DEF Cause
    <2>4. CASE Own(o) = "Runnable"
      <3>1. runner[o] = "waiting" /\ o \notin Checked
        BY <1>1, <2>1, <2>4 DEF Cause
      <3>2. o \in Gdb!Running
        BY <2>4, <3>1 DEF Own, Checked, Gdb!Running
      <3>3. h <= o /\ h \in Nat /\ o \in Nat
        BY <1>2, <1>3, <1>4, <1>6, <3>2
      <3>4. o \in Checked' => o = h
        BY <1>6, <3>1, <3>3
      <3> QED
        BY <1>1, <1>10, <2>2, <3>1, <3>4 DEF Cause
    <2> QED
      BY <2>3, <2>4
  <1>13. ServerFits'
    <2>1. packet # None /\ packet.name = "vCont" /\ answer = None /\ actions # <<>>
      BY <1>1, StubParts DEF ServerFits
    <2>2. ASSUME NEW o \in Checked', NEW q \in unchecked'
          PROVE  o < q
      <3>1. o \in sel /\ q > h /\ q \in Nat /\ h \in Nat
        BY <1>1, <1>2, <1>4 DEF Checked
      <3>2. o <= h /\ o \in Nat
        BY <1>6, <3>1
      <3> QED
        BY <3>1, <3>2
    <2> QED
      BY <1>1, <2>1, <2>2 DEF ServerFits
  <1> QED
    BY <1>8, <1>9, <1>11, <1>12, <1>13 DEF StubInv

LEMMA CollectStep ==
    ASSUME StubInv, Gdb!Collect
    PROVE  StubInv'
  <1>1. /\ phase = "sweep" /\ Gdb!Running = {} /\ phase' = "next" /\ stopped' = Gdb!StopReply
        /\ status' = [h \in Gdb!Threads |->
                IF h \notin sel THEN status[h]
                ELSE IF Gdb!Restored[h] = "HitBreakpoint" THEN "Runnable" ELSE Gdb!Restored[h]]
        /\ actions' = Tail(actions) /\ sel' = {} /\ unchecked' = {}
        /\ orig' = [h \in Gdb!Threads |-> "Runnable"]
        /\ packet' = packet /\ answer' = answer /\ runner' = runner /\ why' = why
    BY DEF Gdb!Collect
  <1>2. /\ sel \in SUBSET Gdb!Threads /\ unchecked \in SUBSET sel /\ orig \in [Gdb!Threads -> Gdb!Status]
        /\ status \in [Gdb!Threads -> Gdb!Status] /\ runner \in [Gdb!Threads -> Gdb!Place]
    BY StubParts DEF StubTypeOK
  <1>3. \A h \in sel : Gdb!Restored[h] = Own(h) /\ Own(h) \in Gdb!Status
    BY <1>2 DEF Gdb!Restored, Own, Checked
  <1>4. ASSUME NEW h \in sel
        PROVE  h \in unchecked => Own(h) # "Runnable"
    BY <1>1 DEF Gdb!Running, Own, Checked
  <1>5. ASSUME NEW h \in sel, Own(h) = "Runnable"
        PROVE  runner[h] \in {"waiting", "dead"}
    <2>1. h \in Checked /\ orig[h] = "Runnable"
      BY <1>4, <1>5 DEF Checked, Own
    <2>2. CheckedFits(h)
      BY <2>1, StubParts
    <2> QED
      BY <1>1, <2>1, <2>2 DEF CheckedFits
  <1>6. Checked' = {} /\ \A h : Own(h)' = status'[h]
    BY <1>1 DEF Own, Checked
  <1>7. ASSUME NEW h \in Gdb!Threads
        PROVE  HartFits(h)' /\ status'[h] \in Gdb!Status
    <2>1. HartFits(h) /\ runner'[h] = runner[h] /\ why'[h] = why[h] /\ Own(h)' = status'[h]
      BY <1>1, <1>6, StubParts
    <2>2. CASE h \notin sel
      <3>1. status'[h] = status[h] /\ Own(h) = status[h]
        BY <1>1, <2>2 DEF Own, Checked
      <3> QED
        BY <1>1, <1>2, <2>1, <2>2, <3>1 DEF HartFits
    <2>3. CASE h \in sel
      <3>1. status'[h] = (IF Own(h) = "Terminated" THEN "Terminated" ELSE "Runnable") /\ Own(h) \in Gdb!Status
        BY <1>1, <1>3, <2>3 DEF Gdb!Status
      <3>2. Own(h) = "Runnable" => runner[h] \in {"waiting", "dead"}
        BY <1>5, <2>3
      <3>3. CASE Own(h) = "Terminated"
        BY <2>1, <3>1, <3>3 DEF HartFits, Tells, Gdb!Status
      <3>4. CASE Own(h) = "HitBreakpoint"
        BY <2>1, <3>1, <3>4 DEF HartFits, Tells, Gdb!Status
      <3>5. CASE Own(h) = "Runnable"
        BY <2>1, <3>1, <3>2, <3>5 DEF HartFits, Tells, Gdb!Status
      <3> QED
        BY <3>1, <3>3, <3>4, <3>5 DEF Gdb!Status
    <2> QED
      BY <2>2, <2>3
  <1>8. stopped' \in Stop /\ stopped'.reason = why[stopped'.thread]
    <2> DEFINE stops == {h \in sel : Gdb!Restored[h] # "Runnable"}
    <2>1. stops # {}
      <3>1. PICK h \in sel : Cause(h)
        BY <1>1, StubParts
      <3>2. Own(h) # "Runnable"
        BY <1>1, <1>4, <3>1 DEF Cause, Checked
      <3> QED
        BY <1>3, <3>2
    <2>2. stops \in SUBSET Gdb!Threads
      BY <1>2
    <2>3. Gdb!Greatest(stops) \in stops
      BY <2>1, <2>2, GreatestIsOne
    <2>4. stopped' = [thread |-> Gdb!Greatest(stops),
                      reason |-> IF Gdb!Restored[Gdb!Greatest(stops)] = "HitBreakpoint" THEN "05" ELSE "03"]
      BY <1>1, <2>1 DEF Gdb!StopReply
    <2>5. PICK h \in Gdb!Threads : h = Gdb!Greatest(stops) /\ h \in sel /\ Own(h) # "Runnable" /\ Gdb!Restored[h] = Own(h)
                               /\ Own(h) \in Gdb!Status
      BY <1>2, <1>3, <2>3
    <2>6. HartFits(h)
      BY StubParts
    <2> HIDE DEF stops
    <2>7. stopped' = [thread |-> h, reason |-> IF Own(h) = "HitBreakpoint" THEN "05" ELSE "03"]
      BY <2>4, <2>5
    <2> QED
      BY <2>5, <2>6, <2>7 DEF HartFits, Tells, Gdb!Status, Stop
  <1>9. /\ packet # None /\ packet.name = "vCont" /\ answer = None /\ actions # <<>>
    BY <1>1, StubParts DEF ServerFits
  <1>10. StubTypeOK'
    <2>1. status' \in [Gdb!Threads -> Gdb!Status]
      BY <1>1, <1>7
    <2>2. orig' \in [Gdb!Threads -> Gdb!Status]
      BY <1>1 DEF Gdb!Status
    <2>3. actions' \in Seq(Gdb!Action)
      BY <1>1, <1>9, NextAction
    <2> QED
      BY <1>1, <1>8, <2>1, <2>2, <2>3, StubParts DEF StubTypeOK, Gdb!Phase
  <1>11. ServerFits'
    <2>1. stopped' # None
      BY <1>8, ThreadTypes
    <2> QED
      BY <1>1, <1>6, <1>8, <1>9, <2>1 DEF ServerFits
  <1> QED
    BY <1>1, <1>6, <1>7, <1>10, <1>11 DEF StubInv

LEMMA StubStarts ==
    ASSUME Gdb!Init
    PROVE  StubInv
  <1>1. /\ packet = None /\ phase = "idle" /\ actions = <<>> /\ sel = {} /\ unchecked = {}
        /\ orig = [h \in Gdb!Threads |-> "Runnable"] /\ stopped = None /\ answer = None
        /\ status = [h \in Gdb!Threads |-> "Runnable"] /\ runner = [h \in Gdb!Threads |-> "waiting"]
        /\ why = [h \in Gdb!Threads |-> None]
    BY DEF Gdb!Init
  <1>2. StubTypeOK
    BY <1>1 DEF StubTypeOK, Gdb!Phase, Gdb!Status, Gdb!Place
  <1>3. Checked = {}
    BY <1>1 DEF Checked
  <1>4. \A h \in Gdb!Threads : HartFits(h)
    BY <1>1, <1>3 DEF HartFits, Tells, Own
  <1>5. ServerFits
    BY <1>1, <1>3 DEF ServerFits
  <1> QED
    BY <1>1, <1>2, <1>3, <1>4, <1>5 DEF StubInv

LEMMA StubGoesOn ==
    ASSUME StubInv, ~Ebreaks, [Gdb!Next]_(Gdb!vars)
    PROVE  StubInv'
  <1>1. CASE Gdb!Receive
    BY <1>1, ReceiveStep
  <1>2. CASE Gdb!Server
    BY <1>2, HandleStep, VContStep, RunThreadsStep, SkipActionStep, StopHartStep, CollectStep, ReplyStep DEF Gdb!Server
  <1>3. ASSUME NEW h \in Gdb!Threads, Gdb!Runner(h)
        PROVE  StubInv'
    <2>1. Gdb!Wake(h) \/ Gdb!Execute(h) \/ Gdb!Loop(h) \/ Gdb!Final(h) \/ Gdb!Stepped(h)
      BY <1>3 DEF Gdb!Runner
    <2> QED
      BY <1>3, <2>1, WakeStep, ExecuteStep, LoopStep, FinalStep, SteppedStep
  <1>4. CASE UNCHANGED Gdb!vars
    <2>1. UNCHANGED <<packet, phase, actions, matched, single, sel, unchecked, orig, stopped, answer,
                      status, runner, address, why>>
      BY <1>4 DEF Gdb!vars, Gdb!server, Gdb!guests
    <2>2. Checked' = Checked /\ Gdb!WaitsFor' = Gdb!WaitsFor /\ \A h : Own(h)' = Own(h)
      BY <2>1 DEF Checked, Gdb!WaitsFor, Own
    <2>3. StubTypeOK'
      BY <2>1, StubParts DEF StubTypeOK
    <2>4. ServerFits'
      BY <2>1, <2>2, StubParts DEF ServerFits
    <2>5. \A h \in Gdb!Threads : HartFits(h)'
      BY <2>1, <2>2, StubParts DEF HartFits
    <2>6. \A h \in Checked' : CheckedFits(h)'
      BY <2>1, <2>2, StubParts DEF CheckedFits
    <2>7. phase' \in {"one", "sweep"} => \E h \in sel' : Cause(h)'
      BY <2>1, <2>2, StubParts DEF Cause
    <2> QED
      BY <2>3, <2>4, <2>5, <2>6, <2>7 DEF StubInv
  <1> QED
    BY <1>1, <1>2, <1>3, <1>4 DEF Gdb!Next

LEMMA StubMeans ==
    ASSUME StubInv
    PROVE  /\ Gdb!ReportsARealStop
           /\ [Gdb!Next]_(Gdb!vars) => [\A h \in Gdb!Threads : runner[h] \in {"exec", "step"} /\ runner'[h] # runner[h]
                                                => h \in sel]_(Gdb!vars)
  <1>1. Gdb!ReportsARealStop
    BY StubParts DEF Gdb!ReportsARealStop, ServerFits
  <1>2. \A h \in Gdb!Threads : runner[h] \in {"exec", "step"} => h \in sel
    BY StubParts DEF HartFits
  <1> QED
    BY <1>1, <1>2

\* A step of the debugged platform is one of its stub.
LEMMA LiveIsStub ==
    /\ LiveInit => Gdb!Init
    /\ [LiveNext]_liveVars => [Gdb!Next]_(Gdb!vars)
<1>1. UNCHANGED gdbVars => UNCHANGED Gdb!vars
  BY DEF gdbVars, Gdb!vars, Gdb!server, Gdb!guests
<1> QED
  BY <1>1 DEF LiveInit, LiveNext, liveVars

LEMMA StubInvariance == ~Ebreaks => (LiveSpec => []StubInv)
<1> SUFFICES ASSUME ~Ebreaks PROVE LiveSpec => []StubInv
  OBVIOUS
<1>1. StubInv /\ [LiveNext]_liveVars => StubInv'
  BY LiveIsStub, StubGoesOn
<1>2. LiveInit => StubInv
  BY LiveIsStub, StubStarts
<1> QED
  BY <1>1, <1>2, PTL DEF LiveSpec

(* The debugger is told of a thread that really stopped, and why: run_threads puts
   back the statuses it overwrote to stop the others (gdb_server.cpp), and vCont
   (handler.cpp) has a thread to report whenever it comes to its reply.  The guests
   have no EBREAK of their own. *)
THEOREM StopsAreReported == ~Ebreaks => (LiveSpec => []ReportsARealStop)
<1>1. StubInv => ReportsARealStop
  BY StubMeans DEF ReportsARealStop
<1> QED
  BY StubInvariance, <1>1, PTL

(* All-stop mode: no hart executes an instruction outside the action that started
   it, since run_threads waits for every hart it has told to stop.  A guest's own
   EBREAK would leave its hart in the last sync of run() when it is collected. *)
THEOREM AllStopHolds == ~Ebreaks => (LiveSpec => AllStop)
<1>1. StubInv /\ [LiveNext]_liveVars
      => [\A h \in Gdb!Threads : runner[h] \in {"exec", "step"} /\ runner'[h] # runner[h]
                                => h \in sel]_(Gdb!vars)
  BY LiveIsStub, StubMeans
<1> QED
  BY StubInvariance, <1>1, PTL DEF LiveSpec, AllStop, Gdb!AllStop
-----------------------------------------------------------------------------
(***************************************************************************)
(* The memory.                                                             *)
(***************************************************************************)

\* The points of an instruction at which its address has been computed.
AddressPoints == {"lock", "check", "xload", "load", "xstore", "store"}

\* Which operations can be at which point.
PointsOK ==
    \A h \in Harts :
        /\ pc[h] \in AddressPoints => addr[h] \in Addrs
        /\ pc[h] = "lock" => op[h] \in {"LR", "AMO"}

\* A lock without a window belongs to an LR or AMO that is still executing,
\* and a window that an instruction leaves open has already lost a step.
LockInv ==
    \A h \in Harts :
        /\ IsLockedBy(h) /\ lr_sc_counter[h] = 0 =>
              /\ op[h] \in {"LR", "AMO"}
              /\ pc[h] \in {"xload", "load", "xstore", "store", "trap"}
        /\ pc[h] = "fetch" => lr_sc_counter[h] < Window

\* Whoever holds the lock goes on executing, unless a target or a debugger stops it.
RunsWithLock == ~Debug /\ ~TargetsWait /\ locked => running = owner

IInv == TypeOK /\ PointsOK /\ LockInv /\ NoLostWakeup /\ RunsWithLock

LEMMA ConstantTypes ==
    /\ Window \in Nat /\ Window > 0
    /\ Quantum \in Nat /\ Quantum > 0
    /\ Modify \in [Vals -> Vals]
  BY HartMemoryAssumption DEF HartMemoryAssumption

LEMMA PointsInPCs ==
    /\ "fetch" \in PCs /\ "sleep" \in PCs /\ "finish" \in PCs /\ LoadPoint \in PCs
    /\ StorePoint \in PCs /\ "load" \in PCs /\ "store" \in PCs /\ "trap" \in PCs
    /\ \A o : FirstPoint(o) \in PCs
  BY DEF PCs, LoadPoint, StorePoint, FirstPoint

USE ConstantTypes, PointsInPCs

-----------------------------------------------------------------------------
LEMMA InitIInv == Init => IInv
<1> SUFFICES ASSUME Init PROVE IInv
  OBVIOUS
<1> USE DEF Init, LockInit
<1>1. LockTypeOK
  BY DEF LockTypeOK
<1>2. TypeOK
  BY <1>1 DEF TypeOK
<1>3. PointsOK
  BY DEF PointsOK, AddressPoints
<1>4. LockInv
  BY DEF LockInv, IsLockedBy
<1>5. NoLostWakeup
  BY DEF NoLostWakeup
<1>6. RunsWithLock
  BY DEF RunsWithLock
<1> QED
  BY <1>2, <1>3, <1>4, <1>5, <1>6 DEF IInv

\* The steps that only the lock and the program counter take.
LEMMA LockTypes ==
    ASSUME LockTypeOK, NEW h \in Harts
    PROVE  /\ Unlock(h) => LockTypeOK'
           /\ Lock(h) => LockTypeOK'
           /\ UNCHANGED lockVars => LockTypeOK'
  BY DEF LockTypeOK, Unlock, Lock, IsLockedBy, lockVars

LEMMA GotoType ==
    ASSUME pc \in [Harts -> PCs], NEW h \in Harts, NEW p \in PCs, Goto(h, p)
    PROVE  pc' \in [Harts -> PCs]
  BY DEF Goto

LEMMA TranslateLock ==
    ASSUME NEW h \in Harts, NEW p, NEW q, NEW bits, Translate(h, p, q, bits)
    PROVE  UNCHANGED lockVars \/ Unlock(h)
<1>1. CASE UNCHANGED <<lockVars, pte>>
  BY <1>1
<1>2. CASE ~UNCHANGED <<lockVars, pte>>
  BY <1>2 DEF Translate
<1> QED
  BY <1>1, <1>2

\* A fetch touches the lock and the page table only in its walk.
LEMMA FetchLock ==
    ASSUME NEW h \in Harts, Fetch(h)
    PROVE  /\ UNCHANGED <<lockVars, pte>> \/ (FetchSetsAccessed(h) /\ Unlock(h))
           /\ IsLockedBy(h)' => IsLockedBy(h)
<1>1. UNCHANGED <<lockVars, pte>> \/ (FetchSetsAccessed(h) /\ Unlock(h))
  BY DEF Fetch, FetchSetsAccessed
<1>2. IsLockedBy(h)' => IsLockedBy(h)
  BY <1>1 DEF Unlock, lockVars, IsLockedBy
<1> QED
  BY <1>1, <1>2

\* Every step leaves the variables in their types.
LEMMA NextTypeOK == TypeOK /\ PointsOK /\ [Next]_vars => TypeOK'
<1> SUFFICES ASSUME TypeOK, PointsOK, [Next]_vars PROVE TypeOK'
  OBVIOUS
<1> USE DEF TypeOK
<1>1. ASSUME NEW h \in Harts, HartStep(h) PROVE TypeOK'
  <2>1. CASE AwaitRights(h)
    BY <2>1 DEF AwaitRights, WaitLockEvent, LockTypeOK, hartVars
  <2>2. CASE Fetch(h)
    <3>1. LockTypeOK' /\ pc' \in [Harts -> PCs]
      BY <2>2, FetchLock, LockTypes, GotoType DEF Fetch
    <3>2. running' \in Harts \cup {NoOne, Aborted}
      BY <2>2 DEF Fetch, AfterBusAccess
    <3>3. op' \in [Harts -> MemoryOps \cup OtherOps \cup {None}]
      BY <2>2 DEF Fetch
    <3>4. addr' \in [Harts -> Addrs \cup {None}]
      BY <2>2 DEF Fetch
    <3>5. pte' \in [Addrs -> SUBSET {"A", "D"}]
      BY <2>2, FetchLock DEF FetchSetsAccessed
    <3> QED
      BY <2>2, <3>1, <3>2, <3>3, <3>4, <3>5 DEF Fetch
  <2>3. CASE TakeLock(h)
    <3>1. LockTypeOK' /\ pc' \in [Harts -> PCs]
      BY <2>3, LockTypes, GotoType DEF TakeLock
    <3> QED
      BY <2>3, <3>1 DEF TakeLock, At, PointsOK, AddressPoints
  <2>4. ASSUME NEW p \in {"xload", "xstore"}, NEW q \in PCs, NEW bits \in SUBSET {"A", "D"},
               Translate(h, p, q, bits)
        PROVE  TypeOK'
    <3>1. pc' \in [Harts -> PCs]
      BY <2>4, GotoType DEF Translate
    <3>2. LockTypeOK'
      BY <2>4, TranslateLock, LockTypes
    <3>3. pte' \in [Addrs -> SUBSET {"A", "D"}]
      <4>1. addr[h] \in Addrs
        BY <2>4 DEF Translate, At, PointsOK, AddressPoints
      <4>2. pte[addr[h]] \cup bits \in SUBSET {"A", "D"}
        BY <4>1
      <4>3. pte' = pte \/ pte' = [pte EXCEPT ![addr[h]] = @ \cup bits]
        BY <2>4 DEF Translate
      <4> QED
        BY <4>2, <4>3
    <3> QED
      BY <2>4, <3>1, <3>2, <3>3 DEF Translate, AfterBusAccess
  <2>5. CASE TranslateLoad(h) \/ TranslateStore(h)
    BY <2>4, <2>5 DEF TranslateLoad, TranslateStore
  <2>6. CASE AssertFails(h)
    BY <2>6 DEF AssertFails, LockTypeOK, lockVars, hartVars
  <2>7. CASE Load(h)
    <3>1. LockTypeOK' /\ pc' \in [Harts -> PCs]
      BY <2>7, LockTypes, GotoType DEF Load
    <3>2. data' \in [Harts -> Vals] /\ lr_sc_counter' \in [Harts -> 0 .. Window]
      BY <2>7 DEF Load, At, PointsOK, AddressPoints
    <3> QED
      BY <2>7, <3>1, <3>2 DEF Load, AfterBusAccess
  <2>8. CASE StoreWord(h)
    <3>1. LockTypeOK' /\ pc' \in [Harts -> PCs]
      BY <2>8, LockTypes, GotoType DEF StoreWord, StoreSucceeds, lockVars
    <3>2. mem' \in [Addrs -> Vals] /\ pte' \in [Addrs -> SUBSET {"A", "D"}]
      BY <2>8 DEF StoreWord, StoreSucceeds, StoredValues
    <3>3. lr_sc_counter' \in [Harts -> 0 .. Window]
      BY <2>8 DEF StoreWord, StoreSucceeds
    <3> QED
      BY <2>8, <3>1, <3>2, <3>3 DEF StoreWord, AfterBusAccess
  <2>9. CASE CheckReservation(h)
    <3>1. LockTypeOK' /\ pc' \in [Harts -> PCs]
      BY <2>9, LockTypes, GotoType DEF CheckReservation
    <3> QED
      BY <2>9, <3>1 DEF CheckReservation
  <2>10. CASE Wfi(h) \/ WakeFromWfi(h)
    <3>1. LockTypeOK' /\ pc' \in [Harts -> PCs]
      BY <2>10, LockTypes, GotoType DEF Wfi, WakeFromWfi
    <3> QED
      BY <2>10, <3>1 DEF Wfi, WakeFromWfi
  <2>11. ASSUME NEW c \in 0 .. Window, NEW r \in BOOLEAN, EndStep(h, c, r) PROVE TypeOK'
    <3>1. LockTypeOK' /\ pc' \in [Harts -> PCs]
      BY <2>11, LockTypes, GotoType DEF EndStep
    <3>2. lr_sc_counter' \in [Harts -> 0 .. Window] /\ quantum' \in [Harts -> 0 .. Quantum]
      BY <2>11 DEF EndStep, CountDown
    <3> QED
      BY <2>11, <3>1, <3>2 DEF EndStep
  <2>12. CASE Finish(h) \/ Interrupt(h) \/ Trap(h)
    <3>1. lr_sc_counter[h] \in 0 .. Window /\ 0 \in 0 .. Window
      OBVIOUS
    <3> QED
      BY <2>11, <2>12, <3>1 DEF Finish, Interrupt, Trap
  <2> QED
    BY <1>1, <2>1, <2>2, <2>3, <2>5, <2>6, <2>7, <2>8, <2>9, <2>10, <2>12 DEF HartStep
<1>2. ASSUME NEW d \in Devices, DeviceStep(d) PROVE TypeOK'
  BY <1>2 DEF DeviceStep, DeviceWrite, DeviceWaits, WaitLockEvent, LockTypeOK, lockVars, hartVars
<1>3. CASE KernelDelta
  BY <1>3 DEF KernelDelta, DeltaNotify, LockTypeOK, hartVars
<1>4. CASE UNCHANGED vars \/ Gone
  BY <1>4 DEF Gone, vars, LockTypeOK, lockVars, hartVars
<1> QED
  BY <1>1, <1>2, <1>3, <1>4 DEF Next

-----------------------------------------------------------------------------
\* Every step keeps the operations at the points where they belong.
LEMMA NextPointsOK == TypeOK /\ PointsOK /\ [Next]_vars => PointsOK'
<1> SUFFICES ASSUME TypeOK, PointsOK, [Next]_vars PROVE PointsOK'
  OBVIOUS
<1> USE DEF PointsOK, AddressPoints, TypeOK
<1>1. ASSUME NEW h \in Harts, HartStep(h) PROVE PointsOK'
  <2>1. CASE AwaitRights(h)
    BY <2>1 DEF AwaitRights, hartVars
  <2>2. CASE Fetch(h)
    BY <2>2 DEF Fetch, Goto, FirstPoint, LoadPoint, StorePoint, MemoryOps, OtherOps
  <2>3. CASE TakeLock(h)
    BY <2>3 DEF TakeLock, At, Goto, LoadPoint
  <2>4. CASE TranslateLoad(h) \/ TranslateStore(h)
    BY <2>4 DEF TranslateLoad, TranslateStore, Translate, At, Goto
  <2>5. CASE AssertFails(h)
    BY <2>5 DEF AssertFails, hartVars
  <2>6. CASE Load(h)
    BY <2>6 DEF Load, At, Goto, StorePoint
  <2>7. CASE StoreWord(h)
    BY <2>7 DEF StoreWord, StoreSucceeds, At, Goto
  <2>8. CASE CheckReservation(h)
    BY <2>8 DEF CheckReservation, At, Goto, StorePoint
  <2>9. CASE Wfi(h) \/ WakeFromWfi(h)
    BY <2>9 DEF Wfi, WakeFromWfi, Goto
  <2>10. ASSUME NEW c, NEW r, EndStep(h, c, r) PROVE PointsOK'
    BY <2>10 DEF EndStep, Goto
  <2>11. CASE Finish(h) \/ Interrupt(h) \/ Trap(h)
    BY <2>10, <2>11 DEF Finish, Interrupt, Trap
  <2> QED
    BY <1>1, <2>1, <2>2, <2>3, <2>4, <2>5, <2>6, <2>7, <2>8, <2>9, <2>11 DEF HartStep
<1>2. ASSUME NEW d \in Devices, DeviceStep(d) PROVE PointsOK'
  BY <1>2 DEF DeviceStep, DeviceWrite, DeviceWaits, hartVars
<1>3. CASE KernelDelta
  BY <1>3 DEF KernelDelta, hartVars
<1>4. CASE UNCHANGED vars \/ Gone
  BY <1>4 DEF Gone, vars, hartVars
<1> QED
  BY <1>1, <1>2, <1>3, <1>4 DEF Next

\* No step forgets the lock: what is left of an instruction, or of its window,
\* will give it back.
LEMMA NextLockInv == TypeOK /\ PointsOK /\ LockInv /\ [Next]_vars => LockInv'
<1> SUFFICES ASSUME TypeOK, PointsOK, LockInv, [Next]_vars PROVE LockInv'
  OBVIOUS
<1> USE DEF LockInv, IsLockedBy, TypeOK, LockTypeOK
<1>1. ASSUME NEW h \in Harts, HartStep(h) PROVE LockInv'
  <2>1. CASE AwaitRights(h)
    BY <2>1 DEF AwaitRights, WaitLockEvent, hartVars
  <2>2. CASE Fetch(h)
    BY <2>2, FetchLock DEF Fetch, At, Goto, FirstPoint, LoadPoint, StorePoint, Unlock, lockVars
  <2>3. CASE TakeLock(h)
    BY <2>3 DEF TakeLock, Lock, At, Goto, LoadPoint, PointsOK
  <2>4. CASE TranslateLoad(h) \/ TranslateStore(h)
    BY <2>4 DEF TranslateLoad, TranslateStore, Translate, At, Goto, Unlock, lockVars
  <2>5. CASE AssertFails(h)
    BY <2>5 DEF AssertFails, lockVars, hartVars
  <2>6. CASE Load(h)
    BY <2>6 DEF Load, At, Goto, StorePoint, StartsWindow, lockVars
  <2>7. CASE StoreWord(h)
    <3>1. CASE StoreSucceeds(h)
      BY <2>7, <3>1 DEF StoreWord, StoreSucceeds, Goto, Unlock
    <3>2. CASE ~StoreSucceeds(h)
      BY <2>7, <3>2 DEF StoreWord, At, Goto, lockVars
    <3> QED
      BY <3>1, <3>2
  <2>8. CASE CheckReservation(h)
    BY <2>8 DEF CheckReservation, At, Goto, StorePoint, Unlock, HoldsReservation, lockVars
  <2>9. CASE Wfi(h)
    BY <2>9 DEF Wfi, Goto, Unlock
  <2>10. CASE WakeFromWfi(h)
    BY <2>10 DEF WakeFromWfi, At, Goto, lockVars
  <2>11. CASE Finish(h)
    <3> DEFINE c == lr_sc_counter[h]
    <3>1. /\ pc' = [pc EXCEPT ![h] = "fetch"]
          /\ op' = [op EXCEPT ![h] = None]
          /\ lr_sc_counter' = [lr_sc_counter EXCEPT ![h] = CountDown(c)]
          /\ IF Expires(c) THEN Unlock(h) ELSE UNCHANGED lockVars
          /\ c \in 0 .. Window
      BY <2>11 DEF Finish, EndStep, Goto
    <3>2. CountDown(c) < Window
      BY <3>1 DEF CountDown
    <3>3. CASE Expires(c)
      BY <3>1, <3>2, <3>3 DEF Unlock
    <3>4. CASE ~Expires(c) /\ c = 0
      BY <2>11, <3>1, <3>2, <3>4 DEF Finish, At, lockVars
    <3>5. CASE ~Expires(c) /\ c # 0
      BY <3>1, <3>2, <3>5 DEF Expires, lockVars
    <3> QED
      BY <3>3, <3>4, <3>5
  <2>12. CASE Interrupt(h) \/ Trap(h)
    BY <2>12 DEF Interrupt, Trap, EndStep, CountDown, Goto, Unlock
  <2> QED
    BY <1>1, <2>1, <2>2, <2>3, <2>4, <2>5, <2>6, <2>7, <2>8, <2>9, <2>10, <2>11, <2>12
       DEF HartStep
<1>2. ASSUME NEW d \in Devices, DeviceStep(d) PROVE LockInv'
  BY <1>2 DEF DeviceStep, DeviceWrite, DeviceWaits, WaitLockEvent, lockVars, hartVars
<1>3. CASE KernelDelta
  BY <1>3 DEF KernelDelta, DeltaNotify, hartVars
<1>4. CASE UNCHANGED vars \/ Gone
  BY <1>4 DEF Gone, vars, lockVars, hartVars
<1> QED
  BY <1>1, <1>2, <1>3, <1>4 DEF Next

\* What a hart's step does to the lock.
LEMMA HartStepLock ==
    ASSUME NEW h \in Harts, HartStep(h)
    PROVE  Unlock(h) \/ Lock(h) \/ WaitLockEvent(h) \/ UNCHANGED lockVars
<1>1. CASE AwaitRights(h) \/ Fetch(h) \/ TakeLock(h) \/ AssertFails(h)
  BY <1>1, FetchLock DEF AwaitRights, TakeLock, AssertFails
<1>2. CASE TranslateLoad(h) \/ TranslateStore(h)
  BY <1>2, TranslateLock DEF TranslateLoad, TranslateStore
<1>3. CASE Load(h) \/ StoreWord(h)
  BY <1>3 DEF Load, StoreWord, StoreSucceeds
<1>4. CASE CheckReservation(h) \/ Wfi(h) \/ WakeFromWfi(h)
  BY <1>4 DEF CheckReservation, Wfi, WakeFromWfi
<1>5. ASSUME NEW c, NEW r, EndStep(h, c, r) PROVE Unlock(h) \/ UNCHANGED lockVars
  BY <1>5 DEF EndStep
<1>6. CASE Finish(h) \/ Interrupt(h) \/ Trap(h)
  BY <1>5, <1>6 DEF Finish, Interrupt, Trap
<1> QED
  BY <1>1, <1>2, <1>3, <1>4, <1>6 DEF HartStep

\* A thread that falls asleep finds the lock held, and whoever frees it notifies.
LEMMA NextNoLostWakeup == NoLostWakeup /\ [Next]_vars => NoLostWakeup'
<1> SUFFICES ASSUME NoLostWakeup, [Next]_vars PROVE NoLostWakeup'
  OBVIOUS
<1> USE DEF NoLostWakeup
<1>1. ASSUME NEW h, Unlock(h) \/ Lock(h) \/ WaitLockEvent(h) \/ DeltaNotify
             \/ UNCHANGED lockVars
      PROVE  NoLostWakeup'
  BY <1>1 DEF Unlock, Lock, WaitLockEvent, DeltaNotify, IsLockedBy, lockVars
<1>2. ASSUME NEW d \in Devices, DeviceStep(d)
      PROVE  WaitLockEvent(d) \/ UNCHANGED lockVars
  BY <1>2 DEF DeviceStep, DeviceWrite, DeviceWaits
<1>3. CASE UNCHANGED vars \/ Gone
  BY <1>3 DEF Gone, vars, lockVars
<1> QED
  BY <1>1, <1>2, <1>3, HartStepLock DEF Next, KernelDelta

\* A thread that gives up the processor has given up the lock: a quantum ends only
\* outside an LR/SC window, WFI unlocks, and no one waits for a lock of its own.
LEMMA NextRunsWithLock == TypeOK /\ LockInv /\ RunsWithLock /\ [Next]_vars => RunsWithLock'
<1> SUFFICES ASSUME TypeOK, LockInv, RunsWithLock, [Next]_vars,
                    ~Debug, ~TargetsWait', locked'
             PROVE  running' = owner'
  BY DEF RunsWithLock
<1> USE DEF IsLockedBy, TypeOK, LockTypeOK
<1>0. ~TargetsWait /\ (locked => running = owner) /\ NoOne \notin Harts /\ Aborted \notin Harts
  <2>1. platform' = platform
    <3>1. ASSUME NEW h \in Harts, HartStep(h) PROVE platform' = platform
      BY <3>1 DEF HartStep, AwaitRights, Fetch, TakeLock, TranslateLoad, TranslateStore,
                  Translate, AssertFails, Load, StoreWord, CheckReservation, Wfi,
                  WakeFromWfi, Finish, Interrupt, Trap, EndStep
    <3> QED
      BY <3>1 DEF Next, vars, DeviceStep, DeviceWrite, DeviceWaits, KernelDelta, Gone
  <2> QED
    BY <2>1, HartMemoryAssumption DEF RunsWithLock, TargetsWait, HartMemoryAssumption
<1>1. ASSUME NEW h \in Harts, HartStep(h) PROVE running' = owner'
  <2>0. running \in {NoOne, h} /\ (locked => owner = h)
    BY <1>0, <1>1 DEF HartStep, AwaitRights, Fetch, TakeLock, TranslateLoad, TranslateStore,
                Translate, AssertFails, Load, StoreWord, CheckReservation, Wfi,
                WakeFromWfi, Finish, Interrupt, Trap, At
  <2>1. CASE AwaitRights(h)
    BY <2>0, <2>1 DEF AwaitRights, HasAccessRights, WaitLockEvent
  <2>2. CASE Fetch(h)
    BY <1>0, <2>0, <2>2, FetchLock DEF Fetch, AfterBusAccess, Unlock, lockVars
  <2>3. CASE TakeLock(h)
    BY <2>3 DEF TakeLock, Lock
  <2>4. CASE TranslateLoad(h) \/ TranslateStore(h)
    <3>1. running' = h
      BY <1>0, <2>4 DEF TranslateLoad, TranslateStore, Translate, AfterBusAccess
    <3>2. owner' = owner /\ (locked' => locked)
      BY <2>4, TranslateLock DEF TranslateLoad, TranslateStore, Unlock, lockVars
    <3> QED
      BY <2>0, <3>1, <3>2
  <2>5. CASE AssertFails(h)
    BY <2>0, <2>5 DEF AssertFails, AmoAssertHolds, lockVars
  <2>6. CASE Load(h) \/ StoreWord(h)
    BY <1>0, <2>0, <2>6 DEF Load, StoreWord, StoreSucceeds, AfterBusAccess, Unlock, lockVars
  <2>7. CASE CheckReservation(h) \/ WakeFromWfi(h)
    BY <2>0, <2>7 DEF CheckReservation, WakeFromWfi, Unlock, lockVars
  <2>8. CASE Wfi(h)
    BY <2>0, <2>8 DEF Wfi, Unlock
  <2>9. CASE Finish(h)
    <3> DEFINE c == lr_sc_counter[h]
    <3>1. /\ c \in 0 .. Window
          /\ IF Expires(c) THEN Unlock(h) ELSE UNCHANGED lockVars
          /\ running' \in IF Syncs(quantum[h] + 1 >= Quantum, CountDown(c)) THEN {NoOne} ELSE {h}
      BY <2>9 DEF Finish, EndStep
    <3>2. UNCHANGED lockVars /\ ~Expires(c) /\ owner = h /\ locked
      BY <2>0, <3>1 DEF Unlock, lockVars
    <3>3. c # 0
      BY <2>9, <3>2 DEF Finish, At, LockInv
    <3>4. CountDown(c) # 0
      BY <3>2, <3>3 DEF Expires
    <3> QED
      BY <3>1, <3>2, <3>4 DEF Syncs, lockVars
  <2>10. CASE Interrupt(h) \/ Trap(h)
    BY <2>0, <2>10 DEF Interrupt, Trap, EndStep, Unlock
  <2> QED
    BY <1>1, <2>1, <2>2, <2>3, <2>4, <2>5, <2>6, <2>7, <2>8, <2>9, <2>10 DEF HartStep
<1>2. ASSUME NEW d \in Devices, DeviceStep(d) PROVE running' = owner'
  BY <1>0, <1>2 DEF DeviceStep, DeviceWrite, DeviceWaits, WaitLockEvent, DeviceMayAccess, lockVars
<1>3. CASE KernelDelta
  BY <1>0, <1>3 DEF KernelDelta, DeltaNotify
<1>4. CASE UNCHANGED vars \/ Gone
  BY <1>0, <1>4 DEF Gone, vars, lockVars
<1> QED
  BY <1>1, <1>2, <1>3, <1>4 DEF Next

-----------------------------------------------------------------------------
(* The inductive invariant: types, what each operation does where, and who may
   still hold the bus lock. *)
THEOREM Invariance == Spec => []IInv
<1>1. IInv /\ [Next]_vars => IInv'
  BY NextTypeOK, NextPointsOK, NextLockInv, NextNoLostWakeup, NextRunsWithLock DEF IInv
<1> QED
  BY InitIInv, <1>1, PTL DEF Spec

(* The variables of the harts, the lock and the memory keep their types. *)
THEOREM TypeCorrect == Spec => []TypeOK
<1>1. IInv => TypeOK
  BY DEF IInv
<1> QED
  BY Invariance, <1>1, PTL

(* A hart that is between two instructions and still holds the lock has an
   LR window that will expire (ISS::performance_and_sync_update). *)
THEOREM LockHasWindow == Spec => []WindowCoversLock
<1>1. IInv => WindowCoversLock
  BY DEF IInv, TypeOK, LockInv, WindowCoversLock
<1> QED
  BY Invariance, <1>1, PTL

(* BusLock::unlock leaves no thread asleep on lock_event without a notification. *)
THEOREM WakeupsArrive == Spec => []NoLostWakeup
<1>1. IInv => NoLostWakeup
  BY DEF IInv
<1> QED
  BY Invariance, <1>1, PTL

(* Without a debugger and without a waiting target no hart gives up the
   processor while it holds the lock ("match SystemC sync with bus unlocking"
   in ISS::performance_and_sync_update). *)
THEOREM NobodyParksWithLock == Spec => []NeverParksWithLock
<1>1. IInv => NeverParksWithLock
  BY HartMemoryAssumption
     DEF IInv, RunsWithLock, NeverParksWithLock, HartMemoryAssumption, TypeOK, LockTypeOK
<1> QED
  BY Invariance, <1>1, PTL
-----------------------------------------------------------------------------
(***************************************************************************)
(* The refinement.  Where the platform translates addresses its memories   *)
(* do not wait: the two stores of a paged AMO or SC, to the page table and *)
(* to the word, are then one uninterrupted stretch of the thread.          *)
(***************************************************************************)
PagedMemoriesDoNotWait == \A p \in Platforms : ~(p.paged /\ p.targetsWait)

\* What a hart can be doing where.
OperationsOK(h) ==
    /\ pc[h] = "fetch" => op[h] = None
    /\ pc[h] \in {"wfi", "sleep"} => op[h] = "WFI"
    /\ pc[h] = "check" => op[h] = "SC"
    /\ pc[h] \in {"xload", "load"} => op[h] \in {"LD", "LR", "AMO"}
    /\ pc[h] \in {"xstore", "store"} => op[h] \in {"ST", "SC", "AMO", "PTE"}

\* The store of h may go ahead: nobody else has had the bus since h took the lock.
MayStore(h) == IsLockedBy(h) \/ (Paged /\ pc[h] = "store")

\* A translated store is carried out before any other thread executes.
TranslatedOK(h) ==
    Paged /\ pc[h] = "store" => IsLockedBy(h) \/ (running = h /\ ~locked)

\* LR reserves the address it loads, SC stores to the reserved one, and an AMO
\* has let go of the lock when it is complete.
AtomicsOK(h) ==
    /\ op[h] = "LR" /\ pc[h] \in {"xload", "load"} => lr_addr[h] = addr[h]
    /\ op[h] = "SC" /\ pc[h] \in {"xstore", "store"} => MayStore(h) /\ lr_addr[h] = addr[h]
    /\ op[h] = "AMO" /\ pc[h] = "finish" => ~IsLockedBy(h)

\* When Reservation(h) is one.
Reserves(h) ==
    \/ /\ IsLockedBy(h)
       /\ op[h] # "AMO"
       /\ ~(op[h] = "LR" /\ pc[h] \in {"lock", "xload", "load", "trap"})
    \/ op[h] = "SC" /\ pc[h] \in {"xstore", "store"}

\* The value an AMO modifies, and the value of a reservation, is still in memory.
FreshData(h) ==
    /\ op[h] = "AMO" /\ pc[h] \in {"xstore", "store"} /\ MayStore(h) => data[h] = mem[addr[h]]
    /\ Reserves(h) => data[h] = mem[lr_addr[h]]

AtomicInv ==
    /\ ~(Paged /\ TargetsWait)
    /\ \A h \in Harts : OperationsOK(h) /\ TranslatedOK(h) /\ AtomicsOK(h) /\ FreshData(h)

LEMMA InitAtomicInv == PagedMemoriesDoNotWait /\ Init => AtomicInv
<1> SUFFICES ASSUME PagedMemoriesDoNotWait, Init PROVE AtomicInv
  OBVIOUS
<1>1. ~(Paged /\ TargetsWait)
  BY DEF Init, Paged, TargetsWait, PagedMemoriesDoNotWait
<1>2. ASSUME NEW h \in Harts
      PROVE  OperationsOK(h) /\ TranslatedOK(h) /\ AtomicsOK(h) /\ FreshData(h)
  BY HartMemoryAssumption
     DEF Init, LockInit, IsLockedBy, OperationsOK, TranslatedOK, AtomicsOK, FreshData,
         Reserves, HartMemoryAssumption, MemoryOps
<1> QED
  BY <1>1, <1>2 DEF AtomicInv

\* A step of h leaves the local state and the lock of every other hart alone.
LEMMA HartStepIsLocal ==
    ASSUME TypeOK, NEW h \in Harts, HartStep(h), NEW g \in Harts, g # h
    PROVE  /\ pc'[g] = pc[g] /\ op'[g] = op[g] /\ addr'[g] = addr[g]
           /\ data'[g] = data[g] /\ lr_addr'[g] = lr_addr[g]
           /\ IsLockedBy(g)' <=> IsLockedBy(g)
<1>1. /\ pc'[g] = pc[g] /\ op'[g] = op[g] /\ addr'[g] = addr[g]
      /\ data'[g] = data[g] /\ lr_addr'[g] = lr_addr[g]
  <2> USE DEF TypeOK, Goto
  <2>1. CASE AwaitRights(h) \/ Fetch(h) \/ TakeLock(h) \/ AssertFails(h)
    BY <2>1 DEF AwaitRights, Fetch, TakeLock, AssertFails, hartVars
  <2>2. CASE TranslateLoad(h) \/ TranslateStore(h)
    BY <2>2 DEF TranslateLoad, TranslateStore, Translate
  <2>3. CASE Load(h) \/ StoreWord(h)
    BY <2>3 DEF Load, StoreWord, StoreSucceeds
  <2>4. CASE CheckReservation(h) \/ Wfi(h) \/ WakeFromWfi(h)
    BY <2>4 DEF CheckReservation, Wfi, WakeFromWfi
  <2>5. CASE Finish(h) \/ Interrupt(h) \/ Trap(h)
    BY <2>5 DEF Finish, Interrupt, Trap, EndStep
  <2> QED
    BY <2>1, <2>2, <2>3, <2>4, <2>5 DEF HartStep
<1>2. IsLockedBy(g)' <=> IsLockedBy(g)
  BY HartStepLock DEF Unlock, Lock, WaitLockEvent, lockVars, IsLockedBy, HasAccessRights
<1> QED
  BY <1>1, <1>2

\* Only a hart the kernel lets execute takes a step, and the platform stays as it is.
LEMMA HartStepTurn ==
    ASSUME NEW h \in Harts, HartStep(h)
    PROVE  running \in {NoOne, h} /\ platform' = platform
  BY DEF HartStep, AwaitRights, Fetch, TakeLock, TranslateLoad, TranslateStore,
         Translate, AssertFails, Load, StoreWord, CheckReservation, Wfi,
         WakeFromWfi, Finish, Interrupt, Trap, EndStep, At

\* A hart writes a word only in StoreWord, for which it needs access rights.
LEMMA HartStepWrites ==
    ASSUME NEW h \in Harts, HartStep(h), mem' # mem
    PROVE  HasAccessRights(h)
  BY DEF HartStep, AwaitRights, Fetch, TakeLock, TranslateLoad, TranslateStore,
         Translate, AssertFails, Load, StoreWord, CheckReservation, Wfi,
         WakeFromWfi, Finish, Interrupt, Trap, EndStep

\* While another hart executes, a hart that may store holds the lock.
LEMMA OthersHoldTheLock ==
    ASSUME AtomicInv, NEW h \in Harts, NEW g \in Harts, g # h, running \in {NoOne, h},
           MayStore(g) \/ Reserves(g)
    PROVE  IsLockedBy(g)
  BY HartMemoryAssumption
     DEF AtomicInv, TranslatedOK, AtomicsOK, MayStore, Reserves, HartMemoryAssumption

\* So a step of h cannot hurt the others.
LEMMA OthersStaySafe ==
    ASSUME TypeOK, AtomicInv, NEW h \in Harts, HartStep(h), NEW g \in Harts, g # h
    PROVE  /\ (OperationsOK(g) /\ TranslatedOK(g) /\ AtomicsOK(g) /\ FreshData(g))'
           /\ Reserves(g)' <=> Reserves(g)
<1>1. /\ pc'[g] = pc[g] /\ op'[g] = op[g] /\ addr'[g] = addr[g]
      /\ data'[g] = data[g] /\ lr_addr'[g] = lr_addr[g]
      /\ IsLockedBy(g)' <=> IsLockedBy(g)
  BY HartStepIsLocal
<1>2. Paged' <=> Paged
  BY HartStepTurn DEF Paged
<1>3. MayStore(g)' <=> MayStore(g)
  BY <1>1, <1>2 DEF MayStore
<1>4. Reserves(g)' <=> Reserves(g)
  BY <1>1 DEF Reserves
<1>5. MayStore(g) \/ Reserves(g) => IsLockedBy(g) /\ mem' = mem
  BY OthersHoldTheLock, HartStepTurn, HartStepWrites DEF HasAccessRights, IsLockedBy
<1>6. OperationsOK(g)'
  BY <1>1 DEF AtomicInv, OperationsOK
<1>7. TranslatedOK(g)'
  BY <1>1, <1>2, <1>5 DEF TranslatedOK, MayStore
<1>8. AtomicsOK(g)'
  BY <1>1, <1>3 DEF AtomicInv, AtomicsOK
<1>9. FreshData(g)'
  BY <1>1, <1>3, <1>4, <1>5 DEF AtomicInv, FreshData
<1> QED
  BY <1>4, <1>6, <1>7, <1>8, <1>9

\* Nor can a device, which writes only while the lock is free and no hart executes.
LEMMA DeviceStepIsSafe ==
    ASSUME TypeOK, AtomicInv, (\E d \in Devices : DeviceStep(d)) \/ KernelDelta,
           NEW h \in Harts
    PROVE  /\ (OperationsOK(h) /\ TranslatedOK(h) /\ AtomicsOK(h) /\ FreshData(h))'
           /\ Reserves(h)' <=> Reserves(h)
           /\ MayStore(h) \/ Reserves(h) => IsLockedBy(h) /\ mem' = mem
<1>1. UNCHANGED <<hartVars, platform, running, locked, owner>> /\ running = NoOne
  BY DEF DeviceStep, DeviceWrite, DeviceWaits, KernelDelta, WaitLockEvent, DeltaNotify, lockVars
<1>2. MayStore(h) \/ Reserves(h) => IsLockedBy(h)
  BY <1>1, HartMemoryAssumption
     DEF AtomicInv, TranslatedOK, AtomicsOK, MayStore, Reserves, HartMemoryAssumption
<1>3. MayStore(h) \/ Reserves(h) => mem' = mem
  BY <1>2 DEF DeviceStep, DeviceWrite, DeviceWaits, KernelDelta, DeviceMayAccess, IsLockedBy
<1>4. /\ Reserves(h)' <=> Reserves(h)
      /\ MayStore(h)' <=> MayStore(h)
      /\ IsLockedBy(h)' <=> IsLockedBy(h)
  BY <1>1 DEF Reserves, MayStore, Paged, hartVars, IsLockedBy
<1>5. (OperationsOK(h) /\ TranslatedOK(h))'
  BY <1>1 DEF AtomicInv, OperationsOK, TranslatedOK, hartVars, Paged, IsLockedBy
<1>6. AtomicsOK(h)'
  BY <1>1, <1>4 DEF AtomicInv, AtomicsOK, hartVars
<1>7. FreshData(h)'
  BY <1>1, <1>3, <1>4 DEF AtomicInv, FreshData, hartVars
<1> QED
  BY <1>2, <1>3, <1>4, <1>5, <1>6, <1>7

\* And h itself keeps to the protocol.
LEMMA OwnStepIsSafe ==
    ASSUME TypeOK, PointsOK, AtomicInv, NEW h \in Harts, HartStep(h)
    PROVE  (OperationsOK(h) /\ TranslatedOK(h) /\ AtomicsOK(h) /\ FreshData(h))'
<1> DEFINE Safe == OperationsOK(h) /\ TranslatedOK(h) /\ AtomicsOK(h) /\ FreshData(h)
<1>0. Safe /\ ~(Paged /\ TargetsWait) /\ NoOne # h /\ h \in Harts
  BY HartMemoryAssumption DEF AtomicInv, HartMemoryAssumption
<1> USE DEF TypeOK, Goto, OperationsOK
<1>1. CASE AwaitRights(h)
  BY <1>0, <1>1
     DEF AwaitRights, WaitLockEvent, hartVars, TranslatedOK, AtomicsOK, FreshData, MayStore,
         Reserves, IsLockedBy, HasAccessRights, Paged
<1>2. CASE Fetch(h)
  <2>1. PICK o \in MemoryOps \cup OtherOps : op'[h] = o /\ pc'[h] = FirstPoint(o)
    BY <1>2 DEF Fetch
  <2>2. /\ IsLockedBy(h)' => IsLockedBy(h)
        /\ UNCHANGED <<data, lr_addr, mem, platform>>
        /\ op[h] = None /\ pc[h] = "fetch"
    BY <1>0, <1>2, FetchLock DEF Fetch, At
  <2>3. OperationsOK(h)'
    BY <2>1 DEF FirstPoint, LoadPoint, StorePoint, MemoryOps, OtherOps
  <2>4. TranslatedOK(h)' /\ AtomicsOK(h)'
    BY <2>1, <2>2 DEF FirstPoint, LoadPoint, StorePoint, Paged, TranslatedOK, AtomicsOK
  <2>5. FreshData(h)'
    <3>1. op[h] \notin {"AMO", "LR", "SC"}
      BY <2>2, HartMemoryAssumption DEF HartMemoryAssumption, MemoryOps
    <3>2. Reserves(h)' => Reserves(h)
      BY <2>1, <2>2, <3>1 DEF FirstPoint, LoadPoint, StorePoint, Reserves
    <3> QED
      BY <1>0, <2>1, <2>2, <3>2 DEF FirstPoint, LoadPoint, StorePoint, FreshData
  <2> QED
    BY <2>3, <2>4, <2>5
<1>3. CASE TakeLock(h)
  <2>1. op'[h] = op[h] /\ op[h] \in {"LR", "AMO"} /\ addr'[h] = addr[h]
        /\ pc'[h] \in {"xload", "load"} /\ addr[h] \in Addrs
        /\ (op[h] = "LR" => lr_addr'[h] = addr[h])
    BY <1>3 DEF TakeLock, At, PointsOK, LoadPoint, AddressPoints
  <2> QED
    BY <2>1 DEF TranslatedOK, AtomicsOK, FreshData, Reserves
<1>4. CASE TranslateLoad(h)
  BY <1>0, <1>4
     DEF TranslateLoad, Translate, At, TranslatedOK, AtomicsOK, FreshData, Reserves,
         Unlock, IsLockedBy, lockVars
<1>5. CASE TranslateStore(h)
  <2>1. /\ Paged /\ Paged' /\ running' = h /\ pc[h] = "xstore"
        /\ UNCHANGED <<op, addr, data, lr_addr, mem>>
        /\ pc'[h] \in {"store", "trap"}
        /\ HasAccessRights(h)
        /\ op[h] = "AMO" => IsLockedBy(h)
    BY <1>0, <1>5
       DEF TranslateStore, Translate, At, AfterBusAccess, Paged, TargetsWait, AmoAssertHolds,
           StorePoint
  <2>2. /\ IsLockedBy(h)' => IsLockedBy(h)
        /\ IsLockedBy(h)' \/ ~locked'
    BY <1>5, <2>1, TranslateLock
       DEF TranslateStore, Unlock, IsLockedBy, HasAccessRights, lockVars
  <2>3. TranslatedOK(h)'
    BY <2>1, <2>2 DEF TranslatedOK
  <2>4. AtomicsOK(h)'
    BY <1>0, <2>1 DEF AtomicsOK, MayStore
  <2>5. FreshData(h)'
    BY <1>0, <2>1, <2>2 DEF FreshData, MayStore, Reserves
  <2> QED
    BY <1>0, <2>1, <2>3, <2>4, <2>5
<1>6. CASE AssertFails(h)
  <2>1. /\ UNCHANGED <<hartVars, lockVars, platform, mem>>
        /\ ~(Paged /\ pc[h] = "store")
    BY <1>6 DEF AssertFails, At, StorePoint
  <2> QED
    BY <1>0, <2>1
       DEF hartVars, lockVars, TranslatedOK, AtomicsOK, FreshData, MayStore, Reserves,
           IsLockedBy, Paged
<1>7. CASE Load(h)
  <2>1. /\ IsLockedBy(h)' <=> IsLockedBy(h)
        /\ UNCHANGED <<op, addr, lr_addr, mem, platform>>
        /\ pc[h] = "load" /\ op[h] \in {"LD", "LR", "AMO"}
    BY <1>0, <1>7 DEF Load, lockVars, IsLockedBy, At
  <2>2. CASE pc'[h] = "trap" /\ data' = data
    BY <1>0, <2>1, <2>2 DEF TranslatedOK, AtomicsOK, FreshData, Reserves
  <2>3. CASE /\ pc'[h] = IF op[h] = "AMO" THEN StorePoint ELSE "finish"
             /\ data'[h] = IF op[h] \in {"LR", "AMO"} THEN mem[addr[h]] ELSE data[h]
    <3>1. TranslatedOK(h)' /\ AtomicsOK(h)' /\ OperationsOK(h)'
      BY <1>0, <2>1, <2>3 DEF TranslatedOK, AtomicsOK, StorePoint, Paged
    <3>2. FreshData(h)'
      BY <1>0, <2>1, <2>3 DEF FreshData, Reserves, AtomicsOK
    <3> QED
      BY <3>1, <3>2
  <2> QED
    BY <1>7, <2>2, <2>3 DEF Load
<1>8. CASE StoreWord(h)
  <2>1. CASE StoreSucceeds(h)
    BY <1>8, <2>1
       DEF StoreSucceeds, Unlock, IsLockedBy, TranslatedOK, AtomicsOK, FreshData, Reserves
  <2>2. CASE ~StoreSucceeds(h)
    BY <1>0, <1>8, <2>2
       DEF StoreWord, At, lockVars, IsLockedBy, TranslatedOK, AtomicsOK, FreshData, Reserves
  <2> QED
    BY <2>1, <2>2
<1>9. CASE CheckReservation(h)
  <2>1. op[h] = "SC" /\ UNCHANGED <<op, addr, data, lr_addr, mem, platform>>
    BY <1>0, <1>9 DEF CheckReservation, At
  <2>2. CASE HoldsReservation(h)
    BY <1>0, <1>9, <2>1, <2>2
       DEF CheckReservation, At, StorePoint, HoldsReservation, lockVars, IsLockedBy, Paged,
           TranslatedOK, AtomicsOK, FreshData, MayStore, Reserves
  <2>3. CASE ~HoldsReservation(h)
    BY <1>9, <2>1, <2>3
       DEF CheckReservation, Unlock, IsLockedBy, TranslatedOK, AtomicsOK, FreshData, Reserves
  <2> QED
    BY <2>2, <2>3
<1>10. CASE Wfi(h)
  BY <1>0, <1>10
     DEF Wfi, At, Unlock, IsLockedBy, TranslatedOK, AtomicsOK, FreshData, Reserves
<1>11. CASE WakeFromWfi(h)
  BY <1>0, <1>11
     DEF WakeFromWfi, At, lockVars, IsLockedBy, TranslatedOK, AtomicsOK, FreshData, Reserves
<1>12. CASE Finish(h)
  <2>1. /\ pc[h] = "finish" /\ pc'[h] = "fetch" /\ op'[h] = None
        /\ UNCHANGED <<data, lr_addr, mem>>
        /\ IsLockedBy(h)' => IsLockedBy(h)
    BY <1>12 DEF Finish, EndStep, At, Unlock, lockVars, IsLockedBy
  <2>2. None \notin {"AMO", "SC", "LR"}
    BY HartMemoryAssumption DEF HartMemoryAssumption, MemoryOps
  <2>3. Reserves(h)' => Reserves(h)
    BY <1>0, <2>1, <2>2 DEF Reserves, AtomicsOK
  <2> QED
    BY <1>0, <2>1, <2>2, <2>3 DEF TranslatedOK, AtomicsOK, FreshData
<1>13. CASE Interrupt(h) \/ Trap(h)
  <2>1. pc'[h] = "fetch" /\ op'[h] = None /\ ~IsLockedBy(h)'
    BY <1>13 DEF Interrupt, Trap, EndStep, Unlock, IsLockedBy
  <2> QED
    BY <2>1 DEF TranslatedOK, AtomicsOK, FreshData, Reserves
<1> QED
  BY <1>1, <1>2, <1>3, <1>4, <1>5, <1>6, <1>7, <1>8, <1>9, <1>10, <1>11, <1>12, <1>13
     DEF HartStep

LEMMA NextAtomicInv == TypeOK /\ PointsOK /\ AtomicInv /\ [Next]_vars => AtomicInv'
<1> SUFFICES ASSUME TypeOK, PointsOK, AtomicInv, [Next]_vars PROVE AtomicInv'
  OBVIOUS
<1> DEFINE Safe(h) == OperationsOK(h) /\ TranslatedOK(h) /\ AtomicsOK(h) /\ FreshData(h)
<1>1. ASSUME NEW h \in Harts, HartStep(h), NEW g \in Harts PROVE Safe(g)'
  BY <1>1, OwnStepIsSafe, OthersStaySafe
<1>2. ASSUME (\E d \in Devices : DeviceStep(d)) \/ KernelDelta, NEW g \in Harts PROVE Safe(g)'
  BY <1>2, DeviceStepIsSafe
<1>3. ASSUME UNCHANGED vars \/ Gone, NEW g \in Harts PROVE Safe(g)'
  BY <1>3 DEF Gone, vars, lockVars, hartVars, AtomicInv, OperationsOK, TranslatedOK, AtomicsOK,
              FreshData, MayStore, Reserves, IsLockedBy, Paged
<1>4. platform' = platform
  BY HartStepTurn
     DEF Next, DeviceStep, DeviceWrite, DeviceWaits, KernelDelta, Gone, vars
<1> QED
  BY <1>1, <1>2, <1>3, <1>4 DEF Next, AtomicInv, Paged, TargetsWait

\* Reservations are pairs, so that None is not one of them.
LEMMA ReservationIs ==
    ASSUME TypeOK, NEW h \in Harts
    PROVE  /\ Reservation(h) = IF Reserves(h) THEN <<lr_addr[h], data[h]>> ELSE None
           /\ lr_addr[h] \in Addrs /\ data[h] \in Vals
           /\ Reserves(h) <=> Reservation(h) # None
<1>1. Reservation(h) = IF Reserves(h) THEN <<lr_addr[h], data[h]>> ELSE None
  BY DEF Reservation, Reserves
<1>2. lr_addr[h] \in Addrs /\ data[h] \in Vals
  BY DEF TypeOK
<1>3. <<lr_addr[h], data[h]>> # None
  BY <1>2, HartMemoryAssumption DEF HartMemoryAssumption
<1> QED
  BY <1>1, <1>2, <1>3

\* A step that writes no word and at most drops the reservation of h.
LEMMA DropsOrKeeps ==
    ASSUME NEW h \in Harts, event' = None, mem' = mem,
           Reservation(h)' \in {Reservation(h), None},
           \A g \in Harts \ {h} : Reservation(g)' = Reservation(g)
    PROVE  Atomic!Next
<1> DEFINE r == [g \in Harts |-> Reservation(g)]
<1>1. CASE Reservation(h)' = Reservation(h)
  <2>1. r' = r
    BY <1>1
  <2> QED
    BY <2>1 DEF Atomic!Next, Atomic!Quiet
<1>2. CASE Reservation(h)' = None
  <2>1. r' = [r EXCEPT ![h] = None]
    BY <1>2
  <2>2. Atomic!DropReservation(h)
    BY <2>1 DEF Atomic!DropReservation
  <2> QED
    BY <2>2 DEF Atomic!Next
<1> QED
  BY <1>1, <1>2

\* A write after which nobody has a reservation.
LEMMA WritesBreakAll ==
    ASSUME NEW what, NEW x, NEW a, NEW v,
           mem' = [mem EXCEPT ![a] = v], event' = <<what, x, a>>,
           \A g \in Harts : Reservation(g)' = None
    PROVE  Atomic!WriteBy(what, x, a, v)
  BY DEF Atomic!WriteBy

LEMMA OthersKeepReservations ==
    ASSUME TypeOK, AtomicInv, NEW h \in Harts, HartStep(h), NEW g \in Harts \ {h}
    PROVE  /\ Reservation(g)' = Reservation(g)
           /\ HasAccessRights(h) => Reservation(g) = None
<1>1. Reserves(g)' <=> Reserves(g)
  BY OthersStaySafe
<1>2. lr_addr'[g] = lr_addr[g] /\ data'[g] = data[g]
  BY HartStepIsLocal
<1>3. Reservation(g)' = Reservation(g)
  BY <1>1, <1>2 DEF Reservation, Reserves
<1>4. HasAccessRights(h) => Reservation(g) = None
  BY OthersHoldTheLock, HartStepTurn, ReservationIs DEF HasAccessRights, IsLockedBy
<1> QED
  BY <1>3, <1>4

\* The stores are the writes of the atomic memory, each one indivisible.
LEMMA StoreIsAtomic ==
    ASSUME TypeOK, PointsOK, AtomicInv, NEW h \in Harts, StoreWord(h),
           StoreSucceeds(h), op[h] # "PTE"
    PROVE  Atomic!Next
<1>1. /\ pc[h] = "store" /\ op[h] \in {"ST", "SC", "AMO"} /\ addr[h] \in Addrs
      /\ HasAccessRights(h)
      /\ event' = <<op[h], h, addr[h]>>
  BY DEF StoreWord, StoreSucceeds, At, AtomicInv, OperationsOK, PointsOK, AddressPoints
<1>2. PICK v \in StoredValues(h) : mem' = [mem EXCEPT ![addr[h]] = v]
  BY DEF StoreSucceeds
<1>3. HartStep(h)
  BY DEF HartStep
<1>4. Reservation(h)' = None
  <2>1. pc'[h] = "finish" /\ ~IsLockedBy(h)'
    BY DEF StoreSucceeds, Unlock, IsLockedBy, Goto, TypeOK
  <2> QED
    BY <2>1 DEF Reservation
<1>5. Atomic!WriteBy(op[h], h, addr[h], v)
  BY <1>1, <1>2, <1>3, <1>4, OthersKeepReservations, WritesBreakAll
<1>6. CASE op[h] = "ST"
  <2>1. v \in Vals
    BY <1>6 DEF StoredValues
  <2>2. Atomic!Store(h, addr[h])
    BY <1>5, <1>6, <2>1 DEF Atomic!Store
  <2> QED
    BY <1>1, <2>2 DEF Atomic!Next
<1>7. CASE op[h] = "SC"
  <2>1. v \in Vals
    BY <1>7 DEF StoredValues
  <2>2. Reservation(h) = <<addr[h], mem[addr[h]]>>
    BY <1>1, <1>7, ReservationIs DEF AtomicInv, AtomicsOK, FreshData, Reserves
  <2>3. Atomic!StoreConditional(h, addr[h])
    BY <1>5, <1>7, <2>1, <2>2 DEF Atomic!StoreConditional
  <2> QED
    BY <1>1, <2>3 DEF Atomic!Next
<1>8. CASE op[h] = "AMO"
  <2>1. MayStore(h)
    BY <1>1, <1>8 DEF StoreWord, AmoAssertHolds, StorePoint, MayStore
  <2>2. v = Modify[mem[addr[h]]]
    BY <1>1, <1>8, <2>1 DEF StoredValues, AtomicInv, FreshData
  <2>3. Atomic!Amo(h, addr[h])
    BY <1>5, <1>8, <2>2 DEF Atomic!Amo
  <2> QED
    BY <1>1, <2>3 DEF Atomic!Next
<1> QED
  BY <1>1, <1>6, <1>7, <1>8

\* The load of an LR that still holds the lock is the one that reserves.
LEMMA LoadIsAtomic ==
    ASSUME TypeOK, PointsOK, AtomicInv, NEW h \in Harts, Load(h)
    PROVE  Atomic!Next
<1>1. /\ pc[h] = "load" /\ op[h] \in {"LD", "LR", "AMO"} /\ addr[h] \in Addrs
      /\ UNCHANGED <<op, addr, lr_addr, mem>> /\ event' = None
      /\ IsLockedBy(h)' <=> IsLockedBy(h)
  BY DEF Load, At, AtomicInv, OperationsOK, PointsOK, AddressPoints, lockVars, IsLockedBy
<1>2. \A g \in Harts \ {h} : Reservation(g)' = Reservation(g)
  BY OthersKeepReservations DEF HartStep
<1>3. CASE op[h] = "LR" /\ pc'[h] = "finish" /\ IsLockedBy(h)
  <2>1. data'[h] = mem[addr[h]] /\ lr_addr[h] = addr[h]
    BY <1>1, <1>3 DEF Load, Goto, TypeOK, AtomicInv, AtomicsOK
  <2>2. Reservation(h)' = <<addr[h], mem[addr[h]]>>
    BY <1>1, <1>3, <2>1 DEF Reservation
  <2> DEFINE r == [g \in Harts |-> Reservation(g)]
  <2>3. r' = [r EXCEPT ![h] = <<addr[h], mem[addr[h]]>>]
    BY <1>2, <2>2
  <2>4. Atomic!LoadReserved(h, addr[h])
    BY <1>1, <2>3 DEF Atomic!LoadReserved
  <2> QED
    BY <1>1, <2>4 DEF Atomic!Next
<1>4. CASE ~(op[h] = "LR" /\ pc'[h] = "finish" /\ IsLockedBy(h))
  <2>1. op[h] # "AMO" => pc'[h] \in {"trap", "finish"}
    BY DEF Load, Goto, TypeOK
  <2>2. op[h] = "LD" => data'[h] = data[h]
    BY <1>1 DEF Load
  <2>3. op'[h] = op[h] /\ lr_addr'[h] = lr_addr[h]
    BY <1>1
  <2>4. op[h] \in {"LR", "AMO"} => Reservation(h)' = None
    BY <1>1, <1>4, <2>1, <2>3 DEF Reservation
  <2>5. ASSUME op[h] = "LD" PROVE Reservation(h)' = Reservation(h)
    <3>1. Reserves(h)' <=> Reserves(h)
      BY <1>1, <2>3, <2>5 DEF Reserves
    <3>2. Reservation(h)' = Reservation(h)
      BY <2>2, <2>3, <2>5, <3>1 DEF Reservation, Reserves
    <3> QED
      BY <3>2
  <2> QED
    BY <1>1, <1>2, <2>4, <2>5, DropsOrKeeps
<1> QED
  BY <1>3, <1>4

\* Every other step of a hart is invisible or drops a reservation.
LEMMA OtherStepsAreQuiet ==
    ASSUME TypeOK, PointsOK, AtomicInv, NEW h \in Harts, HartStep(h), ~Load(h),
           ~(StoreWord(h) /\ StoreSucceeds(h) /\ op[h] # "PTE")
    PROVE  Atomic!Next
<1>1. \A g \in Harts \ {h} : Reservation(g)' = Reservation(g)
  BY OthersKeepReservations
<1>2. SUFFICES event' = None /\ mem' = mem /\ Reservation(h)' \in {Reservation(h), None}
  BY <1>1, DropsOrKeeps
<1> USE DEF TypeOK, Goto
<1>3. CASE AwaitRights(h) \/ AssertFails(h)
  BY <1>3 DEF AwaitRights, AssertFails, WaitLockEvent, hartVars, lockVars, Reservation, IsLockedBy
<1>4. CASE Fetch(h)
  <2>1. PICK o \in MemoryOps \cup OtherOps : op'[h] = o /\ pc'[h] = FirstPoint(o)
    BY <1>4 DEF Fetch
  <2>2. /\ IsLockedBy(h)' => IsLockedBy(h)
        /\ UNCHANGED <<data, lr_addr, mem>> /\ event' = None
        /\ op[h] = None /\ pc[h] = "fetch"
    BY <1>4, FetchLock DEF Fetch, At, AtomicInv, OperationsOK
  <2>3. op[h] \notin {"AMO", "LR", "SC"}
    BY <2>2, HartMemoryAssumption DEF HartMemoryAssumption, MemoryOps
  <2> QED
    BY <2>1, <2>2, <2>3 DEF FirstPoint, LoadPoint, StorePoint, Reservation
<1>5. CASE TakeLock(h)
  <2>1. /\ op[h] \in {"LR", "AMO"} /\ UNCHANGED <<op, data, mem>> /\ event' = None
        /\ pc[h] = "lock" /\ pc'[h] \in {"xload", "load"}
    BY <1>5 DEF TakeLock, At, PointsOK, LoadPoint
  <2> QED
    BY <2>1 DEF Reservation
<1>6. CASE TranslateLoad(h) \/ TranslateStore(h)
  <2>1. /\ UNCHANGED <<op, data, lr_addr, mem>> /\ event' = None
        /\ \/ pc[h] = "xload" /\ pc'[h] \in {"load", "trap"}
           \/ pc[h] = "xstore" /\ pc'[h] \in {"store", "trap"}
    BY <1>6 DEF TranslateLoad, TranslateStore, Translate, At
  <2>2. IsLockedBy(h)' => IsLockedBy(h)
    BY <1>6, TranslateLock DEF TranslateLoad, TranslateStore, Unlock, lockVars, IsLockedBy
  <2>3. pc[h] = "xload" => op[h] \in {"LD", "LR", "AMO"}
    BY DEF AtomicInv, OperationsOK
  <2>4. pc[h] = "xstore" => op[h] \in {"ST", "SC", "AMO", "PTE"}
    BY DEF AtomicInv, OperationsOK
  <2> QED
    BY <2>1, <2>2, <2>3, <2>4 DEF Reservation
<1>7. CASE StoreWord(h)
  <2>1. /\ UNCHANGED <<op, data, lr_addr, mem>> /\ event' = None
        /\ pc[h] = "store" /\ pc'[h] \in {"finish", "trap"}
        /\ IsLockedBy(h)' => IsLockedBy(h)
    <3>1. CASE StoreSucceeds(h)
      BY <1>7, <3>1 DEF StoreWord, StoreSucceeds, At, Unlock, IsLockedBy
    <3>2. CASE ~StoreSucceeds(h)
      BY <1>7, <3>2 DEF StoreWord, At, lockVars, IsLockedBy
    <3> QED
      BY <3>1, <3>2
  <2>2. op[h] \in {"ST", "SC", "AMO", "PTE"}
    BY <2>1 DEF AtomicInv, OperationsOK
  <2> QED
    BY <2>1, <2>2 DEF Reservation
<1>8. CASE CheckReservation(h)
  <2>1. /\ op[h] = "SC" /\ pc[h] = "check" /\ UNCHANGED <<op, data, lr_addr, mem>> /\ event' = None
    BY <1>8 DEF CheckReservation, At, AtomicInv, OperationsOK
  <2>2. CASE HoldsReservation(h)
    BY <1>8, <2>1, <2>2 DEF CheckReservation, HoldsReservation, StorePoint, Reservation
  <2>3. CASE ~HoldsReservation(h)
    BY <1>8, <2>1, <2>3 DEF CheckReservation, Unlock, IsLockedBy, Reservation
  <2> QED
    BY <2>2, <2>3
<1>9. CASE Wfi(h)
  <2>1. /\ op[h] = "WFI" /\ UNCHANGED <<op, data, lr_addr, mem>> /\ event' = None
        /\ ~IsLockedBy(h)'
    BY <1>9 DEF Wfi, At, Unlock, IsLockedBy, AtomicInv, OperationsOK
  <2> QED
    BY <2>1 DEF Reservation
<1>10. CASE WakeFromWfi(h)
  <2>1. /\ op[h] = "WFI" /\ UNCHANGED <<op, data, lr_addr, mem, lockVars>> /\ event' = None
    BY <1>10 DEF WakeFromWfi, At, AtomicInv, OperationsOK
  <2> QED
    BY <2>1 DEF Reservation, IsLockedBy, lockVars
<1>11. CASE Finish(h)
  <2>1. /\ pc[h] = "finish" /\ pc'[h] = "fetch" /\ op'[h] = None
        /\ UNCHANGED <<data, lr_addr, mem>> /\ event' = None
        /\ IsLockedBy(h)' => IsLockedBy(h)
    BY <1>11 DEF Finish, EndStep, At, Unlock, lockVars, IsLockedBy
  <2>2. None \notin {"AMO", "SC", "LR"}
    BY HartMemoryAssumption DEF HartMemoryAssumption, MemoryOps
  <2>3. op[h] = "AMO" => ~IsLockedBy(h)
    BY <2>1 DEF AtomicInv, AtomicsOK
  <2> QED
    BY <2>1, <2>2, <2>3 DEF Reservation
<1>12. CASE Interrupt(h) \/ Trap(h)
  <2>1. /\ op'[h] = None /\ ~IsLockedBy(h)' /\ mem' = mem /\ event' = None
    BY <1>12 DEF Interrupt, Trap, EndStep, Unlock, IsLockedBy
  <2>2. None # "SC"
    BY HartMemoryAssumption DEF HartMemoryAssumption, MemoryOps
  <2> QED
    BY <2>1, <2>2 DEF Reservation
<1> QED
  BY <1>3, <1>4, <1>5, <1>6, <1>7, <1>8, <1>9, <1>10, <1>11, <1>12 DEF HartStep

\* A device may write because nobody has a reservation.
LEMMA DeviceStepsAreStores ==
    ASSUME TypeOK, AtomicInv, (\E d \in Devices : DeviceStep(d)) \/ KernelDelta
    PROVE  Atomic!Next
<1> DEFINE r == [g \in Harts |-> Reservation(g)]
<1>1. ASSUME NEW g \in Harts PROVE Reservation(g)' = Reservation(g)
  <2>1. Reserves(g)' <=> Reserves(g)
    BY DeviceStepIsSafe
  <2>2. data' = data /\ lr_addr' = lr_addr
    BY DEF DeviceStep, DeviceWrite, DeviceWaits, KernelDelta, hartVars
  <2> QED
    BY <2>1, <2>2 DEF Reservation, Reserves
<1>2. ASSUME NEW d \in Devices, DeviceWrite(d) PROVE Atomic!Next
  <2>1. PICK a \in Addrs, v \in Vals : mem' = [mem EXCEPT ![a] = v] /\ event' = <<"ST", d, a>>
    BY <1>2 DEF DeviceWrite
  <2>2. \A g \in Harts : Reservation(g)' = None
    <3>1. ~locked
      BY <1>2 DEF DeviceWrite, DeviceMayAccess
    <3> QED
      BY <1>1, <3>1, DeviceStepIsSafe, ReservationIs DEF IsLockedBy
  <2>3. Atomic!WriteBy("ST", d, a, v)
    BY <2>1, <2>2, WritesBreakAll
  <2>4. Atomic!Store(d, a)
    BY <2>3 DEF Atomic!Store
  <2> QED
    BY <2>4 DEF Atomic!Next
<1>3. ASSUME mem' = mem, event' = None PROVE Atomic!Next
  <2>1. r' = r
    BY <1>1
  <2> QED
    BY <1>3, <2>1 DEF Atomic!Next, Atomic!Quiet
<1> QED
  BY <1>2, <1>3 DEF DeviceStep, DeviceWaits, KernelDelta

(* The bus lock implements an atomic memory on the platforms of the repository:
   no write of another hart or of a device falls between the load and the store
   of an AMO, nor between an LR and an SC that succeeds (BusLock, mem.h). *)
THEOREM MemoryIsAtomic == PagedMemoriesDoNotWait => (Spec => AtomicSpec)
<1> SUFFICES ASSUME PagedMemoriesDoNotWait PROVE Spec => AtomicSpec
  OBVIOUS
<1>1. Init => Atomic!Init
  <2> SUFFICES ASSUME Init PROVE Atomic!Init
    OBVIOUS
  <2>1. mem \in [Addrs -> Vals] /\ event = None
    BY DEF Init
  <2>2. ASSUME NEW h \in Harts PROVE Reservation(h) = None
    BY DEF Init, LockInit, Reservation, IsLockedBy
  <2> QED
    BY <2>1, <2>2 DEF Atomic!Init
<1>2. IInv /\ AtomicInv /\ [Next]_vars => [Atomic!Next]_(Atomic!vars)
  <2> SUFFICES ASSUME IInv, AtomicInv, [Next]_vars PROVE [Atomic!Next]_(Atomic!vars)
    OBVIOUS
  <2> USE DEF IInv
  <2>1. ASSUME NEW h \in Harts, HartStep(h) PROVE Atomic!Next
    BY <2>1, StoreIsAtomic, LoadIsAtomic, OtherStepsAreQuiet
  <2>2. CASE (\E d \in Devices : DeviceStep(d)) \/ KernelDelta
    BY <2>2, DeviceStepsAreStores
  <2>3. CASE UNCHANGED vars \/ Gone
    <3>1. UNCHANGED vars
      BY <2>3 DEF Gone
    <3>2. \A g \in Harts : Reservation(g)' = Reservation(g)
      BY <3>1 DEF vars, lockVars, hartVars, Reservation, IsLockedBy
    <3> QED
      BY <3>1, <3>2 DEF vars, Atomic!vars
  <2> QED
    BY <2>1, <2>2, <2>3 DEF Next
<1>3. IInv /\ AtomicInv /\ [Next]_vars => (IInv /\ AtomicInv)'
  BY NextTypeOK, NextPointsOK, NextLockInv, NextNoLostWakeup, NextRunsWithLock, NextAtomicInv
     DEF IInv
<1>4. Init => IInv /\ AtomicInv
  BY InitIInv, InitAtomicInv
<1> QED
  BY <1>1, <1>2, <1>3, <1>4, PTL DEF Spec, AtomicSpec, Atomic!Spec
=============================================================================
