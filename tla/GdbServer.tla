----------------------------- MODULE GdbServer -----------------------------
(***************************************************************************)
(* The GDB stub (vp/src/core/common/gdb-mc): gdb_server.cpp takes a packet *)
(* from the connection's thread, gdb_runner.cpp runs one hart between its  *)
(* run event and its stop event, handler.cpp implements vCont and the      *)
(* breakpoints, and ISS::run (rv32/iss.cpp) is the loop being controlled.  *)
(*                                                                         *)
(* All of it but the connection's thread is SystemC processes: one runs at *)
(* a time, until it waits.  A hart can wait in the middle of an instruction *)
(* (its bus access), after it (the quantum) and after its loop (the last   *)
(* sync); the server waits for stop events.  The events are notified       *)
(* immediately, so that who does not wait for one yet misses it.           *)
(***************************************************************************)
EXTENDS Integers, Sequences

CONSTANTS N,            \* number of harts
          Addresses,    \* of instructions
          Commands,     \* what the debugger sends: see Command
          Ebreaks,      \* guests have EBREAK instructions of their own
          Exits,        \* guests call exit
          None

Threads == 1 .. N         \* thread ids: the hart's id plus one

Least(harts) == CHOOSE h \in harts : \A o \in harts : h <= o
Greatest(harts) == CHOOSE h \in harts : \A o \in harts : h >= o

GDB_THREAD_ALL == -1
GDB_THREAD_ANY == 0

\* One part of a vCont packet.
Action == [single : BOOLEAN, tid : Int]
Command == [name : {"vCont"}, actions : Seq(Action) \ {<<>>}]
           \cup [name : {"Z", "z"}, address : Addresses]
           \cup [name : {"query"}]

GdbServerAssumption ==
    /\ N \in Nat \ {0}
    /\ Commands \subseteq Command
    /\ Ebreaks \in BOOLEAN /\ Exits \in BOOLEAN
    /\ None \notin [thread : Threads, reason : {"03", "05"}]

VARIABLES packet,       \* the packet in pktq, whose handling keeps mtx locked, or None
          phase,        \* where the server is: see Phase
          actions,      \* what is left of a vCont packet
          matched,      \* the harts an action of it named
          single,       \* single_run
          sel,          \* hartsrun
          unchecked,    \* those the loop of run_threads has not come to
          orig,         \* orig_status
          stopped,      \* stop_reason and stopped_thread, or None
          answer,       \* the stop reply the debugger has received, or None
          breakpoints,
          status,       \* CoreExecStatus of each hart
          runner,       \* where the hart's runner is: see Place
          pc,
          why           \* what stopped the hart since it was last started (history)

server == <<packet, phase, actions, matched, single, sel, unchecked, orig, stopped, answer>>
guests == <<status, runner, pc, why>>
vars == <<server, breakpoints, guests>>

\* "idle": waits for a packet; "next": executes; "all", "one": waits for the stop
\* event of any selected hart, or of the last one it told to stop; "sweep": woken.
Phase == {"idle", "next", "all", "one", "sweep"}

\* "waiting" for its run event; "woken"; in an instruction of run() ("exec") or of
\* run_step() ("step"), after it ("loop", "stepped"), in the last sync of run()
\* ("final"); "dead".
Place == {"waiting", "woken", "exec", "loop", "final", "step", "stepped", "dead"}

Status == {"Runnable", "HitBreakpoint", "Terminated"}

Init ==
    /\ packet = None /\ phase = "idle"
    /\ actions = <<>> /\ matched = {}
    /\ single = FALSE
    /\ sel = {} /\ unchecked = {}
    /\ orig = [h \in Threads |-> "Runnable"]
    /\ stopped = None /\ answer = None
    /\ breakpoints = {}
    /\ status = [h \in Threads |-> "Runnable"]
    /\ runner = [h \in Threads |-> "waiting"]
    /\ pc \in [Threads -> Addresses]
    /\ why = [h \in Threads |-> None]
-----------------------------------------------------------------------------
\* dispatch(): the debugger's next packet.  The debugger does not overtake the
\* simulation: a hart's last sync has ended, whatever real time that takes.  The
\* guard's first line is the mutex: dispatch() locks it before it reads a packet, and
\* run() unlocks it once that packet is handled.
Receive ==
    /\ phase = "idle" /\ packet = None
    /\ \A h \in Threads : runner[h] # "final"
    /\ packet' \in Commands
    /\ answer' = None
    /\ UNCHANGED <<phase, actions, matched, single, sel, unchecked, orig, stopped,
                   breakpoints, guests>>

\* run(): a packet that is answered at once.
Handle ==
    /\ phase = "idle" /\ packet # None /\ packet.name # "vCont"
    /\ breakpoints' = CASE packet.name = "Z" -> breakpoints \cup {packet.address}
                        [] packet.name = "z" -> breakpoints \ {packet.address}
                        [] OTHER -> breakpoints
    /\ packet' = None
    /\ UNCHANGED <<phase, actions, matched, single, sel, unchecked, orig, stopped,
                   answer, guests>>

VCont ==
    /\ phase = "idle" /\ packet # None /\ packet.name = "vCont"
    /\ phase' = "next"
    /\ actions' = packet.actions
    /\ matched' = {} /\ stopped' = None
    /\ UNCHANGED <<packet, single, sel, unchecked, orig, answer, breakpoints, guests>>

\* get_threads(); no hart has a thread id out of its range.
GetThreads(tid) ==
    CASE tid = GDB_THREAD_ANY -> {1}
      [] tid = GDB_THREAD_ALL -> Threads
      [] OTHER -> {tid} \cap Threads

Names(tid) == IF tid > 0 THEN {tid} ELSE {}

\* The harts the next action runs: those no earlier action has named.
Run == GetThreads(Head(actions).tid) \ matched

\* run_threads(): notifies the run events and waits for the first stop event.
RunThreads ==
    /\ phase = "next" /\ actions # <<>> /\ Run # {}
    /\ phase' = "all"
    /\ single' = Head(actions).single
    /\ sel' = Run /\ unchecked' = Run
    /\ runner' = [h \in Threads |->
           IF h \in Run /\ runner[h] = "waiting" THEN "woken" ELSE runner[h]]
    /\ UNCHANGED <<packet, actions, matched, orig, stopped, answer, breakpoints,
                   status, pc, why>>

\* All its harts are matched; or get_threads throws, which ends the packet with E01.
SkipAction ==
    /\ phase = "next" /\ actions # <<>> /\ Run = {}
    /\ IF GetThreads(Head(actions).tid) = {}
       THEN phase' = "idle" /\ packet' = None /\ UNCHANGED <<actions, matched>>
       ELSE /\ actions' = Tail(actions)
            /\ matched' = matched \cup Names(Head(actions).tid)
            /\ UNCHANGED <<phase, packet>>
    /\ UNCHANGED <<single, sel, unchecked, orig, stopped, answer, breakpoints, guests>>

\* The harts that run_threads finds running.
RunningFirst == {h \in unchecked : status[h] = "Runnable" /\ h = Least(sel)}
Running == {h \in unchecked : status[h] = "Runnable"}

\* The loop of run_threads up to a hart it has to stop.
StopHart ==
    /\ phase = "sweep" /\ Running # {}
    /\ LET h == Least(Running) IN
        /\ orig' = [o \in Threads |-> IF o \in unchecked /\ o <= h THEN status[o] ELSE orig[o]]
        /\ status' = [status EXCEPT ![h] = "HitBreakpoint"]
        /\ unchecked' = {o \in unchecked : o > h}
    /\ phase' = "one"
    /\ UNCHANGED <<packet, actions, matched, single, sel, stopped, answer, breakpoints,
                   runner, pc, why>>

\* The status that run_threads restores,
RestoredForced == [h \in sel |-> status[h]]
Restored == [h \in sel |-> IF h \in unchecked THEN status[h] ELSE orig[h]]

\* and the last of the harts that did not only run when they were stopped.
StopReply ==
    LET stops == {h \in sel : Restored[h] # "Runnable"} IN
    IF stops = {} THEN stopped
    ELSE [thread |-> Greatest(stops),
          reason |-> IF Restored[Greatest(stops)] = "HitBreakpoint" THEN "05" ELSE "03"]

\* The end of that loop, and vCont's work for the harts that have stopped.
Collect ==
    /\ phase = "sweep" /\ Running = {}
    /\ phase' = "next"
    /\ stopped' = StopReply
    /\ status' = [h \in Threads |->
           IF h \notin sel THEN status[h]
           ELSE IF Restored[h] = "HitBreakpoint" THEN "Runnable" ELSE Restored[h]]
    /\ matched' = matched \cup Names(Head(actions).tid)
    /\ actions' = Tail(actions)
    /\ sel' = {} /\ unchecked' = {}
    /\ orig' = [h \in Threads |-> "Runnable"]
    /\ UNCHANGED <<packet, single, answer, breakpoints, runner, pc, why>>

Reply ==
    /\ phase = "next" /\ actions = <<>>
    /\ answer' = stopped
    /\ phase' = "idle" /\ packet' = None
    /\ UNCHANGED <<actions, matched, single, sel, unchecked, orig, stopped, breakpoints, guests>>

Server == Handle \/ VCont \/ RunThreads \/ SkipAction \/ StopHart \/ Collect \/ Reply
-----------------------------------------------------------------------------
\* The hart the server waits for in "one".
WaitsFor == Greatest({h \in sel : h \notin unchecked})

\* GDBServerRunner::run() after hart->run() or hart->run_step().
StopEventToAny(h) ==
    /\ runner' = [runner EXCEPT ![h] = IF status'[h] = "Terminated" THEN "dead" ELSE "waiting"]
    /\ phase' = IF phase = "all" /\ h \in sel THEN "sweep" ELSE phase
StopEvent(h) ==
    /\ runner' = [runner EXCEPT ![h] = IF status'[h] = "Terminated" THEN "dead" ELSE "waiting"]
    /\ phase' = IF \/ phase = "all" /\ h \in sel
                   \/ phase = "one" /\ h = WaitsFor
                THEN "sweep" ELSE phase

BreaksAt(h) == pc[h] \in breakpoints

HitsBreakpoint(h) ==
    /\ status' = [status EXCEPT ![h] = "HitBreakpoint"]
    /\ why' = [why EXCEPT ![h] = "05"]

\* The run event: the first run_step() is executed in any case.
Wake(h) ==
    /\ runner[h] = "woken"
    /\ IF BreaksAt(h)
       THEN /\ HitsBreakpoint(h)
            /\ IF single THEN StopEvent(h)
               ELSE runner' = [runner EXCEPT ![h] = "final"] /\ UNCHANGED phase
       ELSE /\ runner' = [runner EXCEPT ![h] = IF single THEN "step" ELSE "exec"]
            /\ why' = [why EXCEPT ![h] = None]
            /\ UNCHANGED <<status, phase>>
    /\ UNCHANGED pc

\* run_step(): the rest of the instruction.
Execute(h) ==
    /\ runner[h] \in {"exec", "step"}
    /\ \E a \in Addresses : pc' = [pc EXCEPT ![h] = a]
    /\ \/ UNCHANGED <<status, why>>
       \/ Ebreaks /\ HitsBreakpoint(h)
       \/ /\ Exits
          /\ status' = [status EXCEPT ![h] = "Terminated"]
          /\ why' = [why EXCEPT ![h] = "03"]
    /\ runner' = [runner EXCEPT ![h] = IF runner[h] = "exec" THEN "loop" ELSE "stepped"]
    /\ UNCHANGED phase

\* The loop of run(), and the next run_step() up to its instruction.
Loop(h) ==
    /\ runner[h] = "loop"
    /\ IF status[h] # "Runnable" \/ BreaksAt(h)
       THEN /\ IF status[h] = "Runnable" THEN HitsBreakpoint(h) ELSE UNCHANGED <<status, why>>
            /\ runner' = [runner EXCEPT ![h] = "final"]
       ELSE runner' = [runner EXCEPT ![h] = "exec"] /\ UNCHANGED <<status, why>>
    /\ UNCHANGED <<pc, phase>>

Final(h) ==
    /\ runner[h] = "final"
    /\ UNCHANGED <<status, pc, why>>
    /\ StopEvent(h)

Stepped(h) ==
    /\ runner[h] = "stepped"
    /\ IF status[h] = "Runnable" THEN HitsBreakpoint(h) ELSE UNCHANGED <<status, why>>
    /\ StopEvent(h)
    /\ UNCHANGED pc

Runner(h) ==
    /\ phase # "next"
    /\ Wake(h) \/ Execute(h) \/ Loop(h) \/ Final(h) \/ Stepped(h)
    /\ UNCHANGED <<packet, actions, matched, single, sel, unchecked, orig, stopped,
                   answer, breakpoints>>

Next == Receive \/ Server \/ \E h \in Threads : Runner(h)

\* The kernel resumes every process that is ready.
Spec == Init /\ [][Next]_vars
FairSpec == Spec /\ WF_vars(Server) /\ \A h \in Threads : WF_vars(Runner(h))
-----------------------------------------------------------------------------
(* All-stop mode (vCont, handler.cpp): no hart executes an instruction except one
   that the current action selected, between its start and the moment run_threads
   has collected all it started. *)
AllStop ==
    [][\A h \in Threads :
         runner[h] \in {"exec", "step"} /\ runner'[h] # runner[h]
         => h \in sel]_vars

(* The debugger hears of what really happened: the thread a stop reply names was not
   just stopped by the server for the sake of another one, it reached a breakpoint,
   finished its step or exited since it was started (run_threads restores the status
   it overwrote); and vCont's assertion that there is such a thread holds. *)
ReportsARealStop ==
    /\ answer # None => answer.reason = why[answer.thread]
    /\ phase = "next" /\ actions = <<>> => stopped # None

(* Once a selected hart has stopped, the packet is carried on: the server collects
   all the others and does not wait for a stop event that has been missed, unless a
   hart has exited, whose runner is gone (GDBServerRunner::run). *)
CollectsTheStopped ==
    /\ phase \in {"all", "one", "sweep"}
    /\ \E h \in sel : runner[h] = "waiting" \/ status[h] # "Runnable"
    ~> phase = "next" \/ \E h \in Threads : runner[h] = "dead"
=============================================================================
