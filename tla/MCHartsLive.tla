----------------------------- MODULE MCHartsLive -----------------------------
(***************************************************************************)
(* What must happen to harts: their accesses get through the bus lock      *)
(* (HartMemory, on a small instance without devices, with SystemC's time), *)
(* or a debugger starts and collects them (GdbServer, with three of them   *)
(* and two addresses).  A behaviour is about one of the two; the variables *)
(* of the other keep a first value.                                        *)
(***************************************************************************)
EXTENDS MCHartMemory, Integers

CONSTANTS N, Addresses, Commands, Ebreaks, Exits

VARIABLES kind,
          timed,         \* the harts that wait for time to pass
          packet, phase, actions, matched, single, sel, unchecked, orig, stopped, answer,
          breakpoints, status, runner, address, why

gdbVars == <<packet, phase, actions, matched, single, sel, unchecked, orig, stopped, answer,
             breakpoints, status, runner, address, why>>

Gdb == INSTANCE GdbServer WITH pc <- address

Part(s, t) == [single |-> s, tid |-> t]

\* GDB_THREAD_ALL and GDB_THREAD_ANY.
EveryHart == -1
AnyHart == 0

\* What gdb sends: to all, to one, to one and the others, to any, to one that is not there.
Packets ==
    {[name |-> "vCont", actions |-> a] :
        a \in {<<Part(FALSE, EveryHart)>>, <<Part(FALSE, 1)>>, <<Part(TRUE, 2)>>,
               <<Part(TRUE, EveryHart)>>,
               <<Part(TRUE, 1), Part(FALSE, EveryHart)>>,
               <<Part(FALSE, AnyHart), Part(FALSE, 4)>>}}
    \cup [name : {"Z", "z"}, address : {CHOOSE a \in Addresses : TRUE}]
    \cup {[name |-> "query"]}

ASSUME GdbAssumption == Gdb!GdbServerAssumption

\* The simulated time advances when nothing else is left to do: no notification is
\* on its way, and every hart waits for the lock, for an interrupt or for time to pass.
TimeAdvances ==
    /\ ~lock_event
    /\ \A h \in Harts : h \in waiting \cup timed \/ pc[h] = "sleep"

\* wait(time): h has given up the processor and waits for nothing but time.
WaitsForTime(h) == running = NoOne /\ h \notin waiting /\ pc[h] # "sleep"

\* A step of h, which time has resumed if it waited in a target's b_transport or
\* in a quantum synchronisation.
TimedStep(h) ==
    /\ h \in timed => TimeAdvances
    /\ HartStep(h)
    /\ timed' = IF WaitsForTime(h)' THEN timed \cup {h} ELSE timed \ {h}

MemoryStep ==
    \/ \E h \in Harts : TimedStep(h)
    \/ KernelDelta /\ UNCHANGED timed

LiveInit ==
    /\ Init /\ Gdb!Init /\ timed = {}
    /\ \/ kind = "memory" /\ address = [h \in Gdb!Threads |-> CHOOSE a \in Addresses : TRUE]
       \/ /\ kind = "gdb"
          /\ platform = CHOOSE p \in Platforms : TRUE
          /\ data = [h \in Harts |-> CHOOSE v \in Vals : TRUE]
          /\ owner = CHOOSE h \in Harts : TRUE

\* A debugged platform may come to an end: its harts exit.
LiveNext ==
    /\ UNCHANGED kind
    /\ \/ kind = "memory" /\ MemoryStep /\ UNCHANGED gdbVars
       \/ /\ kind = "gdb" /\ (Gdb!Next \/ UNCHANGED gdbVars)
          /\ UNCHANGED <<vars, timed>>

liveVars == <<kind, timed, vars, gdbVars>>

\* A thread that may execute does so in the end: an evaluation phase of the SystemC
\* kernel runs every runnable thread, and no wait(time) lasts for ever.  Nothing says
\* when an interrupt ends a WFI.
LiveSpec ==
    /\ LiveInit /\ [][LiveNext]_liveVars
    /\ \A h \in Harts : SF_vars(kind = "memory" /\ TimedStep(h) /\ pc[h] # "sleep")
    /\ WF_vars(kind = "memory" /\ KernelDelta)
    /\ WF_gdbVars(kind = "gdb" /\ Gdb!Server)
    /\ \A h \in Gdb!Threads : WF_gdbVars(kind = "gdb" /\ Gdb!Runner(h))
-----------------------------------------------------------------------------
(* HartMemory: whoever wants to access the memory does so in the end, also behind a
   hart that waits in a target with the lock held (bus_lock_if.h, performance_and_
   sync_update). *)
AccessesGetThrough == kind = "memory" => HartProgress

(* GdbServer: no hart runs that the current action has not selected; a stop reply
   names a thread that did stop, for the reason it gives; and once one of the started
   harts has stopped, all of them are collected. *)
AllStop == Gdb!AllStop
ReportsARealStop == Gdb!ReportsARealStop
CollectsTheStopped == kind = "gdb" => Gdb!CollectsTheStopped
=============================================================================
