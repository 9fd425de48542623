------------------------------- MODULE MCClint -------------------------------
(***************************************************************************)
(* A platform has the interruptor that follows SystemC's time, of Clint,   *)
(* or the one that follows the wall clock, of RealClint.  A third kind of  *)
(* behaviour is about NVMain's top level, which shares nothing with them.  *)
(* The variables of the others keep their first values.  The harts are     *)
(* interchangeable.                                                        *)
(***************************************************************************)
EXTENDS Clint, RealTime, TLC

CONSTANTS rowBits, colBits, bankBits, rankBits, channelBits, subarrayBits, Lines, Stream,
          queueSize, PrefetchBufferSize, promotionChannel, MaxOutstanding, MaxPrefetches, MaxMigrations, Recurs

VARIABLES kind,                                   \* what the behaviour is about
          clock, realCmp, realTip, realSip, timer, event, writer,
          config, top, memory, buffers

realVars == <<clock, realCmp, realTip, realSip, timer, event, writer>>

topVars == <<config, top, memory, buffers>>

Real == INSTANCE RealClint WITH mtimecmp <- realCmp, mtip <- realTip, msip <- realSip
Top == INSTANCE NVMain

ASSUME Top!NVMainAssumption

MCInit ==
    /\ Init /\ Real!Init /\ Top!Init
    /\ \/ kind \in {"clint", "real_clint"} /\ config.mode = "atomic"
       \/ kind = "memory"

MCNext ==
    /\ UNCHANGED kind
    /\ \/ kind = "clint" /\ Next /\ UNCHANGED <<realVars, topVars>>
       \/ kind = "real_clint" /\ Real!Next /\ UNCHANGED <<vars, topVars>>
       \/ kind = "memory" /\ Top!Next /\ UNCHANGED <<vars, realVars>>

MCSpec == MCInit /\ [][MCNext]_<<vars, realVars, topVars, kind>>

HartSymmetry == Permutations(Harts)
-----------------------------------------------------------------------------
(* RealClint's timers: one that is set goes off, when mtime has reached it. *)
RealTimersAreExact == Real!RealTimersAreExact

(* While NVMain exchanges pages no content is lost, its asserts hold and no hook calls through
   a parent that is gone; no answer is lost between the controllers, the prefetch buffer and
   the migration's; and translations are exact (CoinMigrator.cpp:163, nvmain.cpp:388). *)
MemoryIsKept == kind = "memory" => Top!MemoryIsKept
=============================================================================
