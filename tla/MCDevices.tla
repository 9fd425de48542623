------------------------------ MODULE MCDevices ------------------------------
(***************************************************************************)
(* Components that share no state, one in each behaviour: a rank of the    *)
(* memory (RankTiming) with small timing parameters, one of the            *)
(* accelerators of the platform tiny32, and the CAN controller of the      *)
(* HiFive platform.                                                        *)
(***************************************************************************)
EXTENDS RankTiming

CONSTANTS None, NoRegister, ReadsBack, queue_size, MaxOps, MaxArrivals, Sending

VARIABLES kind,                                   \* which device the behaviour is about
          accelerator, variant, port, regs, out, registers, sm3, sm4, changed, at, op, results,
          can, rxBuf, status, clearing, rxqueue, listener, driver, bus, wanted, arrived, received

accVars == <<accelerator, variant, port, regs, out, registers, sm3, sm4, changed, at, op, results>>
canVars == <<can, rxBuf, status, clearing, rxqueue, listener, driver, bus, wanted, arrived, received>>

\* A frame of one byte with the largest id, and one of two.
MCFrames == {[id |-> 2047, data |-> <<7>>], [id |-> 9, data |-> <<5, 0>>]}
MCControls == {[mask |-> 224, data |-> 128]}

Acc == INSTANCE Accelerators WITH device <- accelerator, bank <- registers
Bus == INSTANCE Can WITH Frames <- MCFrames, Controls <- MCControls

\* What the behaviour is not about keeps one of its first values.
NoAccelerator == accelerator = "SM3" /\ variant = "NO" /\ port = "socket"
NoCan == \A r \in DOMAIN can.registers : can.registers[r] = 0

AllInit ==
    /\ Init /\ Acc!Init /\ Bus!Init
    /\ \/ kind = "rank" /\ NoAccelerator /\ NoCan
       \/ kind = "accelerator" /\ NoCan
       \/ kind = "can" /\ NoAccelerator

\* A driver and a bus with no more to do.
Over == kind = "can" /\ Bus!Over

AllNext ==
    /\ UNCHANGED kind
    /\ \/ kind = "rank" /\ Next /\ UNCHANGED <<accVars, canVars>>
       \/ kind = "accelerator" /\ Acc!Next /\ UNCHANGED <<vars, canVars>>
       \/ kind = "can" /\ Bus!Next /\ UNCHANGED <<vars, accVars>>
       \/ Over /\ UNCHANGED <<vars, accVars, canVars>>

AllSpec ==
    /\ AllInit /\ [][AllNext]_<<kind, vars, accVars, canVars>>
    /\ kind = "accelerator" => Acc!Fairness

(* What a guest reads of an accelerator was computed from its message, or its key and its
   block, and from nothing else, by every round, in every timing and through both ports; no
   round follows the last one, which would write past SM4's arrays (SM3.cpp:71, SM4.cpp:105).
   And a frame crosses the CAN controller whole or not at all, in both directions, whatever
   the thread of the host stores meanwhile (can.cpp:388, 424). *)
DataAreRight == Acc!ResultsAreRight /\ Bus!FramesAreWhole

(* A guest's polling of an accelerator ends: no ready state is taken back or raised too late
   to be seen, between two clocks and a hart that waits in a transaction (SM4_REG.cpp:33). *)
ResultsArrive == kind = "accelerator" => Acc!ResultsArrive
=============================================================================
