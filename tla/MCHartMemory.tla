---------------------------- MODULE MCHartMemory ----------------------------
(* Small instances of HartMemory: two harts, one device, AMOs that count. *)
EXTENDS HartMemory, TLC

MCVals == {0, 1}
MCModify == [v \in MCVals |-> (v + 1) % 2]

\* Where only the lock matters, a memory of one value.
MCOneVal == {0}
MCNoChange == [v \in MCOneVal |-> v]

\* The platforms of the repository: without address translation, where any
\* target may wait, and with it over memories that do not.
MCBarePlatforms == [paged : {FALSE}, targetsWait : BOOLEAN]
MCPagedPlatform == {[paged |-> TRUE, targetsWait |-> FALSE]}
MCPlatforms == MCPagedPlatform \cup {[paged |-> FALSE, targetsWait |-> TRUE]}

\* Harts are interchangeable, and so are addresses; runs without liveness only.
Symmetry == Permutations(Harts) \cup Permutations(Addrs)
=============================================================================
