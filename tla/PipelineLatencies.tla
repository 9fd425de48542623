-------------------------- MODULE PipelineLatencies --------------------------
(* What Scoreboard and PipelineTiming are given: registers, accesses and cycles. *)
EXTENDS Integers, FiniteSets

CONSTANTS Regs, Zero,
          Ranges,            \* {addr, addr + size} of the loads and stores
          MultLatency,       \* get_mult_result_latency
          DivLatencies,      \* get_div_result_latency, at random
          CsrLatency,
          StoreLatency,
          FirstCycles,       \* what num_total_cycles, which nothing initialises, may hold
          MaxCycles          \* bound of num_total_cycles

ASSUME PipelineAssumption ==
    /\ Zero \in Regs
    /\ {MultLatency, CsrLatency, StoreLatency} \cup DivLatencies \subseteq Nat \ {0}
    /\ \A range \in Ranges : {range.start, range.end} \subseteq Nat /\ range.start < range.end
    /\ FirstCycles \subseteq Nat /\ MaxCycles \in Nat
=============================================================================
