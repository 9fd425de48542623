----------------------------- MODULE ClintHarts -----------------------------
(* What the two core local interruptors, Clint and RealClint, are given. *)
CONSTANTS Harts,      \* the clint_interrupt_targets
          None        \* no hart, and no time
=============================================================================
