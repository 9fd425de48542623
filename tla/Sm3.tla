--------------------------------- MODULE Sm3 ---------------------------------
(***************************************************************************)
(* The hash accelerator SM3 (vp/src/platform/tiny32/SM3.cpp), what one     *)
(* call of SM3_hash does to its state.  A word is the set of the words of  *)
(* the messages that it was computed from, and a hash the sequence of what *)
(* each of its blocks mixed in: which bits come out is left to the tests,  *)
(* from what they are computed is not.                                     *)
(***************************************************************************)
EXTENDS Integers, Sequences, SequencesExt

Zero == {"0"}

\* Mutant: the number of hashes goes on.
ClearedButCount(c) == [c EXCEPT
    !.CF_count = 0, !.W64_count = 0, !.W68_count = 16, !.opt = 0,
    !.W68 = [k \in 0 .. 67 |-> Zero], !.W64 = [k \in 0 .. 63 |-> Zero],
    !.V = << >>, !.V_buf = {}]
\* SM3_rst_in: everything but V_out.
Cleared(c) == [c EXCEPT
    !.CF_count = 0, !.W64_count = 0, !.W68_count = 16, !.opt = 0, !.V_ready_out = 0,
    !.W68 = [k \in 0 .. 67 |-> Zero], !.W64 = [k \in 0 .. 63 |-> Zero],
    !.V = << >>, !.V_buf = {}]

Expanded(W, k) == W[k - 16] \cup W[k - 9] \cup W[k - 3] \cup W[k - 13] \cup W[k - 6]

\* The 64 rounds are over: V is the hash so far.
Finish(c) ==
    LET V == Append(c.V, c.V_buf)
    IN  [c EXCEPT !.V = V, !.V_buf = {}, !.V_out = V, !.V_ready_out = @ + 1, !.opt = 0,
                  !.CF_count = 0, !.W64_count = 0, !.W68_count = 16]

WithMessage(c, message) ==
    [c EXCEPT !.W68 = [k \in 0 .. 67 |-> IF k < 16 THEN {message[k]} ELSE @[k]]]
Extend68(c) ==
    IF c.W68_count > 67 THEN c
    ELSE [c EXCEPT !.W68[c.W68_count] = Expanded(c.W68, c.W68_count), !.W68_count = @ + 1]
Extend64(c) ==
    IF c.W64_count > 63 THEN c
    ELSE [c EXCEPT !.W64[c.W64_count] = c.W68[c.W64_count] \cup c.W68[c.W64_count + 4],
                   !.W64_count = @ + 1]
\* Mutant: V_buf goes on from the block before.
CompressOrStop(c) ==
    IF c.CF_count > 63 THEN [Finish(c) EXCEPT !.V_buf = c.V_buf]
    ELSE [c EXCEPT !.V_buf = @ \cup c.W64[c.CF_count] \cup c.W68[c.CF_count],
                   !.CF_count = @ + 1]
Compress(c) ==
    IF c.CF_count > 63 THEN Finish(c)
    ELSE [c EXCEPT !.V_buf = @ \cup c.W64[c.CF_count] \cup c.W68[c.CF_count],
                   !.CF_count = @ + 1]

\* USING_SM3_AC: one word and one round in a call, and a last call for the result.
RoundOf(c, message) == Compress(Extend64(Extend68(WithMessage(c, message))))

\* USING_SM3_AP and USING_SM3_NO: the whole block in a call.
BlockOf(c, message) ==
    LET W == FoldLeft(LAMBDA W, k : [W EXCEPT ![k + 15] = Expanded(W, k + 15)],
                      WithMessage(c, message).W68, [k \in 1 .. 52 |-> k])
        W64 == [k \in 0 .. 63 |-> W[k] \cup W[k + 4]]
    IN  Finish([c EXCEPT !.W68 = W, !.W64 = W64,
                         !.V_buf = @ \cup UNION {W64[k] \cup W[k] : k \in 0 .. 63}])

\* SM3_hash, called at a rising edge of the clock, or (NO) when an input changes.
SM3_hash(core, rst, opt, message, variant) ==
    LET c == IF opt = "1" THEN [core EXCEPT !.opt = 1] ELSE core
    IN  IF rst = "1" THEN Cleared(c)
        ELSE IF c.opt = 1 /\ opt = "0"
             THEN IF variant = "AC" THEN RoundOf(c, message) ELSE BlockOf(c, message)
             ELSE c

\* After the platform's reset.
First == [opt |-> 0, CF_count |-> 0, W64_count |-> 0, W68_count |-> 16, V_ready_out |-> 0,
          W68 |-> [k \in 0 .. 67 |-> Zero], W64 |-> [k \in 0 .. 63 |-> Zero],
          V |-> << >>, V_buf |-> {}, V_out |-> << >>]
=============================================================================
