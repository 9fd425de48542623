--------------------------------- MODULE Sm4 ---------------------------------
(***************************************************************************)
(* The cipher accelerator SM4 (vp/src/platform/tiny32/SM4.cpp) and the     *)
(* register block that controls it (SM4_REG.cpp).  Their methods           *)
(* communicate by signals: in a delta cycle every method reads what the    *)
(* signals were before it and the writes are seen in the next one.  A      *)
(* method is the record of the fields that it writes.  KeyExp_en and       *)
(* EncDec_en have two writers, so the simulation runs without SystemC's    *)
(* check of writers.  As in Sm3, a word is the set of what it was computed *)
(* from.                                                                   *)
(***************************************************************************)
EXTENDS Integers, TLC, SequencesExt

Zero == {"0"}

SIGNALS == {"SM4_CORE_rst", "KeyExp_en", "EncDec_en", "mode", "key", "data", "rk_ready",
            "Encdata_ready", "Decdata_ready", "data_state", "data_out"}
Nothing == [f \in {} |-> {}]

\* What an edge of the clock, or (NO) a new control word, starts.
control_proc(data_opt, data_in) ==
    CASE data_opt = "0" -> [SM4_CORE_rst |-> FALSE]
      [] data_opt = "1" -> [SM4_CORE_rst |-> TRUE, key |-> data_in, KeyExp_en |-> TRUE]
      [] data_opt = "2" -> [data |-> data_in, mode |-> TRUE, EncDec_en |-> TRUE]
      [] data_opt = "3" -> [data |-> data_in, mode |-> FALSE, EncDec_en |-> TRUE]
      [] OTHER -> Nothing

\* What software sees, and the end of what was started; for changes of the signals below.
STATE_SENSITIVE == {"SM4_CORE_rst", "KeyExp_en", "rk_ready", "EncDec_en", "mode",
                    "Encdata_ready", "Decdata_ready"}
\* Mutant: an encryption does not end the enable.
StateForgetsEnable(c) ==
    IF ~c.SM4_CORE_rst THEN [data_state |-> 0]
    ELSE IF c.KeyExp_en
         THEN IF c.rk_ready THEN [KeyExp_en |-> FALSE, data_state |-> 2] ELSE [data_state |-> 1]
    ELSE IF ~c.EncDec_en \/ ~c.rk_ready THEN Nothing
    ELSE IF c.mode
         THEN IF c.Encdata_ready THEN [data_state |-> 4] ELSE [data_state |-> 3]
    ELSE IF ~c.Encdata_ready THEN Nothing
    ELSE IF c.Decdata_ready THEN [EncDec_en |-> FALSE, data_state |-> 6] ELSE [data_state |-> 5]
state_proc(c) ==
    IF ~c.SM4_CORE_rst THEN [data_state |-> 0]
    ELSE IF c.KeyExp_en
         THEN IF c.rk_ready THEN [KeyExp_en |-> FALSE, data_state |-> 2] ELSE [data_state |-> 1]
    ELSE IF ~c.EncDec_en \/ ~c.rk_ready THEN Nothing
    ELSE IF c.mode
         THEN IF c.Encdata_ready THEN [EncDec_en |-> FALSE, data_state |-> 4]
              ELSE [data_state |-> 3]
    ELSE IF ~c.Encdata_ready THEN Nothing
    ELSE IF c.Decdata_ready THEN [EncDec_en |-> FALSE, data_state |-> 6] ELSE [data_state |-> 5]

\* Both write past the end of an array in a round after the last; overrun says that one has.
Mix(W, k, with) == W[k] \cup W[k + 1] \cup W[k + 2] \cup W[k + 3] \cup with

Each == [k \in 1 .. 32 |-> k]
WithKey(c) == [k \in 0 .. 35 |-> IF k < 4 THEN {c.key[k]} ELSE c.rk[k]]
OneKey(c) ==
    IF c.i > 31 THEN [overrun |-> TRUE, i |-> c.i]
    ELSE [rk |-> [WithKey(c) EXCEPT ![c.i + 4] = Mix(WithKey(c), c.i, {})], i |-> c.i + 1,
          rk_ready |-> c.rk_ready \/ c.i = 31]
AllKeys(c) ==
    [rk |-> FoldLeft(LAMBDA rk, k : [rk EXCEPT ![k + 3] = Mix(rk, k - 1, {})],
                     WithKey(c), Each),
     i |-> 32, rk_ready |-> TRUE]

KeyExp(c, variant) ==
    IF ~c.SM4_CORE_rst THEN [i |-> 0, rk_ready |-> FALSE]
    ELSE IF ~c.KeyExp_en THEN Nothing
    ELSE IF variant = "AC" THEN OneKey(c) ELSE AllKeys(c)

WithData(c) == [k \in 0 .. 35 |-> IF k < 4 THEN {c.data[k]} ELSE c.X[k]]
RoundKey(c, j) == c.rk[IF c.mode THEN j + 4 ELSE 35 - j] \cup {IF c.mode THEN "enc" ELSE "dec"}
Ready(c) == IF c.mode THEN [Encdata_ready |-> TRUE] ELSE [Decdata_ready |-> TRUE]
OneRound(c) ==
    IF c.j > 31 THEN [overrun |-> TRUE]
    ELSE LET X == [WithData(c) EXCEPT ![c.j + 4] = Mix(WithData(c), c.j, RoundKey(c, c.j))]
         IN  [X |-> X, j |-> IF c.j = 31 /\ c.mode THEN 0 ELSE c.j + 1]
             @@ (IF c.j = 31 THEN [data_out |-> UNION {X[k] : k \in 32 .. 35}] @@ Ready(c)
                 ELSE Nothing)
AllRounds(c) ==
    LET X == FoldLeft(LAMBDA X, k : [X EXCEPT ![k + 3] = Mix(X, k - 1, RoundKey(c, k - 1))],
                      WithData(c), Each)
    IN  [X |-> X, j |-> IF c.mode THEN 0 ELSE 32,
         data_out |-> UNION {X[k] : k \in 32 .. 35}] @@ Ready(c)

EncDec(c, variant) ==
    IF ~c.SM4_CORE_rst THEN [j |-> 0, Encdata_ready |-> FALSE, Decdata_ready |-> FALSE]
    ELSE IF ~c.EncDec_en THEN Nothing
    ELSE IF variant = "AC" THEN OneRound(c) ELSE AllRounds(c)

\* The delta cycle of a rising edge, without NO.
AtEdge(c, data_opt, data_in, variant) ==
    EncDec(c, variant) @@ KeyExp(c, variant) @@ control_proc(data_opt, data_in) @@ c

\* A delta cycle after one in which these signals changed; "data_opt" is the control word.
AfterChange(c, changed, data_opt, data_in, variant) ==
    LET If(condition, writes) == IF condition THEN writes ELSE Nothing
        falls == "SM4_CORE_rst" \in changed /\ ~c.SM4_CORE_rst
    IN  If(changed \cap STATE_SENSITIVE # {}, state_proc(c))
        @@ If(IF variant = "NO" THEN "EncDec_en" \in changed ELSE falls, EncDec(c, variant))
        @@ If(IF variant = "NO" THEN "KeyExp_en" \in changed ELSE falls, KeyExp(c, variant))
        @@ If(variant = "NO" /\ "data_opt" \in changed, control_proc(data_opt, data_in))
        @@ c

First == [SM4_CORE_rst |-> FALSE, KeyExp_en |-> FALSE, EncDec_en |-> FALSE, mode |-> FALSE,
          key |-> [k \in 0 .. 3 |-> "0"], data |-> [k \in 0 .. 3 |-> "0"], rk_ready |-> FALSE,
          Encdata_ready |-> FALSE, Decdata_ready |-> FALSE, data_state |-> 0, data_out |-> Zero,
          rk |-> [k \in 0 .. 35 |-> Zero], X |-> [k \in 0 .. 35 |-> Zero], i |-> 0, j |-> 0,
          overrun |-> FALSE]
=============================================================================
