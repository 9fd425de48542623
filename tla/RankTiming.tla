----------------------------- MODULE RankTiming -----------------------------
(***************************************************************************)
(* The device side of NVmain: one StandardRank with its DDR3Banks, each    *)
(* with one SubArray, behind an OffChipBus that a second rank shares.  The *)
(* three levels keep a window per kind of command (`next...`: the first    *)
(* cycle in which it may be issued) and a state; a command is issuable     *)
(* when no level objects, and issuing it moves windows of all three.  An   *)
(* implicit precharge, the end of a precharge, of a refresh and of a write *)
(* are events of later cycles.                                             *)
(*                                                                         *)
(* Cycles are counted from the current one: a window of n opens in n       *)
(* cycles and 0 is open, an event in n cycles fires when its count reaches *)
(* 0.  Any issuable command may come at any time; the other rank's column  *)
(* commands are limited by its rank-level windows alone.  burstCount is 1  *)
(* and rows are left out: a column command is for the open row.            *)
(*                                                                         *)
(* The variables age, bursts and broken are the observer: a memory device  *)
(* that knows only which commands it got, and when.                        *)
(***************************************************************************)
EXTENDS Integers

CONSTANTS banksPerRefresh,     \* banks of one REFRESH
          bankCount,
          closePage,           \* 0: the controller uses no implicit precharges
          rawNum,              \* activations allowed within tRAW
          tBURST, tCCD, tCAS, tCWD, tRTRS, tOST, tWTR, tRTP, tWR,
          tRCD, tRAS, tRP, tRRDR, tRAW, tRFC,
          tXP, tXPDLL, tPD, tPPD, tRDPDEN, tWRPDEN,
          tWP                  \* what WriteCellData returns

Banks == 0 .. bankCount - 1

ASSUME CountAssumption == /\ bankCount \in Nat \ {0}
                          /\ banksPerRefresh \in Nat \ {0}
                          /\ bankCount % banksPerRefresh = 0
                          /\ rawNum \in Nat \ {0}
\* A timing file of a device: each command leaves time for what follows it.
ASSUME TimingAssumption == /\ {tBURST, tCCD, tCAS, tCWD, tRP, tRCD, tRTP, tRFC, tPD} \subseteq Nat \ {0}
                           /\ {tRTRS, tOST, tWTR, tWR, tRAS, tRRDR, tRAW,
                               tXP, tXPDLL, tPPD, tRDPDEN, tWRPDEN, tWP} \subseteq Nat
                           /\ tCCD <= tBURST
                           /\ tXP <= tXPDLL
\* An implicit precharge waits for its own command alone: that of a read must not come before
\* the row is restored or an earlier write recovered, that of a write not before an earlier read
\* lets it.
ASSUME RestoreAssumption ==
    closePage # 0 => /\ tRAS <= tRCD + tRTP
                     /\ tWR <= tWTR + tRTP
                     /\ tRTP <= tCWD + tBURST + tWP + tWR

VARIABLES rank,                \* StandardRank: state, windows, the ring of activations
          rankEvents,          \* its own PRECHARGE and REFRESH responses to come
          bank,                \* DDR3Bank
          array,               \* SubArray
          peer,                \* nextRead and nextWrite of the rank sharing the bus
          age, bursts, broken

device == <<rank, rankEvents, bank, array, peer>>
vars == <<rank, rankEvents, bank, array, peer, age, bursts, broken>>

Later(a, b) == IF a > b THEN a ELSE b
Earlier(a, b) == IF a < b THEN a ELSE b
Less(n) == IF n = 0 THEN 0 ELSE n - 1
\* A window moved to t cycles from now, if it is not later already.
Raise(r, field, t) == [r EXCEPT ![field] = Later(@, t)]
RaiseAll(r, fields, t) ==
    [f \in DOMAIN r |-> IF f \in fields THEN Later(r[f], t) ELSE r[f]]

Burst == Later(tBURST, tCCD)
Turn == tCAS + tBURST + tRTRS - tCWD          \* a read, then a write
WriteToRead == tCWD + tBURST + tWTR

Columns == {"READ", "WRITE"}
           \cup (IF closePage = 0 THEN {} ELSE {"READ_PRECHARGE", "WRITE_PRECHARGE"})
IsRead(op) == op \in {"READ", "READ_PRECHARGE"}
IsWrite(op) == op \in {"WRITE", "WRITE_PRECHARGE"}
PowerDowns == {"PDA", "PDPF", "PDPS"}

-----------------------------------------------------------------------------
\* The observer.

Kinds == {"ACT", "READ", "WRITE", "PRE", "REF"}
\* No rule looks back further than this.
Horizon ==
    [k \in Kinds |->
        CASE k = "ACT" -> Later(tRAS + tRP, Later(tRRDR, tRCD))
          [] k = "PRE" -> tRP
          [] k = "REF" -> tRFC
          [] k = "READ" -> Later(Later(tCAS + tBURST + 1, Turn), Later(Burst, tRTP))
          [] k = "WRITE" -> Later(WriteToRead, Later(tCWD + tBURST + tWR + tWP, Burst))]

Since(kind, b) == age.of[b][kind]
\* The rank has had no such command for t cycles.
RankWithout(kind, t) == \A b \in Banks : Since(kind, b) >= t

Unless(holds, rule) == IF holds THEN {} ELSE {rule}

\* What a row whose commands are that old needs before it is closed.
TooSoonToClose(since) ==
    Unless(since["ACT"] >= tRAS, "tRAS")
    \cup Unless(since["READ"] >= tRTP, "tRTP")
    \cup Unless(since["WRITE"] >= tCWD + tBURST + tWR + tWP, "tWR")

\* The demands of the device that a command for bank b does not meet, in the
\* words of the timing parameters.
Misses(op, b) ==
    CASE op \in {"ACT", "REF"} ->
            Unless(Since("ACT", b) >= tRAS + tRP, "tRC")
            \cup Unless(Since("PRE", b) >= tRP, "tRP")
            \cup Unless(Since("REF", b) >= tRFC, "tRFC")
            \cup Unless(op = "REF" \/ RankWithout("ACT", tRRDR), "tRRD")
            \cup Unless(op = "REF" \/ age.acts[rawNum] >= tRAW, "tRAW")
            \cup Unless(age.up >= tXP, "tXP")
      [] op = "READ" ->
            Unless(Since("ACT", b) >= tRCD, "tRCD")
            \cup Unless(RankWithout("READ", Burst), "tCCD")
            \cup Unless(RankWithout("WRITE", WriteToRead), "tWTR")
            \cup Unless(age.up >= (IF age.slow THEN tXPDLL ELSE tXP), "tXP")
      [] op = "WRITE" ->
            Unless(Since("ACT", b) >= tRCD, "tRCD")
            \cup Unless(RankWithout("WRITE", Burst), "tCCD")
            \cup Unless(RankWithout("READ", Turn), "tRTW")
            \cup Unless(age.up >= tXP, "tXP")
      [] op = "PRE" ->
            TooSoonToClose(age.of[b])
            \cup Unless(age.up >= tXP, "tXP")
      [] op = "DOWN" ->
            Unless(Since("ACT", b) >= tRCD, "tRCD")
            \cup Unless(Since("PRE", b) >= tRP, "tRP")
            \cup Unless(Since("REF", b) >= tRFC, "tRFC")
            \cup Unless(Since("READ", b) > tCAS + tBURST, "tRD")
            \cup Unless(Since("WRITE", b) >= tCWD + tBURST, "tWR")
            \cup Unless(age.up >= tXP, "tXP")
      [] op = "UP" -> Unless(age.down >= tPD, "tPD")

\* The rules a command for the banks bs breaks.
Breaks(op, bs) == UNION {Misses(op, b) : b \in bs}

Judge(op, bs) == broken' = broken \cup Breaks(op, bs)

Note(op, bs) ==
    age' = [age EXCEPT !.of = [b \in Banks |-> IF b \in bs THEN [@[b] EXCEPT ![op] = 0] ELSE @[b]]]
\* The latest rawNum activations of the rank, a refresh being one.
NoteActivation(op, bs) ==
    age' = [age EXCEPT !.of = [b \in Banks |-> IF b \in bs THEN [@[b] EXCEPT ![op] = 0] ELSE @[b]],
                       !.acts = [i \in 1..rawNum |-> IF i = 1 THEN 0 ELSE @[i - 1]]]

\* The data of a column command: when they are on the bus, and whose they are.
BurstOf(op, who) == LET from == IF IsRead(op) THEN tCAS ELSE tCWD
                    IN  [who |-> who, from |-> from, to |-> from + tBURST]

\* Whether two bursts meet on the data bus the ranks share; between those of different ranks
\* it rests.
Meet(s, t) ==
    LET rest == IF s.who = t.who THEN 0 ELSE Earlier(tRTRS, tOST)
    IN  s.to + rest > t.from /\ t.to + rest > s.from

\* The rules its command breaks are those of the device and that of the bus.
Transfer(op, who, rules) ==
    LET data == BurstOf(op, who)
    IN  /\ bursts' = bursts \cup {data}
        /\ broken' = broken \cup rules \cup (IF \E t \in bursts : Meet(data, t) THEN {"bus"} ELSE {})

-----------------------------------------------------------------------------
\* SubArray.

Windows(r) == DOMAIN r \ {"state", "events", "writing"}

ArrayIssuable(op, a) ==
    CASE op \in {"ACT", "REF"} -> a.nextActivate = 0 /\ a.state = "CLOSED"
      [] IsRead(op) -> a.nextRead = 0 /\ a.state = "OPEN"
      [] IsWrite(op) -> a.nextWrite = 0 /\ a.state = "OPEN"
      [] op = "PRE" -> a.nextPrecharge = 0 /\ a.state \in {"OPEN", "CLOSED"}
      [] op \in PowerDowns -> a.nextPowerDown = 0 /\ a.writing = 0
      [] op = "UP" -> TRUE

Respond(a, what, when) == [a EXCEPT !.events = @ \cup {[what |-> what, in |-> when]}]

ArrayActivate(a) ==
    RaiseAll(RaiseAll([a EXCEPT !.state = "OPEN"],
                      {"nextPrecharge", "nextPowerDown"}, Later(tRCD, tRAS)),
             {"nextRead", "nextWrite"}, tRCD)

\* The row closes by itself `done` cycles from now: everything waits for the
\* end of the implicit precharge.
CloseImplicitly(a, done) ==
    Respond(RaiseAll(a, {"nextActivate", "nextPrecharge", "nextRead", "nextWrite"},
                     Later(a.nextActivate, done + tRP)),
            "implicit", done)

\* A read; tAL, the additive latency, is 0 (Params' default, and every configuration
\* of NVmain/Config) and is left out of the sums here and in the writes.
ArrayRead(op, a) ==
    Raise(IF op = "READ_PRECHARGE" THEN CloseImplicitly(a, tRTP)
          ELSE Raise(Raise(Raise(a, "nextPrecharge", tBURST + tRTP - tCCD),
                           "nextRead", Burst),
                     "nextWrite", Turn),
          "nextPowerDown", tCAS + tBURST + 1)

ArrayWrite(op, a) ==
    LET w == IF op = "WRITE_PRECHARGE" THEN CloseImplicitly(a, tCWD + tBURST + tWP + tWR)
             ELSE Raise(Raise(Raise(a, "nextPrecharge", tCWD + tBURST + tWP + tWR),
                              "nextRead", WriteToRead + tWP),
                        "nextWrite", Burst + tWP)
    IN  [Raise(w, "nextPowerDown", w.nextPrecharge) EXCEPT !.writing = tCWD + Burst + tWP]

ArrayPrecharge(a) ==
    Respond(Raise([a EXCEPT !.state = "PRECHARGING"], "nextActivate", Later(1, tRP)),
            "closed", Later(1, tRP))

ArrayRefresh(a) ==
    Respond(Raise([a EXCEPT !.state = "REFRESHING"], "nextActivate", tRFC), "closed", tRFC)

ArrayDo(op, a) ==
    CASE op = "ACT" -> ArrayActivate(a)
      [] IsRead(op) -> ArrayRead(op, a)
      [] IsWrite(op) -> ArrayWrite(op, a)
      [] op = "PRE" -> ArrayPrecharge(a)
      [] op = "REF" -> ArrayRefresh(a)

\* RequestComplete for the event that is due.
ArrayRespond(what, a) ==
    CASE what = "implicit" -> Respond([a EXCEPT !.state = "PRECHARGING"], "closed", tRP)
      [] what = "closed" -> [a EXCEPT !.state = "CLOSED"]

Closing(a) == a.state \in {"CLOSED", "PRECHARGING"}                   \* Idle()
RankIdle == \A b \in Banks : Closing(array[b])

-----------------------------------------------------------------------------
\* DDR3Bank.

BankIssuable(op, b) ==
    LET k == bank[b]
    IN  /\ CASE op = "ACT" -> k.nextActivate = 0 /\ k.state \in {"OPEN", "CLOSED"}
              [] op = "REF" -> k.nextActivate = 0 /\ k.state \in {"OPEN", "CLOSED"}
              [] IsRead(op) -> k.nextRead = 0 /\ k.state = "OPEN"
              [] IsWrite(op) -> k.nextWrite = 0 /\ k.state = "OPEN"
              [] op = "PRE" -> k.nextPrecharge = 0 /\ k.state \in {"OPEN", "CLOSED"}
              [] op \in PowerDowns -> /\ k.nextPowerDown = 0
                                     /\ k.state \in (IF op = "PDA" THEN {"OPEN", "CLOSED"} ELSE {"CLOSED"})
              [] op = "UP" -> k.nextPowerUp = 0 /\ k.state \in PowerDowns
        /\ ArrayIssuable(op, array[b])

BankActivate(k) == Raise([k EXCEPT !.state = "OPEN"], "nextPowerDown", tRCD)

BankRead(op, k) ==
    LET w == Raise(Raise(k, "nextRead", Burst), "nextWrite", Turn)
    IN  IF op = "READ_PRECHARGE"
        THEN [Raise(w, "nextPowerDown", tRTP + tRP) EXCEPT !.state = "CLOSED"]
        ELSE Raise(w, "nextPowerDown", tRDPDEN)

BankWrite(op, k) ==
    LET w == Raise(Raise(k, "nextRead", WriteToRead), "nextWrite", Burst)
    IN  IF op = "WRITE_PRECHARGE"
        THEN [w EXCEPT !.state = "CLOSED",
                       !.nextPowerDown = Later(k.nextActivate, tCWD + tBURST + tWR + tRP)]
        ELSE Raise(w, "nextPowerDown", tWRPDEN)

BankPrecharge(k) == Raise([k EXCEPT !.state = "CLOSED"], "nextPowerDown", tRP)
BankRefresh(k) == Raise(k, "nextPowerDown", tRFC)

BankPowerDown(op, k) ==
    Raise([k EXCEPT !.state = IF @ = "OPEN" THEN "PDA"
                              ELSE IF op = "PDPS" THEN "PDPS" ELSE "PDPF"],
          "nextPowerUp", tPD)

BankPowerUp(k) ==
    Raise(RaiseAll([k EXCEPT !.state = IF @ = "PDA" THEN "OPEN" ELSE "CLOSED"],
                   {"nextPowerDown", "nextActivate", "nextPrecharge", "nextWrite"}, tXP),
          "nextRead", IF k.state = "PDPS" THEN tXPDLL ELSE tXP)

BankDo(op, k) ==
    CASE op = "ACT" -> BankActivate(k)
      [] IsRead(op) -> BankRead(op, k)
      [] IsWrite(op) -> BankWrite(op, k)
      [] op = "PRE" -> BankPrecharge(k)
      [] op = "REF" -> BankRefresh(k)

-----------------------------------------------------------------------------
\* StandardRank.

\* The oldest entry of the ring of activations.
OldestActivate == rank.lastActivate[(rank.RAWindex + 1) % rawNum]
ActivateAllowed == rank.nextActivate = 0 /\ OldestActivate >= tRAW

Record(r) == LET next == (r.RAWindex + 1) % rawNum
             IN  [Raise(r, "nextActivate", tRRDR) EXCEPT !.RAWindex = next,
                                                         !.lastActivate[next] = 0]

\* Mutant: a read of another bank does not wait for the write recovery.
ColumnWindowsNoRecovery(op, r) ==
    IF IsRead(op) THEN Raise(Raise(r, "nextRead", Burst), "nextWrite", Turn)
    ELSE Raise(Raise(r, "nextRead", tCWD + tBURST), "nextWrite", Burst)

\* The windows a column command moves in its own rank, and in the others.
ColumnWindows(op, r) ==
    IF IsRead(op) THEN Raise(Raise(r, "nextRead", Burst), "nextWrite", Turn)
    ELSE Raise(Raise(r, "nextRead", WriteToRead), "nextWrite", Burst)
\* Mutant: another rank's read is taken for one whose data are sooner done.
NotifyNoTurn(op, r) ==
    IF IsRead(op) THEN Raise(Raise(r, "nextRead", tBURST + tRTRS), "nextWrite", tBURST + tRTRS)
    ELSE Raise(Raise(r, "nextRead", Later(0, tBURST + tCWD + tRTRS - tCAS)),
               "nextWrite", tBURST + tOST)

Notify(op, r) ==
    IF IsRead(op) THEN Raise(Raise(r, "nextRead", tBURST + tRTRS), "nextWrite", Turn)
    ELSE Raise(Raise(r, "nextRead", Later(0, tBURST + tCWD + tRTRS - tCAS)),
               "nextWrite", tBURST + tOST)
ColumnAllowed(op, r) == IF IsRead(op) THEN r.nextRead = 0 ELSE r.nextWrite = 0

OnBank(op, b) ==
    /\ bank' = [bank EXCEPT ![b] = BankDo(op, @)]
    /\ array' = [array EXCEPT ![b] = ArrayDo(op, @)]

Activate(b) ==
    /\ ActivateAllowed
    /\ BankIssuable("ACT", b)
    /\ OnBank("ACT", b)
    /\ rank' = Record([rank EXCEPT !.state = IF @ = "CLOSED" THEN "OPEN" ELSE @])
    /\ Judge("ACT", {b})
    /\ NoteActivation("ACT", {b})
    /\ UNCHANGED <<rankEvents, peer, bursts>>

\* An implicit precharge also closes the rank, at a time of its own.
RankClosesIn(op) == IF op = "READ_PRECHARGE" THEN {tRTP}
                    ELSE IF op = "WRITE_PRECHARGE" THEN {tCWD + tBURST + tWR}
                    ELSE {}

Column(op, b) ==
    /\ ColumnAllowed(op, rank)
    /\ BankIssuable(op, b)
    /\ OnBank(op, b)
    /\ rank' = ColumnWindows(op, rank)
    /\ rankEvents' = rankEvents \cup RankClosesIn(op)
    /\ peer' = Notify(op, peer)                                 \* OffChipBus
    /\ LET kind == IF IsRead(op) THEN "READ" ELSE "WRITE"
       IN  Note(kind, {b}) /\ Transfer(op, "rank", Breaks(kind, {b}))

\* Mutant: the rank is closed with its first bank.
PrechargeClosesRank(b) ==
    /\ rank.nextPrecharge = 0
    /\ BankIssuable("PRE", b)
    /\ OnBank("PRE", b)
    /\ rank' = Raise([rank EXCEPT !.state = "CLOSED"], "nextPrecharge", tPPD)
    /\ Judge("PRE", {b})
    /\ Note("PRE", {b})
    /\ UNCHANGED <<rankEvents, peer, bursts>>

Precharge(b) ==
    /\ rank.nextPrecharge = 0
    /\ BankIssuable("PRE", b)
    /\ OnBank("PRE", b)
    /\ rank' = Raise([rank EXCEPT !.state = IF \A c \in Banks : Closing(array'[c]) THEN "CLOSED" ELSE @],
                     "nextPrecharge", tPPD)
    /\ Judge("PRE", {b})
    /\ Note("PRE", {b})
    /\ UNCHANGED <<rankEvents, peer, bursts>>

Refresh(head) ==
    LET group == head .. head + banksPerRefresh - 1
    IN  /\ ActivateAllowed
        /\ \A b \in group : BankIssuable("REF", b)
        /\ bank' = [b \in Banks |-> IF b \in group THEN BankDo("REF", bank[b]) ELSE bank[b]]
        /\ array' = [b \in Banks |-> IF b \in group THEN ArrayDo("REF", array[b]) ELSE array[b]]
        /\ rank' = Record([rank EXCEPT !.state = "REFRESHING"])
        /\ rankEvents' = rankEvents \cup {tRFC}
        /\ Judge("REF", group)
        /\ NoteActivation("REF", group)
        /\ UNCHANGED <<peer, bursts>>

\* The controller takes the active mode when some row is open.
PowerDown(op) ==
    /\ (op = "PDA") <=> ~RankIdle                    \* MemoryController::PowerDown
    /\ rank.state # "REFRESHING"
    /\ \A b \in Banks : BankIssuable(op, b)
    /\ bank' = [b \in Banks |-> BankPowerDown(op, bank[b])]
    /\ rank' = [rank EXCEPT !.state = op]
    /\ Judge("DOWN", Banks)
    /\ age' = [age EXCEPT !.down = 0, !.slow = (op = "PDPS")]
    /\ UNCHANGED <<rankEvents, array, peer, bursts>>

PowerUp ==
    /\ \A b \in Banks : BankIssuable("UP", b)
    /\ bank' = [b \in Banks |-> BankPowerUp(bank[b])]
    /\ rank' = [rank EXCEPT !.state = CASE @ = "PDA" -> "OPEN"
                                        [] @ \in {"PDPF", "PDPS"} -> "CLOSED"
                                        [] OTHER -> @]
    /\ Judge("UP", Banks)
    /\ age' = [age EXCEPT !.up = 0]
    /\ UNCHANGED <<rankEvents, array, peer, bursts>>

\* A column command of the other rank, which notifies this one.
PeerColumn(op) ==
    /\ ColumnAllowed(op, peer)
    /\ peer' = ColumnWindows(op, peer)
    /\ rank' = Notify(op, rank)
    /\ Transfer(op, "peer", {})
    /\ UNCHANGED <<rankEvents, bank, array, age>>

-----------------------------------------------------------------------------
\* The next cycle: first the events due in it.

Closer(r) == [f \in DOMAIN r |-> IF f \in Windows(r) \cup {"writing"} THEN Less(r[f]) ELSE r[f]]

ArrayCycle(a) ==
    LET due == {e \in a.events : e.in = 1}
        later == [Closer(a) EXCEPT !.events = {[e EXCEPT !.in = @ - 1] : e \in a.events \ due}]
    IN  IF due = {} THEN later ELSE ArrayRespond((CHOOSE e \in due : TRUE).what, later)

\* The arrays' events were inserted before the rank's of the same command.
Cycle ==
    /\ array' = [b \in Banks |-> ArrayCycle(array[b])]
    /\ bank' = [b \in Banks |-> Closer(bank[b])]
    /\ rank' = [rank EXCEPT !.nextRead = Less(@), !.nextWrite = Less(@),
                            !.nextActivate = Less(@), !.nextPrecharge = Less(@),
                            !.lastActivate = [i \in 0 .. rawNum - 1 |-> Earlier(@[i] + 1, tRAW)],
                            !.state = IF 1 \in rankEvents /\ \A b \in Banks : Closing(array'[b])
                                      THEN "CLOSED" ELSE @]
    /\ rankEvents' = {t - 1 : t \in rankEvents \ {1}}
    /\ peer' = [f \in DOMAIN peer |-> Less(peer[f])]
    \* the observer: time passes, and a row that closes by itself is precharged
    /\ LET closes == {b \in Banks : [what |-> "implicit", in |-> 1] \in array[b].events}
           older == [b \in Banks |-> [k \in Kinds |-> Earlier(age.of[b][k] + 1, Horizon[k])]]
       IN  /\ age' = [of |-> [b \in Banks |-> IF b \in closes THEN [older[b] EXCEPT !["PRE"] = 0] ELSE older[b]],
                      acts |-> [i \in 1..rawNum |-> Earlier(age.acts[i] + 1, tRAW)],
                      up |-> Earlier(age.up + 1, tXPDLL),
                      down |-> Earlier(age.down + 1, tPD),
                      slow |-> age.slow]
           /\ broken' = broken \cup UNION {TooSoonToClose(older[b]) : b \in closes}
    /\ bursts' = {[t EXCEPT !.from = @ - 1, !.to = @ - 1] : t \in {u \in bursts : u.to + tRTRS > 1}}

Init ==
    /\ rank = [state |-> "CLOSED", nextRead |-> 0, nextWrite |-> 0, nextActivate |-> 0,
               nextPrecharge |-> 0, RAWindex |-> 0, lastActivate |-> [i \in 0 .. rawNum - 1 |-> 0]]
    /\ rankEvents = {}
    /\ bank = [b \in Banks |-> [state |-> "CLOSED", nextRead |-> 0, nextWrite |-> 0, nextActivate |-> 0,
                                nextPrecharge |-> 0, nextPowerDown |-> 0, nextPowerUp |-> 0]]
    /\ array = [b \in Banks |-> [state |-> "CLOSED", nextRead |-> 0, nextWrite |-> 0, nextActivate |-> 0,
                                 nextPrecharge |-> 0, nextPowerDown |-> 0, writing |-> 0, events |-> {}]]
    /\ peer = [nextRead |-> 0, nextWrite |-> 0]
    /\ age = [of |-> [b \in Banks |-> Horizon], acts |-> [i \in 1..rawNum |-> tRAW],
              up |-> tXPDLL, down |-> tPD, slow |-> FALSE]
    /\ bursts = {}
    /\ broken = {}

Next ==
    \/ \E b \in Banks : Activate(b)
    \/ \E op \in Columns, b \in Banks : Column(op, b)
    \/ \E b \in Banks : Precharge(b)
    \/ \E head \in {b \in Banks : b % banksPerRefresh = 0} : Refresh(head)
    \/ \E op \in PowerDowns : PowerDown(op)
    \/ PowerUp
    \/ \E op \in {"READ", "WRITE"} : PeerColumn(op)
    \/ Cycle

Spec == Init /\ [][Next]_vars

-----------------------------------------------------------------------------
\* No command breaks a timing rule of the device, judged by the commands
\* alone: the windows of the three levels together leave out no pair of
\* commands (StandardRank.cpp:625, DDR3Bank.cpp:714, SubArray.cpp:1114), and
\* with Notify of the other rank's commands (StandardRank.cpp:830) they
\* schedule one data bus, on which no two bursts meet.
DeviceAccepts == broken = {}

\* The three levels agree on power: all banks are down or none is, a rank
\* that is down keeps no array busy and no data to come, only the active
\* mode leaves a row open, and all banks can be powered up in the same cycle
\* (the assertion of StandardRank.cpp:518).
PowerStatesAgree ==
    LET down == {b \in Banks : bank[b].state \in PowerDowns}
    IN  /\ down # {} => /\ down = Banks
                        /\ rank.state \in PowerDowns
                        /\ \A b \in Banks : /\ array[b].events = {} /\ array[b].writing = 0
                                            /\ array[b].state = (IF bank[b].state = "PDA" THEN "OPEN" ELSE "CLOSED")
                        /\ \A t \in bursts : t.who = "rank" => t.to <= 0
        /\ rank.state \in PowerDowns => down = Banks
        /\ \A b, c \in Banks : BankIssuable("UP", b) <=> BankIssuable("UP", c)

\* A rank that says it is closed has no open row and no refresh going on
\* (StandardRank.h:65): the responses that close it, of two banks or of a
\* bank and a refresh, may come in any order.
ClosedRankIsClosed == rank.state = "CLOSED" => RankIdle

\* Rank, banks and arrays agree on what is down and on what is closed.
LevelsAgree == PowerStatesAgree /\ ClosedRankIsClosed
=============================================================================
