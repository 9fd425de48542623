--------------------------- MODULE RankTimingProof ---------------------------
(***************************************************************************)
(* RankTiming for every timing file that its assumptions admit, and any    *)
(* number of banks: the windows of the rank, its banks and their arrays    *)
(* leave out no pair of commands, and the three levels agree on what is    *)
(* down and what is closed.                                                *)
(*                                                                         *)
(* A rule of the device is kept by a window that some level has moved: the *)
(* age of the earlier command and what is left of the window together      *)
(* reach the time that the rule asks for.                                  *)
(***************************************************************************)
EXTENDS RankTiming, TLAPS

RankStates == {"CLOSED", "OPEN", "REFRESHING"} \cup PowerDowns
BankStates == {"CLOSED", "OPEN"} \cup PowerDowns
ArrayStates == {"CLOSED", "OPEN", "PRECHARGING", "REFRESHING"}

RankType == [state : RankStates, nextRead : Nat, nextWrite : Nat, nextActivate : Nat,
             nextPrecharge : Nat, RAWindex : 0 .. rawNum - 1, lastActivate : [0 .. rawNum - 1 -> Nat]]
BankType == [state : BankStates, nextRead : Nat, nextWrite : Nat, nextActivate : Nat,
             nextPrecharge : Nat, nextPowerDown : Nat, nextPowerUp : Nat]
ArrayType == [state : ArrayStates, nextRead : Nat, nextWrite : Nat, nextActivate : Nat,
              nextPrecharge : Nat, nextPowerDown : Nat, writing : Nat,
              events : SUBSET [what : {"implicit", "closed"}, in : Nat \ {0}]]
PeerType == [nextRead : Nat, nextWrite : Nat]
AgeType == [of : [Banks -> [Kinds -> Nat]], acts : [1 .. rawNum -> Nat], up : Nat, down : Nat,
            slow : BOOLEAN]
BurstType == [who : {"rank", "peer"}, from : Int, to : Int]

TypeOK ==
    /\ rank \in RankType
    /\ rankEvents \subseteq Nat \ {0}
    /\ bank \in [Banks -> BankType]
    /\ array \in [Banks -> ArrayType]
    /\ peer \in PeerType
    /\ age \in AgeType
    /\ bursts \subseteq BurstType
-----------------------------------------------------------------------------
(* One bank: a is its array, k the bank, g the ages of its commands.        *)

WriteRecovery == tCWD + tBURST + tWR + tWP

\* Open, and not about to close by itself.
Plain(a) == a.state = "OPEN" /\ a.events = {}

\* The windows that later commands of the same bank wait for.
ArrayWaits(a, g) ==
    /\ g["ACT"] + a.nextRead >= tRCD /\ g["ACT"] + a.nextWrite >= tRCD
    /\ g["ACT"] + a.nextPrecharge >= tRAS
    /\ g["READ"] + a.nextPrecharge >= tRTP
    /\ g["WRITE"] + a.nextPrecharge >= WriteRecovery
    /\ g["REF"] + a.nextActivate >= tRFC
    /\ g["PRE"] + a.nextActivate >= tRP
    /\ closePage # 0 => g["WRITE"] + a.nextRead + tRTP >= WriteRecovery
    /\ g["READ"] + a.nextPowerDown >= tCAS + tBURST + 1
    /\ g["WRITE"] + a.nextPowerDown >= tCWD + tBURST

\* A row that closes by itself does so when its commands allow it, and nothing comes before.
ClosesInTime(a, g, n) ==
    /\ a.state = "OPEN"
    /\ a.nextActivate >= n + tRP
    /\ a.nextPrecharge >= n /\ a.nextRead >= n /\ a.nextWrite >= n
    /\ g["ACT"] + n >= tRAS /\ g["READ"] + n >= tRTP /\ g["WRITE"] + n >= WriteRecovery

\* The one event that an array waits for, and what its states stand for.
EventsFit(a, g) ==
    /\ a.events = {} => a.state \in {"OPEN", "CLOSED"}
    /\ \A e \in a.events :
          /\ a.events = {e}
          /\ e.what = "implicit" => ClosesInTime(a, g, e.in)
          /\ e.what = "closed" => /\ a.state \in {"PRECHARGING", "REFRESHING"}
                                  /\ a.nextActivate >= e.in
    /\ IF Plain(a) THEN a.nextActivate = 0 ELSE g["ACT"] + a.nextActivate >= tRAS + tRP

\* Bank and array agree, also on when nothing is left to do.
BankFits(a, k, g) ==
    /\ a.nextActivate <= Later(k.nextPowerDown, a.nextPowerDown)
    /\ g["ACT"] + k.nextPowerDown >= tRCD
    /\ k.state \in {"OPEN", "PDA"} <=> Plain(a)
    /\ k.state \in PowerDowns => a.events = {} /\ a.writing = 0 /\ a.nextPowerDown = 0

\* The state of one bank.
OneBank(a, k, g) ==
    /\ a \in ArrayType /\ k \in BankType /\ g \in [Kinds -> Nat]
    /\ ArrayWaits(a, g) /\ EventsFit(a, g) /\ BankFits(a, k, g)

\* A command opens no window sooner than it was.
NoSooner(a, k, a2, k2) ==
    /\ a2.nextActivate >= a.nextActivate /\ a2.nextPowerDown >= a.nextPowerDown
    /\ k2.nextActivate >= k.nextActivate /\ k2.nextPrecharge >= k.nextPrecharge
    /\ k2.nextRead >= k.nextRead /\ k2.nextWrite >= k.nextWrite
    /\ k2.nextPowerDown >= k.nextPowerDown \/ k2.nextPowerDown >= k.nextActivate
    /\ k2.nextPowerUp = k.nextPowerUp
    /\ k.state \in {"OPEN", "CLOSED"} /\ k2.state \in {"OPEN", "CLOSED"}

\* After a power-up, the bank waits.
PowerWaits(k) ==
    /\ age.up + k.nextActivate >= tXP /\ age.up + k.nextPrecharge >= tXP
    /\ age.up + k.nextWrite >= tXP /\ age.up + k.nextPowerDown >= tXP
    /\ k.state # "PDPS" => age.up + k.nextRead >= IF age.slow THEN tXPDLL ELSE tXP
    /\ k.state \in {"PDA", "PDPF"} => ~age.slow
    /\ age.down + k.nextPowerUp >= tPD

BankInv(b) == OneBank(array[b], bank[b], age.of[b]) /\ PowerWaits(bank[b])
-----------------------------------------------------------------------------
(* The rank.                                                               *)

\* What its banks have done it waits for.
RankWaits(b) ==
    /\ age.of[b]["ACT"] + rank.nextActivate >= tRRDR
    /\ age.of[b]["READ"] + rank.nextRead >= Burst
    /\ age.of[b]["READ"] + rank.nextWrite >= Turn
    /\ age.of[b]["WRITE"] + rank.nextRead >= WriteToRead
    /\ age.of[b]["WRITE"] + rank.nextWrite >= Burst

\* The i-th of the latest activations is in the ring, i - 1 before the last.
Slot(i) == IF rank.RAWindex >= i - 1 THEN rank.RAWindex - (i - 1) ELSE rank.RAWindex - (i - 1) + rawNum

RingIsRight == \A i \in 1 .. rawNum : age.acts[i] >= rank.lastActivate[Slot(i)]

\* All banks are down or none is, and nothing is left to do then.
PowerFits ==
    /\ \A b \in Banks : bank[b].state \in PowerDowns <=> rank.state \in PowerDowns
    /\ \A b, c \in Banks : bank[b].nextPowerUp = bank[c].nextPowerUp
    /\ rank.state \in PowerDowns => rankEvents = {}
    /\ \A n \in rankEvents : \E b \in Banks : n <= array[b].nextActivate
    /\ rank.state \in {"CLOSED", "PDPF", "PDPS"} => RankIdle

\* What the bus carries is over before the windows for the next burst open.
Rest(t, who) == IF t.who = who THEN 0 ELSE Earlier(tRTRS, tOST)
Passes(t, who, r) ==
    /\ t.to + Rest(t, who) <= r.nextRead + tCAS
    /\ t.to + Rest(t, who) <= r.nextWrite + tCWD

BusFits ==
    \A t \in bursts :
        /\ Passes(t, "rank", rank) /\ Passes(t, "peer", peer)
        /\ t.from < t.to
        /\ t.who = "rank" => \E b \in Banks : t.to <= array[b].nextPowerDown

IInv ==
    /\ TypeOK
    /\ \A b \in Banks : BankInv(b) /\ RankWaits(b)
    /\ RingIsRight
    /\ PowerFits
    /\ BusFits
    /\ broken = {}
-----------------------------------------------------------------------------
(* Numbers.                                                                *)

LEMMA Times ==
    /\ tBURST \in Nat /\ tCCD \in Nat /\ tCAS \in Nat /\ tCWD \in Nat /\ tRP \in Nat
    /\ tRCD \in Nat /\ tRTP \in Nat /\ tRFC \in Nat /\ tPD \in Nat
    /\ tRTRS \in Nat /\ tOST \in Nat /\ tWTR \in Nat /\ tWR \in Nat /\ tRAS \in Nat
    /\ tRRDR \in Nat /\ tRAW \in Nat /\ tXP \in Nat /\ tXPDLL \in Nat /\ tPPD \in Nat
    /\ tRDPDEN \in Nat /\ tWRPDEN \in Nat /\ tWP \in Nat
    /\ tBURST > 0 /\ tRP > 0 /\ tRTP > 0 /\ tRFC > 0 /\ tCWD > 0
    /\ tCCD <= tBURST /\ tXP <= tXPDLL
  BY TimingAssumption DEF TimingAssumption

LEMMA Counts ==
    /\ bankCount \in Nat /\ bankCount > 0 /\ banksPerRefresh \in Nat /\ banksPerRefresh > 0 /\ rawNum \in Nat /\ rawNum > 0
    /\ Banks # {}
  BY CountAssumption DEF CountAssumption, Banks

\* A window and an age that together reach a bound still do a cycle later.
LEMMA StillWaits ==
    ASSUME NEW x \in Nat, NEW w \in Nat, NEW most \in Int, NEW bound \in Int,
           bound <= most, x + w >= bound
    PROVE  Earlier(x + 1, most) + Less(w) >= bound
  BY DEF Earlier, Less

LEMMA Sums ==
    /\ Turn \in Int /\ Burst \in Nat /\ Burst >= tBURST /\ WriteToRead \in Nat /\ WriteRecovery \in Nat
    /\ Turn + tCWD = tCAS + tBURST + tRTRS
    /\ WriteToRead = tCWD + tBURST + tWTR
    /\ WriteRecovery = tCWD + tBURST + tWR + tWP
  BY Times DEF Turn, Burst, WriteToRead, WriteRecovery, Later

\* No rule looks back further than an age counts.
LEMMA Horizons ==
    /\ Horizon \in [Kinds -> Nat]
    /\ Horizon["ACT"] \in Nat /\ Horizon["READ"] \in Nat /\ Horizon["WRITE"] \in Nat
    /\ Horizon["PRE"] \in Nat /\ Horizon["REF"] \in Nat
    /\ Horizon["ACT"] >= tRAS + tRP /\ Horizon["ACT"] >= tRAS
    /\ Horizon["ACT"] >= tRRDR /\ Horizon["ACT"] >= tRCD
    /\ Horizon["PRE"] >= tRP
    /\ Horizon["REF"] >= tRFC
    /\ Horizon["READ"] >= tCAS + tBURST + 1 /\ Horizon["READ"] >= Turn
    /\ Horizon["READ"] >= Burst /\ Horizon["READ"] >= tRTP
    /\ Horizon["WRITE"] >= WriteToRead /\ Horizon["WRITE"] >= WriteRecovery
    /\ Horizon["WRITE"] >= Burst /\ Horizon["WRITE"] >= tCWD + tBURST
  <1>1. Horizon["ACT"] = Later(tRAS + tRP, Later(tRRDR, tRCD))
    BY DEF Horizon, Kinds
  <1>2. Horizon["READ"] = Later(Later(tCAS + tBURST + 1, Turn), Later(Burst, tRTP))
    BY DEF Horizon, Kinds
  <1>3. Horizon["WRITE"] = Later(WriteToRead, Later(WriteRecovery, Burst))
    BY DEF Horizon, Kinds, WriteRecovery
  <1>4. Horizon["PRE"] = tRP /\ Horizon["REF"] = tRFC
    BY DEF Horizon, Kinds
  <1>5. \A k \in Kinds : Horizon[k] \in Nat
    BY <1>1, <1>2, <1>3, <1>4, Times, Sums DEF Kinds, Later
  <1>6. Horizon \in [Kinds -> Nat]
    BY <1>5 DEF Horizon
  <1>7. /\ Horizon["ACT"] \in Nat /\ Horizon["READ"] \in Nat /\ Horizon["WRITE"] \in Nat
        /\ Horizon["PRE"] \in Nat /\ Horizon["REF"] \in Nat
    BY <1>5 DEF Kinds
  <1> QED
    BY <1>1, <1>2, <1>3, <1>4, <1>6, <1>7, Times, Sums DEF Later
-----------------------------------------------------------------------------
(* One command on one bank.                                                *)

\* A row about to close by itself.
LEMMA ClosingRow ==
    ASSUME NEW a \in ArrayType, NEW done \in Nat \ {0}
    PROVE  LET c == CloseImplicitly(a, done)
               t == Later(a.nextActivate, done + tRP)
           IN  /\ c \in ArrayType /\ c.state = a.state /\ c.writing = a.writing
               /\ c.nextPowerDown = a.nextPowerDown
               /\ c.events = a.events \cup {[what |-> "implicit", in |-> done]}
               /\ c.nextActivate = t
               /\ c.nextPrecharge = Later(a.nextPrecharge, t)
               /\ c.nextRead = Later(a.nextRead, t) /\ c.nextWrite = Later(a.nextWrite, t)
  <1> DEFINE fields == {"nextActivate", "nextPrecharge", "nextRead", "nextWrite"}
             t == Later(a.nextActivate, done + tRP)
             r == RaiseAll(a, fields, t)
  <1>1. t \in Nat
    BY Times DEF ArrayType, Later
  <1>2. /\ r \in ArrayType /\ r.state = a.state /\ r.writing = a.writing /\ r.events = a.events
        /\ r.nextPowerDown = a.nextPowerDown /\ r.nextActivate = Later(a.nextActivate, t)
        /\ r.nextPrecharge = Later(a.nextPrecharge, t)
        /\ r.nextRead = Later(a.nextRead, t) /\ r.nextWrite = Later(a.nextWrite, t)
    <2> HIDE DEF t
    <2> QED
      BY <1>1 DEF RaiseAll, ArrayType, Later
  <1>3. Later(a.nextActivate, t) = t
    BY Times DEF Later, ArrayType
  <1>4. CloseImplicitly(a, done) = [r EXCEPT !.events = @ \cup {[what |-> "implicit", in |-> done]}]
    BY DEF CloseImplicitly, Respond
  <1> HIDE DEF r, t
  <1> QED
    BY <1>2, <1>3, <1>4 DEF ArrayType, t

LEMMA NothingToCome ==
    ASSUME NEW a, NEW k, NEW g, OneBank(a, k, g),
           \/ a.state = "CLOSED"
           \/ a.nextPrecharge = 0 /\ a.state \in {"OPEN", "CLOSED"}
           \/ k.state = "OPEN"
    PROVE  a.events = {} /\ (k.state = "OPEN" => a.state = "OPEN" /\ a.nextActivate = 0)
  BY DEF OneBank, EventsFit, ClosesInTime, BankFits, Plain, ArrayType

LEMMA ActivateKeeps ==
    ASSUME NEW a, NEW k, NEW g, OneBank(a, k, g),
           a.nextActivate = 0, a.state = "CLOSED", k.state \in {"OPEN", "CLOSED"}
    PROVE  /\ OneBank(ArrayActivate(a), BankActivate(k), [g EXCEPT !["ACT"] = 0])
           /\ NoSooner(a, k, ArrayActivate(a), BankActivate(k))
  <1> DEFINE a2 == ArrayActivate(a)
             k2 == BankActivate(k)
             g2 == [g EXCEPT !["ACT"] = 0]
  <1>1. /\ a2 \in ArrayType
        /\ a2.state = "OPEN" /\ a2.nextActivate = a.nextActivate /\ a2.events = a.events
        /\ a2.writing = a.writing
        /\ a2.nextPrecharge = Later(a.nextPrecharge, Later(tRCD, tRAS))
        /\ a2.nextPowerDown = Later(a.nextPowerDown, Later(tRCD, tRAS))
        /\ a2.nextRead = Later(a.nextRead, tRCD) /\ a2.nextWrite = Later(a.nextWrite, tRCD)
    BY Times DEF OneBank, ArrayType, ArrayStates, ArrayActivate, RaiseAll, Later
  <1>2. /\ k2 = [k EXCEPT !.state = "OPEN", !.nextPowerDown = Later(k.nextPowerDown, tRCD)]
        /\ k2 \in BankType
    BY Times DEF OneBank, BankType, BankStates, BankActivate, Raise, Later
  <1>3. a.events = {}
    BY NothingToCome
  <1>4. g2 \in [Kinds -> Nat] /\ g2["ACT"] = 0 /\ \A x \in Kinds \ {"ACT"} : g2[x] = g[x]
    BY DEF OneBank, Kinds
  <1>5. ArrayWaits(a2, g2)
    BY <1>1, <1>4, Times, Sums DEF OneBank, ArrayWaits, ArrayType, Later, Kinds
  <1>6. EventsFit(a2, g2)
    BY <1>1, <1>3 DEF EventsFit, Plain
  <1>7. BankFits(a2, k2, g2)
    BY <1>1, <1>2, <1>3, <1>4, Times DEF OneBank, BankFits, Plain, BankType, ArrayType, Later, PowerDowns
  <1>8. NoSooner(a, k, a2, k2)
    BY <1>1, <1>2, Times DEF OneBank, NoSooner, BankType, ArrayType, Later
  <1> QED
    BY <1>1, <1>2, <1>4, <1>5, <1>6, <1>7, <1>8 DEF OneBank

LEMMA ReadKeeps ==
    ASSUME NEW a, NEW k, NEW g, OneBank(a, k, g),
           a.nextRead = 0, k.state = "OPEN"
    PROVE  /\ OneBank(ArrayRead("READ", a), BankRead("READ", k), [g EXCEPT !["READ"] = 0])
           /\ NoSooner(a, k, ArrayRead("READ", a), BankRead("READ", k))
  <1> DEFINE a2 == ArrayRead("READ", a)
             k2 == BankRead("READ", k)
             g2 == [g EXCEPT !["READ"] = 0]
  <1>1. /\ a2 \in ArrayType
        /\ a2.state = a.state /\ a2.events = a.events /\ a2.writing = a.writing
        /\ a2.nextActivate = a.nextActivate
        /\ a2.nextPrecharge = Later(a.nextPrecharge, tBURST + tRTP - tCCD)
        /\ a2.nextRead = Later(a.nextRead, Burst) /\ a2.nextWrite = Later(a.nextWrite, Turn)
        /\ a2.nextPowerDown = Later(a.nextPowerDown, tCAS + tBURST + 1)
    BY Times, Sums DEF OneBank, ArrayType, ArrayStates, ArrayRead, Raise, Later
  <1>2. /\ k2 \in BankType
        /\ k2.state = k.state /\ k2.nextActivate = k.nextActivate /\ k2.nextPrecharge = k.nextPrecharge
        /\ k2.nextRead = Later(k.nextRead, Burst) /\ k2.nextWrite = Later(k.nextWrite, Turn)
        /\ k2.nextPowerDown = Later(k.nextPowerDown, tRDPDEN) /\ k2.nextPowerUp = k.nextPowerUp
    BY Times, Sums DEF OneBank, BankType, BankStates, BankRead, Raise, Later
  <1>3. a.events = {} /\ (k.state = "OPEN" => a.state = "OPEN" /\ a.nextActivate = 0)
    BY NothingToCome
  <1>4. g2 \in [Kinds -> Nat] /\ g2["READ"] = 0 /\ \A x \in Kinds \ {"READ"} : g2[x] = g[x]
    BY DEF OneBank, Kinds
  <1>5. ArrayWaits(a2, g2)
    BY <1>1, <1>3, <1>4, Times, Sums DEF OneBank, ArrayWaits, ArrayType, Later, Kinds
  <1>6. EventsFit(a2, g2)
    BY <1>1, <1>3, <1>4, Times, Sums DEF OneBank, ArrayWaits, EventsFit, ClosesInTime, Plain, ArrayType, Later, Kinds
  <1>7. BankFits(a2, k2, g2)
    BY <1>1, <1>2, <1>3, <1>4, Times, Sums DEF OneBank, ArrayWaits, BankFits, Plain, BankType, ArrayType, Later, PowerDowns, Kinds
  <1>8. NoSooner(a, k, a2, k2)
    BY <1>1, <1>2, <1>3, Times, Sums DEF OneBank, NoSooner, BankType, ArrayType, Later
  <1> QED
    BY <1>1, <1>2, <1>4, <1>5, <1>6, <1>7, <1>8 DEF OneBank

LEMMA ReadPrechargeKeeps ==
    ASSUME NEW a, NEW k, NEW g, OneBank(a, k, g),
           a.nextRead = 0, k.state = "OPEN", closePage # 0
    PROVE  /\ OneBank(ArrayRead("READ_PRECHARGE", a), BankRead("READ_PRECHARGE", k), [g EXCEPT !["READ"] = 0])
           /\ ArrayRead("READ_PRECHARGE", a).nextActivate >= tRTP
           /\ NoSooner(a, k, ArrayRead("READ_PRECHARGE", a), BankRead("READ_PRECHARGE", k))
  <1> DEFINE a2 == ArrayRead("READ_PRECHARGE", a)
             k2 == BankRead("READ_PRECHARGE", k)
             g2 == [g EXCEPT !["READ"] = 0]
  <1>1. /\ a2 \in ArrayType
        /\ a2.state = a.state /\ a2.writing = a.writing
        /\ a2.events = a.events \cup {[what |-> "implicit", in |-> tRTP]}
        /\ a2.nextActivate = Later(a.nextActivate, tRTP + tRP)
        /\ a2.nextPrecharge = Later(a.nextPrecharge, Later(a.nextActivate, tRTP + tRP))
        /\ a2.nextRead = Later(a.nextRead, Later(a.nextActivate, tRTP + tRP))
        /\ a2.nextWrite = Later(a.nextWrite, Later(a.nextActivate, tRTP + tRP))
        /\ a2.nextPowerDown = Later(a.nextPowerDown, tCAS + tBURST + 1)
    <2> DEFINE c == CloseImplicitly(a, tRTP)
    <2>1. a2 = [c EXCEPT !.nextPowerDown = Later(@, tCAS + tBURST + 1)]
      BY DEF ArrayRead, Raise
    <2> HIDE DEF c
    <2>2. c \in ArrayType /\ c.nextPowerDown = a.nextPowerDown
      BY ClosingRow, Times DEF OneBank, c
    <2>3. /\ a2 \in ArrayType /\ a2.nextPowerDown = Later(a.nextPowerDown, tCAS + tBURST + 1)
          /\ a2.state = c.state /\ a2.writing = c.writing /\ a2.events = c.events
          /\ a2.nextActivate = c.nextActivate /\ a2.nextPrecharge = c.nextPrecharge
          /\ a2.nextRead = c.nextRead /\ a2.nextWrite = c.nextWrite
      BY <2>1, <2>2, Times DEF ArrayType, Later
    <2> QED
      BY <2>3, ClosingRow, Times DEF OneBank, c
  <1>2. /\ k2 \in BankType
        /\ k2.state = "CLOSED" /\ k2.nextActivate = k.nextActivate /\ k2.nextPrecharge = k.nextPrecharge
        /\ k2.nextRead = Later(k.nextRead, Burst) /\ k2.nextWrite = Later(k.nextWrite, Turn)
        /\ k2.nextPowerDown = Later(k.nextPowerDown, tRTP + tRP) /\ k2.nextPowerUp = k.nextPowerUp
    <2> DEFINE w == Raise(Raise(k, "nextRead", Burst), "nextWrite", Turn)
    <2>1. w = [k EXCEPT !.nextRead = Later(k.nextRead, Burst), !.nextWrite = Later(k.nextWrite, Turn)]
      BY DEF OneBank, BankType, Raise
    <2>2. w \in BankType
      <3>1. Later(k.nextRead, Burst) \in Nat /\ Later(k.nextWrite, Turn) \in Nat
        BY Sums DEF OneBank, BankType, Later
      <3> QED
        BY <2>1, <3>1 DEF OneBank, BankType
    <2>3. k2 = [w EXCEPT !.nextPowerDown = Later(w.nextPowerDown, tRTP + tRP), !.state = "CLOSED"]
      BY DEF BankRead, IsRead, Raise
    <2> HIDE DEF w, k2
    <2>4. Later(w.nextPowerDown, tRTP + tRP) \in Nat
      BY <2>2, Times DEF BankType, Later
    <2> QED
      BY <2>1, <2>2, <2>3, <2>4 DEF OneBank, BankType, BankStates
  <1>3. a.events = {} /\ (k.state = "OPEN" => a.state = "OPEN" /\ a.nextActivate = 0)
    BY NothingToCome
  <1>4. g2 \in [Kinds -> Nat] /\ g2["READ"] = 0 /\ \A x \in Kinds \ {"READ"} : g2[x] = g[x]
    BY DEF OneBank, Kinds
  <1>5. ArrayWaits(a2, g2)
    BY <1>1, <1>3, <1>4, Times, Sums DEF OneBank, ArrayWaits, ArrayType, Later, Kinds
  <1>6. EventsFit(a2, g2)
    <2> HIDE DEF a2, g2
    <2>1. a2.nextActivate >= tRTP + tRP /\ a2.nextPrecharge >= tRTP + tRP
          /\ a2.nextRead >= tRTP + tRP /\ a2.nextWrite >= tRTP + tRP
      BY <1>1, Times DEF OneBank, ArrayType, Later
    <2>2. g2["ACT"] >= tRCD /\ g2["READ"] = 0 /\ g2["WRITE"] + tRTP >= WriteRecovery
      BY <1>4, Sums, Times DEF OneBank, ArrayWaits, Kinds
    <2>3. ClosesInTime(a2, g2, tRTP)
      <3>1. a2.state = "OPEN"
        BY <1>1, <1>3
      <3>2. g2["ACT"] + tRTP >= tRAS /\ g2["READ"] + tRTP >= tRTP
        BY <1>4, <2>2, Times, RestoreAssumption DEF Kinds
      <3>3. /\ a2.nextActivate \in Nat /\ a2.nextPrecharge \in Nat
            /\ a2.nextRead \in Nat /\ a2.nextWrite \in Nat
        BY <1>1 DEF ArrayType
      <3> QED
        BY <3>1, <3>2, <3>3, <2>1, <2>2, Times DEF ClosesInTime
    <2>4. a2.events = {[what |-> "implicit", in |-> tRTP]}
      BY <1>1, <1>3
    <2>5. g2["ACT"] + a2.nextActivate >= tRAS + tRP
      BY <2>1, <2>2, <1>1, <1>4, Times, RestoreAssumption DEF ArrayType, Kinds
    <2>6. \A e \in a2.events : /\ a2.events = {e} /\ e.what = "implicit" /\ e.in = tRTP
      BY <2>4
    <2>7. a2.events # {} /\ ~Plain(a2)
      BY <2>4 DEF Plain
    <2> QED
      BY <2>3, <2>5, <2>6, <2>7 DEF EventsFit
  <1>7. BankFits(a2, k2, g2)
    <2>1. a2.nextActivate <= k2.nextPowerDown
      BY <1>1, <1>2, <1>3, Times DEF OneBank, ArrayType, BankType, Later
    <2>2. g2["ACT"] + k2.nextPowerDown >= tRCD
      BY <1>2, <1>4, Times DEF OneBank, BankFits, BankType, Later, Kinds
    <2>3. ~Plain(a2) /\ k2.state = "CLOSED"
      BY <1>1, <1>2 DEF Plain
    <2> QED
      BY <2>1, <2>2, <2>3, <1>1, <1>2 DEF BankFits, PowerDowns, Later, ArrayType, BankType
  <1>8. NoSooner(a, k, a2, k2)
    BY <1>1, <1>2, <1>3, Times, Sums DEF OneBank, NoSooner, BankType, ArrayType, Later
  <1> QED
    <2>1. a2.nextActivate >= tRTP
      BY <1>1, <1>3, Times DEF Later
    <2> QED
      BY <2>1, <1>1, <1>2, <1>4, <1>5, <1>6, <1>7, <1>8 DEF OneBank

LEMMA WriteKeeps ==
    ASSUME NEW a, NEW k, NEW g, OneBank(a, k, g),
           a.nextWrite = 0, k.state = "OPEN"
    PROVE  /\ OneBank(ArrayWrite("WRITE", a), BankWrite("WRITE", k), [g EXCEPT !["WRITE"] = 0])
           /\ NoSooner(a, k, ArrayWrite("WRITE", a), BankWrite("WRITE", k))
  <1> DEFINE a2 == ArrayWrite("WRITE", a)
             k2 == BankWrite("WRITE", k)
             g2 == [g EXCEPT !["WRITE"] = 0]
  <1>1. /\ a2 \in ArrayType
        /\ a2.state = a.state /\ a2.events = a.events /\ a2.nextActivate = a.nextActivate
        /\ a2.nextPrecharge = Later(a.nextPrecharge, WriteRecovery)
        /\ a2.nextRead = Later(a.nextRead, WriteToRead + tWP)
        /\ a2.nextWrite = Later(a.nextWrite, Burst + tWP)
        /\ a2.nextPowerDown = Later(a.nextPowerDown, a2.nextPrecharge)
    <2> DEFINE w == Raise(Raise(Raise(a, "nextPrecharge", tCWD + tBURST + tWP + tWR),
                                "nextRead", WriteToRead + tWP),
                          "nextWrite", Burst + tWP)
    <2>1. w = [a EXCEPT !.nextPrecharge = Later(a.nextPrecharge, tCWD + tBURST + tWP + tWR),
                        !.nextRead = Later(a.nextRead, WriteToRead + tWP),
                        !.nextWrite = Later(a.nextWrite, Burst + tWP)]
      BY DEF OneBank, ArrayType, Raise
    <2>2. WriteRecovery = tCWD + tBURST + tWP + tWR
      BY Times DEF WriteRecovery
    <2>3. /\ Later(a.nextPrecharge, WriteRecovery) \in Nat
          /\ Later(a.nextRead, WriteToRead + tWP) \in Nat
          /\ Later(a.nextWrite, Burst + tWP) \in Nat
          /\ Later(a.nextPowerDown, Later(a.nextPrecharge, WriteRecovery)) \in Nat
          /\ tCWD + Burst + tWP \in Nat
      BY Sums, Times DEF OneBank, ArrayType, Later
    <2>4. a2 = [Raise(w, "nextPowerDown", w.nextPrecharge) EXCEPT !.writing = tCWD + Burst + tWP]
      BY DEF ArrayWrite, IsWrite
    <2> HIDE DEF w, a2
    <2>5. w \in ArrayType
      BY <2>1, <2>2, <2>3 DEF OneBank, ArrayType
    <2>6. a2 = [w EXCEPT !.nextPowerDown = Later(w.nextPowerDown, w.nextPrecharge),
                         !.writing = tCWD + Burst + tWP]
      BY <2>4, <2>5 DEF Raise, ArrayType
    <2> QED
      BY <2>1, <2>2, <2>3, <2>5, <2>6 DEF OneBank, ArrayType
  <1>2. /\ k2 \in BankType
        /\ k2.state = k.state /\ k2.nextActivate = k.nextActivate /\ k2.nextPrecharge = k.nextPrecharge
        /\ k2.nextRead = Later(k.nextRead, WriteToRead) /\ k2.nextWrite = Later(k.nextWrite, Burst)
        /\ k2.nextPowerDown = Later(k.nextPowerDown, tWRPDEN) /\ k2.nextPowerUp = k.nextPowerUp
    <2> DEFINE w == Raise(Raise(k, "nextRead", WriteToRead), "nextWrite", Burst)
    <2>1. w = [k EXCEPT !.nextRead = Later(k.nextRead, WriteToRead), !.nextWrite = Later(k.nextWrite, Burst)]
      BY DEF OneBank, BankType, Raise
    <2>2. w \in BankType
      <3>1. Later(k.nextRead, WriteToRead) \in Nat /\ Later(k.nextWrite, Burst) \in Nat
        BY Sums DEF OneBank, BankType, Later
      <3> QED
        BY <2>1, <3>1 DEF OneBank, BankType
    <2>3. k2 = [w EXCEPT !.nextPowerDown = Later(w.nextPowerDown, tWRPDEN)]
      BY DEF BankWrite, Raise
    <2> HIDE DEF w, k2
    <2>4. Later(w.nextPowerDown, tWRPDEN) \in Nat
      BY <2>2, Times DEF BankType, Later
    <2> QED
      BY <2>1, <2>2, <2>3, <2>4 DEF OneBank, BankType, BankStates
  <1>3. a.events = {} /\ (k.state = "OPEN" => a.state = "OPEN" /\ a.nextActivate = 0)
    BY NothingToCome
  <1>4. g2 \in [Kinds -> Nat] /\ g2["WRITE"] = 0 /\ \A x \in Kinds \ {"WRITE"} : g2[x] = g[x]
    BY DEF OneBank, Kinds
  <1>5. ArrayWaits(a2, g2)
    BY <1>1, <1>3, <1>4, Times, Sums, RestoreAssumption DEF OneBank, ArrayWaits, ArrayType, Later, Kinds
  <1>6. EventsFit(a2, g2)
    BY <1>1, <1>3, <1>4, Times, Sums DEF OneBank, ArrayWaits, EventsFit, ClosesInTime, Plain, ArrayType, Later, Kinds
  <1>7. BankFits(a2, k2, g2)
    BY <1>1, <1>2, <1>3, <1>4, Times, Sums DEF OneBank, ArrayWaits, BankFits, Plain, BankType, ArrayType, Later, PowerDowns, Kinds
  <1>8. NoSooner(a, k, a2, k2)
    BY <1>1, <1>2, <1>3, Times, Sums DEF OneBank, NoSooner, BankType, ArrayType, Later
  <1> QED
    BY <1>1, <1>2, <1>4, <1>5, <1>6, <1>7, <1>8 DEF OneBank

LEMMA WritePrechargeKeeps ==
    ASSUME NEW a, NEW k, NEW g, OneBank(a, k, g),
           a.nextWrite = 0, k.state = "OPEN", closePage # 0
    PROVE  /\ OneBank(ArrayWrite("WRITE_PRECHARGE", a), BankWrite("WRITE_PRECHARGE", k), [g EXCEPT !["WRITE"] = 0])
           /\ ArrayWrite("WRITE_PRECHARGE", a).nextActivate >= WriteRecovery
           /\ NoSooner(a, k, ArrayWrite("WRITE_PRECHARGE", a), BankWrite("WRITE_PRECHARGE", k))
  <1> DEFINE a2 == ArrayWrite("WRITE_PRECHARGE", a)
             k2 == BankWrite("WRITE_PRECHARGE", k)
             g2 == [g EXCEPT !["WRITE"] = 0]
             t == WriteRecovery + tRP
  <1>1. /\ a2 \in ArrayType
        /\ a2.state = a.state /\ a2.events = a.events \cup {[what |-> "implicit", in |-> WriteRecovery]}
        /\ a2.nextActivate = Later(a.nextActivate, t)
        /\ a2.nextPrecharge = Later(a.nextPrecharge, Later(a.nextActivate, t))
        /\ a2.nextRead = Later(a.nextRead, Later(a.nextActivate, t))
        /\ a2.nextWrite = Later(a.nextWrite, Later(a.nextActivate, t))
        /\ a2.nextPowerDown = Later(a.nextPowerDown, a2.nextPrecharge)
    <2> DEFINE w == CloseImplicitly(a, tCWD + tBURST + tWP + tWR)
    <2>1. a2 = [Raise(w, "nextPowerDown", w.nextPrecharge) EXCEPT !.writing = tCWD + Burst + tWP]
      BY DEF ArrayWrite, IsWrite
    <2>2. WriteRecovery = tCWD + tBURST + tWP + tWR /\ WriteRecovery \in Nat \ {0}
      BY Times DEF WriteRecovery
    <2> HIDE DEF w, a2
    <2>3. /\ w \in ArrayType /\ w.state = a.state /\ w.nextPowerDown = a.nextPowerDown
          /\ w.events = a.events \cup {[what |-> "implicit", in |-> WriteRecovery]}
          /\ w.nextActivate = Later(a.nextActivate, t)
          /\ w.nextPrecharge = Later(a.nextPrecharge, Later(a.nextActivate, t))
          /\ w.nextRead = Later(a.nextRead, Later(a.nextActivate, t))
          /\ w.nextWrite = Later(a.nextWrite, Later(a.nextActivate, t))
      BY <2>2, ClosingRow DEF OneBank, w
    <2>4. a2 = [w EXCEPT !.nextPowerDown = Later(w.nextPowerDown, w.nextPrecharge),
                         !.writing = tCWD + Burst + tWP]
      BY <2>1, <2>3 DEF Raise, ArrayType
    <2>5. Later(w.nextPowerDown, w.nextPrecharge) \in Nat /\ tCWD + Burst + tWP \in Nat
      BY <2>3, Sums, Times DEF ArrayType, Later
    <2>6. /\ a2 \in ArrayType /\ a2.nextPowerDown = Later(w.nextPowerDown, w.nextPrecharge)
          /\ a2.state = w.state /\ a2.events = w.events
          /\ a2.nextActivate = w.nextActivate /\ a2.nextPrecharge = w.nextPrecharge
          /\ a2.nextRead = w.nextRead /\ a2.nextWrite = w.nextWrite
      BY <2>3, <2>4, <2>5 DEF ArrayType
    <2> QED
      BY <2>3, <2>6
  <1>2. /\ k2 \in BankType
        /\ k2.state = "CLOSED" /\ k2.nextActivate = k.nextActivate /\ k2.nextPrecharge = k.nextPrecharge
        /\ k2.nextRead = Later(k.nextRead, WriteToRead) /\ k2.nextWrite = Later(k.nextWrite, Burst)
        /\ k2.nextPowerDown = Later(k.nextActivate, tCWD + tBURST + tWR + tRP)
        /\ k2.nextPowerUp = k.nextPowerUp
    <2> DEFINE w == Raise(Raise(k, "nextRead", WriteToRead), "nextWrite", Burst)
    <2>1. w = [k EXCEPT !.nextRead = Later(k.nextRead, WriteToRead), !.nextWrite = Later(k.nextWrite, Burst)]
      BY DEF OneBank, BankType, Raise
    <2>2. w \in BankType
      <3>1. Later(k.nextRead, WriteToRead) \in Nat /\ Later(k.nextWrite, Burst) \in Nat
        BY Sums DEF OneBank, BankType, Later
      <3> QED
        BY <2>1, <3>1 DEF OneBank, BankType
    <2>3. k2 = [w EXCEPT !.state = "CLOSED",
                         !.nextPowerDown = Later(k.nextActivate, tCWD + tBURST + tWR + tRP)]
      BY DEF BankWrite
    <2> HIDE DEF w, k2
    <2>4. Later(k.nextActivate, tCWD + tBURST + tWR + tRP) \in Nat
      BY Times DEF OneBank, BankType, Later
    <2> QED
      BY <2>1, <2>2, <2>3, <2>4 DEF OneBank, BankType, BankStates
  <1>3. a.events = {} /\ (k.state = "OPEN" => a.state = "OPEN" /\ a.nextActivate = 0)
    BY NothingToCome
  <1>4. g2 \in [Kinds -> Nat] /\ g2["WRITE"] = 0 /\ \A x \in Kinds \ {"WRITE"} : g2[x] = g[x]
    BY DEF OneBank, Kinds
  <1> HIDE DEF a2, k2, g2
  <1>5. ArrayWaits(a2, g2)
    BY <1>1, <1>3, <1>4, Times, Sums DEF OneBank, ArrayWaits, ArrayType, Later, Kinds
  <1>6. EventsFit(a2, g2)
    <2>1. a2.nextActivate >= t /\ a2.nextPrecharge >= t /\ a2.nextRead >= t /\ a2.nextWrite >= t
      BY <1>1, Sums, Times DEF OneBank, ArrayType, Later
    <2>2. g2["ACT"] >= tRCD /\ g2["WRITE"] = 0
      BY <1>4, Sums, Times DEF OneBank, ArrayWaits, Kinds
    <2>3. ClosesInTime(a2, g2, WriteRecovery)
      <3>1. a2.state = "OPEN"
        BY <1>1, <1>3
      <3>2. g2["ACT"] + WriteRecovery >= tRAS /\ g2["READ"] + WriteRecovery >= tRTP
        BY <1>4, <2>2, Times, Sums, RestoreAssumption DEF Kinds
      <3>3. /\ a2.nextActivate \in Nat /\ a2.nextPrecharge \in Nat
            /\ a2.nextRead \in Nat /\ a2.nextWrite \in Nat
        BY <1>1 DEF ArrayType
      <3> QED
        BY <3>1, <3>2, <3>3, <2>1, <2>2, Times, Sums DEF ClosesInTime
    <2>4. a2.events = {[what |-> "implicit", in |-> WriteRecovery]}
      BY <1>1, <1>3
    <2>5. g2["ACT"] + a2.nextActivate >= tRAS + tRP
      BY <2>1, <2>2, <1>1, <1>4, Times, Sums, RestoreAssumption DEF ArrayType, Kinds
    <2>6. \A e \in a2.events : /\ a2.events = {e} /\ e.what = "implicit" /\ e.in = WriteRecovery
      BY <2>4
    <2>7. a2.events # {} /\ ~Plain(a2)
      BY <2>4 DEF Plain
    <2> QED
      BY <2>3, <2>5, <2>6, <2>7 DEF EventsFit
  <1>7. BankFits(a2, k2, g2)
    <2>1. a2.nextActivate <= a2.nextPowerDown
      BY <1>1, <1>3, Times, Sums DEF OneBank, ArrayType, Later
    <2>2. g2["ACT"] + k2.nextPowerDown >= tRCD
      BY <1>2, <1>4, Times DEF OneBank, ArrayWaits, BankType, Later, Kinds
    <2>3. ~Plain(a2) /\ k2.state = "CLOSED"
      BY <1>1, <1>2 DEF Plain
    <2> QED
      BY <2>1, <2>2, <2>3, <1>1, <1>2 DEF BankFits, PowerDowns, Later, ArrayType, BankType
  <1>8. NoSooner(a, k, a2, k2)
    BY <1>1, <1>2, <1>3, Times, Sums DEF OneBank, NoSooner, BankType, ArrayType, Later
  <1>9. OneBank(a2, k2, g2)
    BY <1>1, <1>2, <1>4, <1>5, <1>6, <1>7 DEF OneBank
  <1> QED
    <2>1. a2.nextActivate >= WriteRecovery
      BY <1>1, <1>3, Times, Sums DEF Later
    <2> QED
      BY <2>1, <1>8, <1>9 DEF a2, k2, g2

LEMMA PrechargeKeeps ==
    ASSUME NEW a, NEW k, NEW g, OneBank(a, k, g),
           a.nextPrecharge = 0, a.state \in {"OPEN", "CLOSED"}, k.state \in {"OPEN", "CLOSED"}
    PROVE  /\ OneBank(ArrayPrecharge(a), BankPrecharge(k), [g EXCEPT !["PRE"] = 0])
           /\ NoSooner(a, k, ArrayPrecharge(a), BankPrecharge(k))
  <1> DEFINE a2 == ArrayPrecharge(a)
             k2 == BankPrecharge(k)
             g2 == [g EXCEPT !["PRE"] = 0]
  <1>1. /\ a2 \in ArrayType
        /\ a2 = [a EXCEPT !.state = "PRECHARGING", !.nextActivate = Later(a.nextActivate, tRP),
                          !.events = a.events \cup {[what |-> "closed", in |-> tRP]}]
    <2>1. Later(1, tRP) = tRP /\ Later(a.nextActivate, tRP) \in Nat
      BY Times DEF OneBank, ArrayType, Later
    <2>2. a2 = [a EXCEPT !.state = "PRECHARGING", !.nextActivate = Later(a.nextActivate, tRP),
                         !.events = a.events \cup {[what |-> "closed", in |-> tRP]}]
      BY <2>1 DEF OneBank, ArrayType, ArrayPrecharge, Respond, Raise
    <2>3. a.events \cup {[what |-> "closed", in |-> tRP]} \subseteq [what : {"implicit", "closed"}, in : Nat \ {0}]
      BY Times DEF OneBank, ArrayType
    <2> HIDE DEF a2
    <2> QED
      BY <2>1, <2>2, <2>3 DEF OneBank, ArrayType, ArrayStates
  <1>2. /\ k2 \in BankType
        /\ k2 = [k EXCEPT !.state = "CLOSED", !.nextPowerDown = Later(k.nextPowerDown, tRP)]
    BY Times DEF OneBank, BankType, BankStates, BankPrecharge, Raise, Later
  <1>3. a.events = {} /\ (k.state = "OPEN" => a.state = "OPEN" /\ a.nextActivate = 0)
    BY NothingToCome
  <1>4. g2 \in [Kinds -> Nat] /\ g2["PRE"] = 0 /\ \A x \in Kinds \ {"PRE"} : g2[x] = g[x]
    BY DEF OneBank, Kinds
  <1> HIDE DEF a2, k2, g2
  <1>5. ArrayWaits(a2, g2)
    BY <1>1, <1>3, <1>4, Times, Sums DEF OneBank, ArrayWaits, ArrayType, Later, Kinds
  <1>6. EventsFit(a2, g2)
    <2>1. a2.events = {[what |-> "closed", in |-> tRP]} /\ a2.state = "PRECHARGING" /\ ~Plain(a2)
      BY <1>1, <1>3 DEF OneBank, ArrayType, Plain
    <2>2. a2.nextActivate \in Nat /\ a2.nextActivate >= tRP
      BY <1>1, Times DEF OneBank, ArrayType, Later
    <2>3. g2["ACT"] + a2.nextActivate >= tRAS + tRP
      BY <1>4, <2>2, Times DEF OneBank, ArrayWaits, Kinds
    <2>4. \A e \in a2.events : /\ a2.events = {e} /\ e.what = "closed" /\ e.in = tRP
      BY <2>1
    <2> QED
      BY <2>1, <2>2, <2>3, <2>4 DEF EventsFit
  <1>7. BankFits(a2, k2, g2)
    BY <1>1, <1>2, <1>3, <1>4, Times, Sums DEF OneBank, ArrayWaits, BankFits, Plain, BankType, ArrayType, Later, PowerDowns, Kinds
  <1>8. NoSooner(a, k, a2, k2)
    BY <1>1, <1>2, <1>3, Times, Sums DEF OneBank, NoSooner, BankType, ArrayType, Later
  <1>9. OneBank(a2, k2, g2)
    BY <1>1, <1>2, <1>4, <1>5, <1>6, <1>7 DEF OneBank
  <1> QED
    BY <1>8, <1>9 DEF a2, k2, g2

LEMMA RefreshKeeps ==
    ASSUME NEW a, NEW k, NEW g, OneBank(a, k, g),
           a.nextActivate = 0, a.state = "CLOSED", k.state \in {"OPEN", "CLOSED"}
    PROVE  /\ OneBank(ArrayRefresh(a), BankRefresh(k), [g EXCEPT !["REF"] = 0])
           /\ NoSooner(a, k, ArrayRefresh(a), BankRefresh(k))
  <1> DEFINE a2 == ArrayRefresh(a)
             k2 == BankRefresh(k)
             g2 == [g EXCEPT !["REF"] = 0]
  <1>1. /\ a2 \in ArrayType
        /\ a2 = [a EXCEPT !.state = "REFRESHING", !.nextActivate = Later(a.nextActivate, tRFC),
                          !.events = a.events \cup {[what |-> "closed", in |-> tRFC]}]
    <2>1. a2 = [a EXCEPT !.state = "REFRESHING", !.nextActivate = Later(a.nextActivate, tRFC),
                         !.events = a.events \cup {[what |-> "closed", in |-> tRFC]}]
      BY DEF OneBank, ArrayType, ArrayRefresh, Respond, Raise
    <2>2. a.events \cup {[what |-> "closed", in |-> tRFC]} \subseteq [what : {"implicit", "closed"}, in : Nat \ {0}]
      BY Times DEF OneBank, ArrayType
    <2>3. Later(a.nextActivate, tRFC) \in Nat
      BY Times DEF OneBank, ArrayType, Later
    <2> HIDE DEF a2
    <2> QED
      BY <2>1, <2>2, <2>3 DEF OneBank, ArrayType, ArrayStates
  <1>2. /\ k2 \in BankType
        /\ k2 = [k EXCEPT !.nextPowerDown = Later(k.nextPowerDown, tRFC)]
    BY Times DEF OneBank, BankType, BankRefresh, Raise, Later
  <1>3. a.events = {} /\ (k.state = "OPEN" => a.state = "OPEN" /\ a.nextActivate = 0)
    BY NothingToCome
  <1>4. g2 \in [Kinds -> Nat] /\ g2["REF"] = 0 /\ \A x \in Kinds \ {"REF"} : g2[x] = g[x]
    BY DEF OneBank, Kinds
  <1> HIDE DEF a2, k2, g2
  <1>5. ArrayWaits(a2, g2)
    BY <1>1, <1>3, <1>4, Times, Sums DEF OneBank, ArrayWaits, ArrayType, Later, Kinds
  <1>6. EventsFit(a2, g2)
    <2>1. a2.events = {[what |-> "closed", in |-> tRFC]} /\ a2.state = "REFRESHING" /\ ~Plain(a2)
      BY <1>1, <1>3 DEF OneBank, ArrayType, Plain
    <2>2. a2.nextActivate \in Nat /\ a2.nextActivate >= tRFC
      BY <1>1, Times DEF OneBank, ArrayType, Later
    <2>3. g2["ACT"] + a2.nextActivate >= tRAS + tRP
      BY <1>4, <2>2, Times DEF OneBank, EventsFit, Plain, Kinds
    <2>4. \A e \in a2.events : /\ a2.events = {e} /\ e.what = "closed" /\ e.in = tRFC
      BY <2>1
    <2> QED
      BY <2>1, <2>2, <2>3, <2>4 DEF EventsFit
  <1>7. BankFits(a2, k2, g2)
    BY <1>1, <1>2, <1>3, <1>4, Times, Sums DEF OneBank, ArrayWaits, BankFits, Plain, BankType, ArrayType, Later, PowerDowns, Kinds
  <1>8. NoSooner(a, k, a2, k2)
    BY <1>1, <1>2, <1>3, Times, Sums DEF OneBank, NoSooner, BankType, ArrayType, Later
  <1>9. OneBank(a2, k2, g2)
    BY <1>1, <1>2, <1>4, <1>5, <1>6, <1>7 DEF OneBank
  <1> QED
    BY <1>8, <1>9 DEF a2, k2, g2
-----------------------------------------------------------------------------
(* The next cycle of one bank.                                             *)

Older(g) == [x \in Kinds |-> Earlier(g[x] + 1, Horizon[x])]
ClosesNow(a) == [what |-> "implicit", in |-> 1] \in a.events
Aged(a, g) == IF ClosesNow(a) THEN [Older(g) EXCEPT !["PRE"] = 0] ELSE Older(g)

LEMMA CloserArray ==
    ASSUME NEW a \in ArrayType
    PROVE  LET c == Closer(a)
           IN  /\ c \in ArrayType /\ c.state = a.state /\ c.events = a.events
               /\ c.nextActivate = Less(a.nextActivate) /\ c.nextPrecharge = Less(a.nextPrecharge)
               /\ c.nextRead = Less(a.nextRead) /\ c.nextWrite = Less(a.nextWrite)
               /\ c.nextPowerDown = Less(a.nextPowerDown) /\ c.writing = Less(a.writing)
  BY DEF Closer, Windows, ArrayType, Less

LEMMA CloserBank ==
    ASSUME NEW k \in BankType
    PROVE  LET c == Closer(k)
           IN  /\ c \in BankType /\ c.state = k.state
               /\ c.nextActivate = Less(k.nextActivate) /\ c.nextPrecharge = Less(k.nextPrecharge)
               /\ c.nextRead = Less(k.nextRead) /\ c.nextWrite = Less(k.nextWrite)
               /\ c.nextPowerDown = Less(k.nextPowerDown) /\ c.nextPowerUp = Less(k.nextPowerUp)
  BY DEF Closer, Windows, BankType, Less

\* An array in the next cycle, from the event that was to come.
LEMMA ArrayInTheNextCycle ==
    ASSUME NEW a \in ArrayType, NEW g \in [Kinds -> Nat], EventsFit(a, g)
    PROVE  LET c == ArrayCycle(a)
           IN  /\ c \in ArrayType
               /\ c.nextActivate = Less(a.nextActivate) /\ c.nextPrecharge = Less(a.nextPrecharge)
               /\ c.nextRead = Less(a.nextRead) /\ c.nextWrite = Less(a.nextWrite)
               /\ c.nextPowerDown = Less(a.nextPowerDown) /\ c.writing = Less(a.writing)
               /\ \/ a.events = {} /\ c.events = {} /\ c.state = a.state /\ ~ClosesNow(a)
                  \/ \E n \in Nat \ {0}, w \in {"implicit", "closed"} :
                        /\ a.events = {[what |-> w, in |-> n + 1]} /\ ~ClosesNow(a)
                        /\ c.events = {[what |-> w, in |-> n]} /\ c.state = a.state
                  \/ /\ a.events = {[what |-> "implicit", in |-> 1]} /\ ClosesNow(a)
                     /\ c.events = {[what |-> "closed", in |-> tRP]} /\ c.state = "PRECHARGING"
                  \/ /\ a.events = {[what |-> "closed", in |-> 1]} /\ ~ClosesNow(a)
                     /\ c.events = {} /\ c.state = "CLOSED"
  <1> DEFINE due == {e \in a.events : e.in = 1}
             later == [Closer(a) EXCEPT !.events = {[e EXCEPT !.in = @ - 1] : e \in a.events \ due}]
             c == ArrayCycle(a)
  <1>1. c = IF due = {} THEN later ELSE ArrayRespond((CHOOSE e \in due : TRUE).what, later)
    BY DEF ArrayCycle
  <1>2. /\ later.state = a.state /\ later.nextActivate = Less(a.nextActivate)
        /\ later.nextPrecharge = Less(a.nextPrecharge) /\ later.nextRead = Less(a.nextRead)
        /\ later.nextWrite = Less(a.nextWrite) /\ later.nextPowerDown = Less(a.nextPowerDown)
        /\ later.writing = Less(a.writing)
        /\ later.events = {[e EXCEPT !.in = @ - 1] : e \in a.events \ due}
        /\ \A s \in SUBSET [what : {"implicit", "closed"}, in : Nat \ {0}] :
              later.events = s => later \in ArrayType
        /\ later = [later EXCEPT !.state = a.state]
    BY CloserArray DEF ArrayType
  <1> HIDE DEF later
  <1>3. CASE a.events = {}
    <2>1. due = {} /\ later.events = {}
      BY <1>2, <1>3
    <2> QED
      BY <1>1, <1>2, <1>3, <2>1 DEF ClosesNow
  <1>4. CASE \E n \in Nat \ {0}, w \in {"implicit", "closed"} : a.events = {[what |-> w, in |-> n + 1]}
    <2>1. PICK n \in Nat \ {0}, w \in {"implicit", "closed"} : a.events = {[what |-> w, in |-> n + 1]}
      BY <1>4
    <2>2. due = {}
      BY <2>1
    <2>3. later.events = {[what |-> w, in |-> n]}
      <3>1. later.events = {[e EXCEPT !.in = @ - 1] : e \in {[what |-> w, in |-> n + 1]}}
        BY <1>2, <2>1, <2>2
      <3>2. [[what |-> w, in |-> n + 1] EXCEPT !.in = @ - 1] = [what |-> w, in |-> n]
        OBVIOUS
      <3> QED
        BY <3>1, <3>2
    <2>4. {[what |-> w, in |-> n]} \in SUBSET [what : {"implicit", "closed"}, in : Nat \ {0}]
      OBVIOUS
    <2>5. later \in ArrayType
      BY <1>2, <2>3, <2>4
    <2>6. ~ClosesNow(a)
      BY <2>1 DEF ClosesNow
    <2> QED
      BY <1>1, <1>2, <2>1, <2>2, <2>3, <2>5, <2>6
  <1>5. CASE \E w \in {"implicit", "closed"} : a.events = {[what |-> w, in |-> 1]}
    <2>1. PICK w \in {"implicit", "closed"} : a.events = {[what |-> w, in |-> 1]}
      BY <1>5
    <2>2. due = {[what |-> w, in |-> 1]} /\ later.events = {}
      BY <1>2, <2>1
    <2>3. later \in ArrayType
      BY <1>2, <2>2
    <2>4. c = ArrayRespond(w, later)
      <3>1. (CHOOSE e \in due : TRUE) \in due /\ due # {}
        BY <2>2
      <3>2. (CHOOSE e \in due : TRUE).what = w
        BY <2>2, <3>1
      <3> QED
        BY ONLY <1>1, <3>1, <3>2
    <2>5. ClosesNow(a) <=> w = "implicit"
      BY <2>1 DEF ClosesNow
    <2>6. CASE w = "implicit"
      <3>1. c = [later EXCEPT !.state = "PRECHARGING", !.events = later.events \cup {[what |-> "closed", in |-> tRP]}]
        BY <2>3, <2>4, <2>6 DEF ArrayRespond, Respond, ArrayType
      <3>2. {[what |-> "closed", in |-> tRP]} \in SUBSET [what : {"implicit", "closed"}, in : Nat \ {0}]
        BY Times
      <3>3. later.events \cup {[what |-> "closed", in |-> tRP]} = {[what |-> "closed", in |-> tRP]}
        BY <2>2
      <3>4. /\ c \in ArrayType /\ c.state = "PRECHARGING" /\ c.events = {[what |-> "closed", in |-> tRP]}
            /\ c.nextActivate = later.nextActivate /\ c.nextPrecharge = later.nextPrecharge
            /\ c.nextRead = later.nextRead /\ c.nextWrite = later.nextWrite
            /\ c.nextPowerDown = later.nextPowerDown /\ c.writing = later.writing
        BY <2>3, <3>1, <3>2, <3>3 DEF ArrayType, ArrayStates
      <3> QED
        BY <1>2, <2>1, <2>5, <2>6, <3>4
    <2>7. CASE w = "closed"
      <3>1. c = [later EXCEPT !.state = "CLOSED"]
        BY <2>4, <2>7 DEF ArrayRespond
      <3>2. /\ c \in ArrayType /\ c.state = "CLOSED" /\ c.events = later.events
            /\ c.nextActivate = later.nextActivate /\ c.nextPrecharge = later.nextPrecharge
            /\ c.nextRead = later.nextRead /\ c.nextWrite = later.nextWrite
            /\ c.nextPowerDown = later.nextPowerDown /\ c.writing = later.writing
        BY <2>3, <3>1 DEF ArrayType, ArrayStates
      <3> QED
        BY <1>2, <2>1, <2>2, <2>5, <2>7, <3>2
    <2> QED
      BY <2>6, <2>7
  <1>6. ASSUME a.events # {}
        PROVE  \E n \in Nat, w \in {"implicit", "closed"} : a.events = {[what |-> w, in |-> n + 1]}
    <2>1. PICK e \in a.events : a.events = {e}
      BY <1>6 DEF EventsFit
    <2>2. e \in [what : {"implicit", "closed"}, in : Nat \ {0}]
      BY DEF ArrayType
    <2>3. e.in - 1 \in Nat /\ e = [what |-> e.what, in |-> (e.in - 1) + 1] /\ e.what \in {"implicit", "closed"}
      BY <2>2
    <2> QED
      BY <2>1, <2>3
  <1>7. a.events = {} \/ (\E n \in Nat \ {0}, w \in {"implicit", "closed"} : a.events = {[what |-> w, in |-> n + 1]})
        \/ (\E w \in {"implicit", "closed"} : a.events = {[what |-> w, in |-> 1]})
    <2>1. CASE a.events # {}
      <3>1. PICK n \in Nat, w \in {"implicit", "closed"} : a.events = {[what |-> w, in |-> n + 1]}
        BY <1>6, <2>1
      <3>2. CASE n = 0
        BY <3>1, <3>2
      <3>3. CASE n # 0
        BY <3>1, <3>3
      <3> QED
        BY <3>2, <3>3
    <2> QED
      BY <2>1
  <1> QED
    BY <1>3, <1>4, <1>5, <1>7

LEMMA AgesGrow ==
    ASSUME NEW g \in [Kinds -> Nat], NEW a
    PROVE  /\ Older(g) \in [Kinds -> Nat]
           /\ \A x \in Kinds : Older(g)[x] = Earlier(g[x] + 1, Horizon[x])
           /\ Aged(a, g) \in [Kinds -> Nat]
           /\ \A x \in Kinds \ {"PRE"} : Aged(a, g)[x] = Earlier(g[x] + 1, Horizon[x])
           /\ Aged(a, g)["PRE"] = IF ClosesNow(a) THEN 0 ELSE Earlier(g["PRE"] + 1, Horizon["PRE"])
  <1>1. \A x \in Kinds : Earlier(g[x] + 1, Horizon[x]) \in Nat
    BY Horizons DEF Earlier
  <1>2. Older(g) \in [Kinds -> Nat] /\ \A x \in Kinds : Older(g)[x] = Earlier(g[x] + 1, Horizon[x])
    BY <1>1 DEF Older
  <1> QED
    BY <1>2 DEF Aged, Kinds

LEMMA CycleKeeps ==
    ASSUME NEW a, NEW k, NEW g, OneBank(a, k, g)
    PROVE  /\ OneBank(ArrayCycle(a), Closer(k), Aged(a, g))
           /\ ClosesNow(a) => TooSoonToClose(Older(g)) = {}
           /\ Closing(a) => Closing(ArrayCycle(a))
  <1> DEFINE a2 == ArrayCycle(a)
             k2 == Closer(k)
             g2 == Aged(a, g)
  <1>1. /\ a \in ArrayType /\ k \in BankType /\ g \in [Kinds -> Nat]
        /\ ArrayWaits(a, g) /\ EventsFit(a, g) /\ BankFits(a, k, g)
    BY DEF OneBank
  <1>2. /\ a2 \in ArrayType
        /\ a2.nextActivate = Less(a.nextActivate) /\ a2.nextPrecharge = Less(a.nextPrecharge)
        /\ a2.nextRead = Less(a.nextRead) /\ a2.nextWrite = Less(a.nextWrite)
        /\ a2.nextPowerDown = Less(a.nextPowerDown) /\ a2.writing = Less(a.writing)
    BY <1>1, ArrayInTheNextCycle
  <1>3. /\ k2 \in BankType /\ k2.state = k.state
        /\ k2.nextPowerDown = Less(k.nextPowerDown)
    BY <1>1, CloserBank
  <1>4. /\ g2 \in [Kinds -> Nat]
        /\ \A x \in Kinds \ {"PRE"} : g2[x] = Earlier(g[x] + 1, Horizon[x])
        /\ g2["PRE"] = IF ClosesNow(a) THEN 0 ELSE Earlier(g["PRE"] + 1, Horizon["PRE"])
    BY <1>1, AgesGrow
  <1>5. \/ a.events = {} /\ a2.events = {} /\ a2.state = a.state /\ ~ClosesNow(a)
        \/ \E n \in Nat \ {0}, w \in {"implicit", "closed"} :
              /\ a.events = {[what |-> w, in |-> n + 1]} /\ ~ClosesNow(a)
              /\ a2.events = {[what |-> w, in |-> n]} /\ a2.state = a.state
        \/ /\ a.events = {[what |-> "implicit", in |-> 1]} /\ ClosesNow(a)
           /\ a2.events = {[what |-> "closed", in |-> tRP]} /\ a2.state = "PRECHARGING"
        \/ /\ a.events = {[what |-> "closed", in |-> 1]} /\ ~ClosesNow(a)
           /\ a2.events = {} /\ a2.state = "CLOSED"
    BY <1>1, ArrayInTheNextCycle
  <1>6. \A w \in Nat : Less(w) \in Nat /\ Less(w) >= w - 1
    BY DEF Less
  <1>7. ClosesNow(a) => ClosesInTime(a, g, 1)
    BY <1>1 DEF ClosesNow, EventsFit
  <1>8. /\ g["ACT"] \in Nat /\ g["READ"] \in Nat /\ g["WRITE"] \in Nat
        /\ g["REF"] \in Nat /\ g["PRE"] \in Nat
        /\ g2["ACT"] = Earlier(g["ACT"] + 1, Horizon["ACT"])
        /\ g2["READ"] = Earlier(g["READ"] + 1, Horizon["READ"])
        /\ g2["WRITE"] = Earlier(g["WRITE"] + 1, Horizon["WRITE"])
        /\ g2["REF"] = Earlier(g["REF"] + 1, Horizon["REF"])
    BY <1>1, <1>4 DEF Kinds
  <1>9. /\ a.nextActivate \in Nat /\ a.nextPrecharge \in Nat /\ a.nextRead \in Nat
        /\ a.nextWrite \in Nat /\ a.nextPowerDown \in Nat /\ k.nextPowerDown \in Nat
    BY <1>1 DEF ArrayType, BankType
  <1> HIDE DEF a2, k2, g2
  <1>10. ArrayWaits(a2, g2)
    <2>1. /\ g2["ACT"] + a2.nextRead >= tRCD /\ g2["ACT"] + a2.nextWrite >= tRCD
          /\ g2["ACT"] + a2.nextPrecharge >= tRAS
      BY <1>1, <1>2, <1>8, <1>9, Horizons, Times, StillWaits DEF ArrayWaits
    <2>2. /\ g2["READ"] + a2.nextPrecharge >= tRTP
          /\ g2["READ"] + a2.nextPowerDown >= tCAS + tBURST + 1
      BY <1>1, <1>2, <1>8, <1>9, Horizons, Times, StillWaits DEF ArrayWaits
    <2>3. /\ g2["WRITE"] + a2.nextPrecharge >= WriteRecovery
          /\ g2["WRITE"] + a2.nextPowerDown >= tCWD + tBURST
      BY <1>1, <1>2, <1>8, <1>9, Horizons, Times, Sums, StillWaits DEF ArrayWaits
    <2>4. closePage # 0 => g2["WRITE"] + a2.nextRead + tRTP >= WriteRecovery
      <3>1. g["WRITE"] + a.nextRead >= WriteRecovery - tRTP
            => g2["WRITE"] + a2.nextRead >= WriteRecovery - tRTP
        BY <1>2, <1>8, <1>9, Horizons, Times, Sums, StillWaits
      <3>2. g2["WRITE"] \in Nat /\ a2.nextRead \in Nat
        BY <1>2, <1>4 DEF ArrayType, Kinds
      <3> QED
        BY <1>1, <1>8, <1>9, <3>1, <3>2, Times, Sums DEF ArrayWaits
    <2>5. g2["REF"] + a2.nextActivate >= tRFC
      BY <1>1, <1>2, <1>8, <1>9, Horizons, Times, StillWaits DEF ArrayWaits
    <2>6. g2["PRE"] + a2.nextActivate >= tRP
      <3>1. CASE ClosesNow(a)
        BY <1>2, <1>4, <1>6, <1>7, <1>9, <3>1, Times DEF ClosesInTime
      <3>2. CASE ~ClosesNow(a)
        <4>1. g2["PRE"] = Earlier(g["PRE"] + 1, Horizon["PRE"])
          BY <1>4, <3>2
        <4>2. a2.nextActivate = Less(a.nextActivate)
          BY <1>2
        <4>3. g["PRE"] + a.nextActivate >= tRP
          BY <1>1 DEF ArrayWaits
        <4> QED
          BY <1>8, <1>9, <4>1, <4>2, <4>3, Horizons, Times, StillWaits
      <3> QED
        BY <3>1, <3>2
    <2> QED
      BY <2>1, <2>2, <2>3, <2>4, <2>5, <2>6 DEF ArrayWaits
  <1>11. ~Plain(a) => g2["ACT"] + a2.nextActivate >= tRAS + tRP
    <2>1. ~Plain(a) => g["ACT"] + a.nextActivate >= tRAS + tRP
      BY <1>1 DEF EventsFit
    <2>2. tRAS + tRP \in Int
      BY Times
    <2> QED
      BY <1>2, <1>8, <1>9, <2>1, <2>2, Horizons, StillWaits
  <1>12. Plain(a2) <=> Plain(a)
    BY <1>1, <1>5 DEF Plain, EventsFit
  <1>13. \A n \in Nat \ {0} : ClosesInTime(a, g, n + 1) /\ a2.state = "OPEN" => ClosesInTime(a2, g2, n)
    <2> TAKE n \in Nat \ {0}
    <2> HAVE ClosesInTime(a, g, n + 1) /\ a2.state = "OPEN"
    <2>1. /\ a2.nextActivate >= n + tRP
          /\ a2.nextPrecharge >= n /\ a2.nextRead >= n /\ a2.nextWrite >= n
      BY <1>2, <1>6, <1>9, Times DEF ClosesInTime
    <2>2. g2["ACT"] + n >= tRAS /\ g2["READ"] + n >= tRTP /\ g2["WRITE"] + n >= WriteRecovery
      BY <1>8, Horizons, Times, Sums DEF ClosesInTime, Earlier
    <2> QED
      BY <2>1, <2>2 DEF ClosesInTime
  <1>14. EventsFit(a2, g2)
    <2>1. IF Plain(a2) THEN a2.nextActivate = 0 ELSE g2["ACT"] + a2.nextActivate >= tRAS + tRP
      BY <1>1, <1>2, <1>11, <1>12 DEF EventsFit, Less
    <2>2. CASE a.events = {} /\ a2.events = {} /\ a2.state = a.state
      BY <1>1, <2>1, <2>2 DEF EventsFit
    <2>3. CASE \E n \in Nat \ {0}, w \in {"implicit", "closed"} :
                  /\ a.events = {[what |-> w, in |-> n + 1]}
                  /\ a2.events = {[what |-> w, in |-> n]} /\ a2.state = a.state
      <3>1. PICK n \in Nat \ {0}, w \in {"implicit", "closed"} :
                  /\ a.events = {[what |-> w, in |-> n + 1]}
                  /\ a2.events = {[what |-> w, in |-> n]} /\ a2.state = a.state
        BY <2>3
      <3>2. w = "implicit" => ClosesInTime(a, g, n + 1)
        BY <1>1, <3>1 DEF EventsFit
      <3>3. w = "implicit" => ClosesInTime(a2, g2, n)
        BY <1>13, <3>1, <3>2 DEF ClosesInTime
      <3>4. w = "closed" => a.state \in {"PRECHARGING", "REFRESHING"} /\ a.nextActivate >= n + 1
        BY <1>1, <3>1 DEF EventsFit
      <3>5. w = "closed" => a2.state \in {"PRECHARGING", "REFRESHING"} /\ a2.nextActivate >= n
        BY <1>2, <1>6, <1>9, <3>1, <3>4
      <3>6. \A e \in a2.events : a2.events = {e} /\ e.what = w /\ e.in = n
        BY <3>1
      <3>7. a2.events # {}
        BY <3>1
      <3> QED
        BY <2>1, <3>3, <3>5, <3>6, <3>7 DEF EventsFit
    <2>4. CASE ClosesNow(a) /\ a2.events = {[what |-> "closed", in |-> tRP]} /\ a2.state = "PRECHARGING"
      <3>1. a2.nextActivate >= tRP
        BY <1>2, <1>6, <1>7, <1>9, <2>4, Times DEF ClosesInTime
      <3>2. \A e \in a2.events : a2.events = {e} /\ e.what = "closed" /\ e.in = tRP
        BY <2>4
      <3>3. a2.events # {}
        BY <2>4
      <3> QED
        BY <2>1, <2>4, <3>1, <3>2, <3>3 DEF EventsFit
    <2>5. CASE a2.events = {} /\ a2.state = "CLOSED"
      BY <2>1, <2>5 DEF EventsFit
    <2> QED
      BY <1>5, <2>2, <2>3, <2>4, <2>5
  <1>15. BankFits(a2, k2, g2)
    <2>1. a2.nextActivate <= Later(k2.nextPowerDown, a2.nextPowerDown)
      BY <1>1, <1>2, <1>3, <1>9 DEF BankFits, Later, Less
    <2>2. g2["ACT"] + k2.nextPowerDown >= tRCD
      BY <1>1, <1>3, <1>8, <1>9, Horizons, Times, StillWaits DEF BankFits
    <2>3. k2.state \in {"OPEN", "PDA"} <=> Plain(a2)
      BY <1>1, <1>3, <1>12 DEF BankFits
    <2>4. k2.state \in PowerDowns => a2.events = {} /\ a2.writing = 0 /\ a2.nextPowerDown = 0
      <3>1. k2.state \in PowerDowns => a.events = {} /\ a.writing = 0 /\ a.nextPowerDown = 0
        BY <1>1, <1>3 DEF BankFits
      <3>2. a.events = {} => a2.events = {}
        BY <1>5
      <3> QED
        BY <1>2, <3>1, <3>2 DEF Less
    <2> QED
      BY <2>1, <2>2, <2>3, <2>4 DEF BankFits
  <1>16. ClosesNow(a) => TooSoonToClose(Older(g)) = {}
    <2>1. /\ Older(g)["ACT"] = g2["ACT"] /\ Older(g)["READ"] = g2["READ"]
          /\ Older(g)["WRITE"] = g2["WRITE"]
      BY <1>1, <1>8, AgesGrow DEF Kinds
    <2>2. ClosesNow(a) => g2["ACT"] >= tRAS /\ g2["READ"] >= tRTP /\ g2["WRITE"] >= WriteRecovery
      BY <1>7, <1>8, Horizons, Times, Sums DEF ClosesInTime, Earlier
    <2> QED
      BY <2>1, <2>2 DEF TooSoonToClose, Unless, WriteRecovery
  <1>17. Closing(a) => Closing(a2)
    <2>1. ClosesNow(a) => a.state = "OPEN"
      BY <1>7 DEF ClosesInTime
    <2> QED
      BY <1>5, <2>1 DEF Closing
  <1>18. OneBank(a2, k2, g2)
    BY <1>2, <1>3, <1>4, <1>10, <1>14, <1>15 DEF OneBank
  <1> QED
    BY <1>16, <1>17, <1>18 DEF a2, k2, g2
-----------------------------------------------------------------------------
(* What a command for the banks bs leaves of the invariant.                *)

\* The banks bs are given a command that an age is kept of, the others none.
GivenTo(bs, kind) ==
    /\ array' \in [Banks -> ArrayType] /\ bank' \in [Banks -> BankType]
    /\ \A b \in Banks \ bs : array'[b] = array[b] /\ bank'[b] = bank[b]
    /\ \A b \in bs : /\ OneBank(array'[b], bank'[b], [age.of[b] EXCEPT ![kind] = 0])
                     /\ NoSooner(array[b], bank[b], array'[b], bank'[b])
    /\ age'.of = [b \in Banks |-> IF b \in bs THEN [age.of[b] EXCEPT ![kind] = 0] ELSE age.of[b]]
    /\ age'.up = age.up /\ age'.down = age.down /\ age'.slow = age.slow

LEMMA Typing ==
    ASSUME TypeOK, NEW b \in Banks
    PROVE  /\ array[b] \in ArrayType /\ bank[b] \in BankType /\ age.of[b] \in [Kinds -> Nat]
           /\ age.of[b]["ACT"] \in Nat /\ age.of[b]["READ"] \in Nat /\ age.of[b]["WRITE"] \in Nat
           /\ age.of[b]["REF"] \in Nat /\ age.of[b]["PRE"] \in Nat
  BY DEF TypeOK, AgeType, Kinds

LEMMA RankTyping ==
    ASSUME TypeOK
    PROVE  /\ rank.nextRead \in Nat /\ rank.nextWrite \in Nat /\ rank.nextActivate \in Nat
           /\ rank.nextPrecharge \in Nat /\ rank.RAWindex \in 0 .. rawNum - 1
           /\ rank.lastActivate \in [0 .. rawNum - 1 -> Nat]
           /\ peer.nextRead \in Nat /\ peer.nextWrite \in Nat
           /\ age.of \in [Banks -> [Kinds -> Nat]] /\ age.acts \in [1 .. rawNum -> Nat]
           /\ age.up \in Nat /\ age.down \in Nat
  BY DEF TypeOK, RankType, PeerType, AgeType

LEMMA CommandKeepsBanks ==
    ASSUME TypeOK, NEW bs \in SUBSET Banks, NEW kind \in Kinds, GivenTo(bs, kind),
           \A b \in Banks : BankInv(b)
    PROVE  /\ \A b \in Banks : BankInv(b)'
           /\ age'.of \in [Banks -> [Kinds -> Nat]]
           /\ \A b \in Banks : /\ array'[b].nextActivate >= array[b].nextActivate
                               /\ array'[b].nextPowerDown >= array[b].nextPowerDown
                               /\ bank'[b].nextPowerUp = bank[b].nextPowerUp
           /\ \A b \in bs : /\ bank[b].state \in {"OPEN", "CLOSED"} /\ bank'[b].state \in {"OPEN", "CLOSED"}
  <1>1. age'.of \in [Banks -> [Kinds -> Nat]]
    BY RankTyping DEF GivenTo
  <1>2. ASSUME NEW b \in Banks
        PROVE  BankInv(b)'
    <2>1. CASE b \in bs
      <3>1. OneBank(array'[b], bank'[b], age'.of[b])
        BY <2>1 DEF GivenTo
      <3>2. NoSooner(array[b], bank[b], array'[b], bank'[b]) /\ PowerWaits(bank[b])
        BY <2>1 DEF GivenTo, BankInv
      <3>3. bank[b] \in BankType /\ bank'[b] \in BankType
        BY Typing DEF GivenTo
      <3>4. age'.up = age.up /\ age'.down = age.down /\ age'.slow = age.slow
        BY DEF GivenTo
      <3>5. PowerWaits(bank[b])'
        <4> DEFINE k == bank[b]
                   k2 == bank'[b]
        <4>1. /\ k.nextActivate \in Nat /\ k.nextPrecharge \in Nat /\ k.nextRead \in Nat
              /\ k.nextWrite \in Nat /\ k.nextPowerDown \in Nat
              /\ k2.nextActivate \in Nat /\ k2.nextPrecharge \in Nat /\ k2.nextRead \in Nat
              /\ k2.nextWrite \in Nat /\ k2.nextPowerDown \in Nat
          BY <3>3 DEF BankType
        <4>2. /\ k2.nextActivate >= k.nextActivate /\ k2.nextPrecharge >= k.nextPrecharge
              /\ k2.nextRead >= k.nextRead /\ k2.nextWrite >= k.nextWrite
              /\ k2.nextPowerDown >= k.nextPowerDown \/ k2.nextPowerDown >= k.nextActivate
              /\ k2.nextPowerUp = k.nextPowerUp
              /\ k.state # "PDPS" /\ k2.state \in {"OPEN", "CLOSED"}
          BY <3>2 DEF NoSooner
        <4>3. /\ age.up + k.nextActivate >= tXP /\ age.up + k.nextPrecharge >= tXP
              /\ age.up + k.nextWrite >= tXP /\ age.up + k.nextPowerDown >= tXP
              /\ age.up + k.nextRead >= IF age.slow THEN tXPDLL ELSE tXP
              /\ age.down + k.nextPowerUp >= tPD
          BY <3>2, <4>2 DEF PowerWaits
        <4> HIDE DEF k, k2
        <4>4. /\ age.up + k2.nextActivate >= tXP /\ age.up + k2.nextPrecharge >= tXP
              /\ age.up + k2.nextWrite >= tXP /\ age.up + k2.nextPowerDown >= tXP
              /\ age.up + k2.nextRead >= IF age.slow THEN tXPDLL ELSE tXP
              /\ age.down + k2.nextPowerUp >= tPD
          <5>1. age.up \in Nat /\ age.down \in Nat /\ tXP \in Nat /\ tXPDLL \in Nat
            BY RankTyping, Times
          <5>2. age.up + k2.nextRead >= IF age.slow THEN tXPDLL ELSE tXP
            BY ONLY <4>1, <4>2, <4>3, <5>1
          <5> QED
            BY ONLY <4>1, <4>2, <4>3, <5>1, <5>2
        <4>5. ~(k2.state \in {"PDA", "PDPF"})
          BY <4>2
        <4> QED
          BY <3>4, <4>4, <4>5 DEF PowerWaits, k2
      <3> QED
        BY <3>1, <3>5 DEF BankInv
    <2>2. CASE b \notin bs
      <3>1. array'[b] = array[b] /\ bank'[b] = bank[b] /\ age'.of[b] = age.of[b]
        BY <2>2 DEF GivenTo
      <3>2. OneBank(array'[b], bank'[b], age'.of[b])
        BY <3>1 DEF BankInv
      <3>3. PowerWaits(bank[b])'
        BY <3>1 DEF BankInv, PowerWaits, GivenTo
      <3> QED
        BY <3>2, <3>3 DEF BankInv
    <2> QED
      BY <2>1, <2>2
  <1>3. ASSUME NEW b \in Banks
        PROVE  /\ array'[b].nextActivate >= array[b].nextActivate
               /\ array'[b].nextPowerDown >= array[b].nextPowerDown
               /\ bank'[b].nextPowerUp = bank[b].nextPowerUp
               /\ b \in bs => bank[b].state \in {"OPEN", "CLOSED"} /\ bank'[b].state \in {"OPEN", "CLOSED"}
    <2>1. CASE b \in bs
      BY <2>1 DEF GivenTo, NoSooner
    <2>2. CASE b \notin bs
      <3>1. array[b].nextActivate \in Nat /\ array[b].nextPowerDown \in Nat
        BY Typing DEF ArrayType
      <3> QED
        BY <2>2, <3>1 DEF GivenTo
    <2> QED
      BY <2>1, <2>2
  <1> QED
    BY <1>1, <1>2, <1>3

\* What the rank's windows have to be after a command of that kind.
RankRaised(kind) ==
    /\ rank'.nextActivate >= rank.nextActivate /\ rank'.nextRead >= rank.nextRead
    /\ rank'.nextWrite >= rank.nextWrite
    /\ kind = "ACT" => rank'.nextActivate >= tRRDR
    /\ kind = "READ" => rank'.nextRead >= Burst /\ rank'.nextWrite >= Turn
    /\ kind = "WRITE" => rank'.nextRead >= WriteToRead /\ rank'.nextWrite >= Burst

LEMMA CommandKeepsRank ==
    ASSUME TypeOK, NEW bs \in SUBSET Banks, NEW kind \in Kinds,
           age'.of = [b \in Banks |-> IF b \in bs THEN [age.of[b] EXCEPT ![kind] = 0] ELSE age.of[b]],
           RankRaised(kind), rank' \in RankType, \A b \in Banks : RankWaits(b)
    PROVE  \A b \in Banks : RankWaits(b)'
  <1> SUFFICES ASSUME NEW b \in Banks
               PROVE  RankWaits(b)'
    OBVIOUS
  <1> DEFINE g == age.of[b]
             h == age'.of[b]
  <1>1. g \in [Kinds -> Nat]
    BY Typing
  <1>2. h = IF b \in bs THEN [g EXCEPT ![kind] = 0] ELSE g
    OBVIOUS
  <1>3. /\ g["ACT"] \in Nat /\ g["READ"] \in Nat /\ g["WRITE"] \in Nat
        /\ h["ACT"] = g["ACT"] \/ (h["ACT"] = 0 /\ kind = "ACT")
        /\ h["READ"] = g["READ"] \/ (h["READ"] = 0 /\ kind = "READ")
        /\ h["WRITE"] = g["WRITE"] \/ (h["WRITE"] = 0 /\ kind = "WRITE")
    BY <1>1, <1>2 DEF Kinds
  <1>4. /\ g["ACT"] + rank.nextActivate >= tRRDR
        /\ g["READ"] + rank.nextRead >= Burst /\ g["READ"] + rank.nextWrite >= Turn
        /\ g["WRITE"] + rank.nextRead >= WriteToRead /\ g["WRITE"] + rank.nextWrite >= Burst
    BY DEF RankWaits
  <1>5. /\ rank'.nextRead \in Nat /\ rank'.nextWrite \in Nat /\ rank'.nextActivate \in Nat
    BY DEF RankType
  <1> HIDE DEF g, h
  <1>6. /\ h["ACT"] + rank'.nextActivate >= tRRDR
        /\ h["READ"] + rank'.nextRead >= Burst /\ h["READ"] + rank'.nextWrite >= Turn
        /\ h["WRITE"] + rank'.nextRead >= WriteToRead /\ h["WRITE"] + rank'.nextWrite >= Burst
    <2>0. /\ rank.nextActivate \in Nat /\ rank.nextRead \in Nat /\ rank.nextWrite \in Nat
          /\ tRRDR \in Nat /\ Burst \in Nat /\ Turn \in Int /\ WriteToRead \in Nat
      BY RankTyping, Times, Sums
    <2>1. h["ACT"] + rank'.nextActivate >= tRRDR
      BY <1>3, <1>4, <1>5, <2>0 DEF RankRaised
    <2>2. h["READ"] + rank'.nextRead >= Burst /\ h["READ"] + rank'.nextWrite >= Turn
      BY <1>3, <1>4, <1>5, <2>0 DEF RankRaised
    <2>3. h["WRITE"] + rank'.nextRead >= WriteToRead /\ h["WRITE"] + rank'.nextWrite >= Burst
      BY <1>3, <1>4, <1>5, <2>0 DEF RankRaised
    <2> QED
      BY <2>1, <2>2, <2>3
  <1> QED
    BY <1>6 DEF RankWaits, h
-----------------------------------------------------------------------------
(* The ring of activations.                                                *)

LEMMA NextIndex ==
    ASSUME NEW i \in 0 .. rawNum - 1
    PROVE  (i + 1) % rawNum = IF i + 1 = rawNum THEN 0 ELSE i + 1
  <1>1. rawNum \in Nat \ {0} /\ i \in Nat
    BY Counts
  <1>2. CASE i + 1 = rawNum
    BY <1>1, <1>2
  <1>3. CASE i + 1 < rawNum
    BY <1>1, <1>3
  <1> QED
    BY <1>1, <1>2, <1>3

LEMMA Recorded ==
    ASSUME NEW r \in RankType
    PROVE  LET s == Record(r)
               next == IF r.RAWindex + 1 = rawNum THEN 0 ELSE r.RAWindex + 1
           IN  /\ s \in RankType /\ s.state = r.state
               /\ s.nextActivate = Later(r.nextActivate, tRRDR)
               /\ s.nextRead = r.nextRead /\ s.nextWrite = r.nextWrite
               /\ s.nextPrecharge = r.nextPrecharge
               /\ s.RAWindex = next /\ s.lastActivate = [r.lastActivate EXCEPT ![next] = 0]
  <1> DEFINE next == (r.RAWindex + 1) % rawNum
  <1>1. r.RAWindex \in 0 .. rawNum - 1
    BY DEF RankType
  <1>2. next = (IF r.RAWindex + 1 = rawNum THEN 0 ELSE r.RAWindex + 1) /\ next \in 0 .. rawNum - 1
    BY <1>1, NextIndex, Counts
  <1>3. Record(r) = [r EXCEPT !.nextActivate = Later(r.nextActivate, tRRDR), !.RAWindex = next,
                              !.lastActivate = [r.lastActivate EXCEPT ![next] = 0]]
    BY DEF Record, Raise, RankType
  <1>4. Later(r.nextActivate, tRRDR) \in Nat
    BY Times DEF Later, RankType
  <1>5. [r.lastActivate EXCEPT ![next] = 0] \in [0 .. rawNum - 1 -> Nat]
    BY <1>2 DEF RankType
  <1> HIDE DEF next
  <1>6. Record(r) \in RankType
    BY <1>2, <1>3, <1>4, <1>5 DEF RankType
  <1> QED
    BY <1>2, <1>3, <1>6 DEF RankType

\* A window of tRAW since the rawNum-th last activation is a window since the oldest entry.
LEMMA OldestIsTheLast ==
    ASSUME TypeOK, RingIsRight, OldestActivate >= tRAW
    PROVE  age.acts[rawNum] >= tRAW
  <1>1. rank.RAWindex \in 0 .. rawNum - 1 /\ rawNum \in Nat \ {0}
    BY RankTyping, Counts
  <1>2. (rank.RAWindex + 1) % rawNum = Slot(rawNum)
    BY <1>1, NextIndex DEF Slot
  <1>3. Slot(rawNum) \in 0 .. rawNum - 1
    BY <1>1 DEF Slot
  <1>4. rank.lastActivate[Slot(rawNum)] \in Nat
    BY <1>3, RankTyping
  <1>5. age.acts[rawNum] \in Nat /\ tRAW \in Nat
    BY <1>1, RankTyping, Times
  <1>6. age.acts[rawNum] >= rank.lastActivate[Slot(rawNum)]
    BY <1>1 DEF RingIsRight
  <1>7. rank.lastActivate[Slot(rawNum)] >= tRAW
    BY <1>2 DEF OldestActivate
  <1> QED
    BY <1>4, <1>5, <1>6, <1>7

LEMMA ActivationKeepsRing ==
    ASSUME TypeOK, RingIsRight, NEW r \in RankType, rank' = Record(r),
           r.RAWindex = rank.RAWindex, r.lastActivate = rank.lastActivate,
           age'.acts = [i \in 1 .. rawNum |-> IF i = 1 THEN 0 ELSE age.acts[i - 1]]
    PROVE  RingIsRight' /\ age'.acts \in [1 .. rawNum -> Nat]
  <1> DEFINE w == rank.RAWindex
             next == IF w + 1 = rawNum THEN 0 ELSE w + 1
  <1>1. w \in 0 .. rawNum - 1 /\ rawNum \in Nat \ {0} /\ rank.lastActivate \in [0 .. rawNum - 1 -> Nat]
    <2>1. w \in 0 .. rawNum - 1 /\ rank.lastActivate \in [0 .. rawNum - 1 -> Nat]
      BY RankTyping
    <2> QED
      BY <2>1, Counts
  <1>2. /\ rank'.RAWindex = next
        /\ rank'.lastActivate = [rank.lastActivate EXCEPT ![next] = 0]
    BY Recorded
  <1>3. \A i \in 1 .. rawNum : age'.acts[i] = IF i = 1 THEN 0 ELSE age.acts[i - 1]
    OBVIOUS
  <1>4. age.acts \in [1 .. rawNum -> Nat]
    BY RankTyping
  <1>5. age'.acts \in [1 .. rawNum -> Nat]
    <2>1. \A i \in 1 .. rawNum : i # 1 => i - 1 \in 1 .. rawNum
      BY <1>1
    <2>2. \A i \in 1 .. rawNum : (IF i = 1 THEN 0 ELSE age.acts[i - 1]) \in Nat
      BY <1>4, <2>1
    <2> QED
      BY <2>2
  <1>6. ASSUME NEW i \in 1 .. rawNum
        PROVE  age'.acts[i] >= rank'.lastActivate[Slot(i)']
    <2>1. CASE i = 1
      <3>1. Slot(i)' = next /\ next \in 0 .. rawNum - 1
        BY <1>1, <1>2, <2>1 DEF Slot
      <3>2. rank'.lastActivate[next] = 0
        BY <1>1, <1>2, <3>1
      <3> QED
        BY <1>3, <2>1, <3>1, <3>2
    <2>2. CASE i # 1
      <3>1. i - 1 \in 1 .. rawNum /\ i - 1 < rawNum
        BY <1>1, <2>2
      <3>2. /\ Slot(i)' = Slot(i - 1) /\ Slot(i - 1) # next
            /\ Slot(i - 1) \in 0 .. rawNum - 1
        <4> DEFINE m == rawNum
        <4>1. w \in 0 .. m - 1 /\ m \in Nat \ {0} /\ i \in Int /\ i - 1 \in 1 .. m - 1
          BY <1>1, <3>1
        <4>2. Slot(i)' = (IF next >= i - 1 THEN next - (i - 1) ELSE next - (i - 1) + m)
          BY <1>2 DEF Slot
        <4>3. Slot(i - 1) = (IF w >= (i - 1) - 1 THEN w - ((i - 1) - 1) ELSE w - ((i - 1) - 1) + m)
          BY DEF Slot
        <4>4. (w + 1 = m /\ next = 0) \/ (w + 1 < m /\ next = w + 1)
          BY <4>1
        <4> HIDE DEF w, next, m
        <4>5. Slot(i)' = Slot(i - 1) /\ Slot(i - 1) # next /\ Slot(i - 1) \in 0 .. m - 1
          BY <4>1, <4>2, <4>3, <4>4
        <4> QED
          BY <4>5 DEF m
      <3>3. rank'.lastActivate[Slot(i)'] = rank.lastActivate[Slot(i - 1)]
        BY <1>1, <1>2, <3>2
      <3>4. age.acts[i - 1] >= rank.lastActivate[Slot(i - 1)]
        BY <3>1 DEF RingIsRight
      <3> QED
        BY <1>3, <2>2, <3>3, <3>4
    <2> QED
      BY <2>1, <2>2
  <1> QED
    BY <1>5, <1>6 DEF RingIsRight
-----------------------------------------------------------------------------
(* The data bus.                                                           *)

\* The windows of the ranks, one of which has moved its own and notified the other's.
Moved(op, own, other, own2, other2) ==
    /\ own2.nextRead \in Nat /\ own2.nextWrite \in Nat
    /\ other2.nextRead \in Nat /\ other2.nextWrite \in Nat
    /\ own2.nextRead >= own.nextRead /\ own2.nextWrite >= own.nextWrite
    /\ other2.nextRead >= other.nextRead /\ other2.nextWrite >= other.nextWrite
    /\ IsRead(op) => /\ own2.nextRead >= Burst /\ own2.nextWrite >= Turn
                     /\ other2.nextRead >= tBURST + tRTRS /\ other2.nextWrite >= Turn
    /\ ~IsRead(op) => /\ own2.nextRead >= WriteToRead /\ own2.nextWrite >= Burst
                      /\ other2.nextRead + tCAS >= tBURST + tCWD + tRTRS
                      /\ other2.nextWrite >= tBURST + tOST

LEMMA OwnWindows ==
    ASSUME NEW op, NEW r \in RankType
    PROVE  LET s == ColumnWindows(op, r)
           IN  /\ s \in RankType /\ s.state = r.state /\ s.nextActivate = r.nextActivate
               /\ s.nextPrecharge = r.nextPrecharge /\ s.RAWindex = r.RAWindex
               /\ s.lastActivate = r.lastActivate
               /\ s.nextRead = Later(r.nextRead, IF IsRead(op) THEN Burst ELSE WriteToRead)
               /\ s.nextWrite = Later(r.nextWrite, IF IsRead(op) THEN Turn ELSE Burst)
  <1> DEFINE x == IF IsRead(op) THEN Burst ELSE WriteToRead
             y == IF IsRead(op) THEN Turn ELSE Burst
  <1>1. Later(r.nextRead, x) \in Nat /\ Later(r.nextWrite, y) \in Nat
    BY Sums DEF RankType, Later
  <1>2. ColumnWindows(op, r) = [r EXCEPT !.nextRead = Later(r.nextRead, x), !.nextWrite = Later(r.nextWrite, y)]
    BY DEF ColumnWindows, Raise, RankType
  <1> HIDE DEF x, y
  <1>3. ColumnWindows(op, r) \in RankType
    BY <1>1, <1>2 DEF RankType
  <1>4. LET s == ColumnWindows(op, r)
        IN  /\ s.state = r.state /\ s.nextActivate = r.nextActivate
            /\ s.nextPrecharge = r.nextPrecharge /\ s.RAWindex = r.RAWindex
            /\ s.lastActivate = r.lastActivate
            /\ s.nextRead = Later(r.nextRead, x) /\ s.nextWrite = Later(r.nextWrite, y)
    BY <1>2 DEF RankType
  <1> QED
    BY <1>3, <1>4 DEF x, y

LEMMA OtherWindows ==
    ASSUME NEW op, NEW r \in PeerType
    PROVE  /\ Notify(op, r) \in PeerType
           /\ Notify(op, r).nextRead = Later(r.nextRead, IF IsRead(op) THEN tBURST + tRTRS
                                                         ELSE Later(0, tBURST + tCWD + tRTRS - tCAS))
           /\ Notify(op, r).nextWrite = Later(r.nextWrite, IF IsRead(op) THEN Turn ELSE tBURST + tOST)
  <1> DEFINE x == IF IsRead(op) THEN tBURST + tRTRS ELSE Later(0, tBURST + tCWD + tRTRS - tCAS)
             y == IF IsRead(op) THEN Turn ELSE tBURST + tOST
  <1>1. Later(r.nextRead, x) \in Nat /\ Later(r.nextWrite, y) \in Nat
    BY Sums, Times DEF PeerType, Later
  <1>2. Notify(op, r) = [r EXCEPT !.nextRead = Later(r.nextRead, x), !.nextWrite = Later(r.nextWrite, y)]
    BY DEF Notify, Raise, PeerType
  <1> HIDE DEF x, y
  <1>3. /\ Notify(op, r) \in PeerType /\ Notify(op, r).nextRead = Later(r.nextRead, x)
        /\ Notify(op, r).nextWrite = Later(r.nextWrite, y)
    BY <1>1, <1>2 DEF PeerType
  <1> QED
    BY <1>3 DEF x, y

LEMMA NotifiedRank ==
    ASSUME NEW op, NEW r \in RankType
    PROVE  LET s == Notify(op, r)
           IN  /\ s \in RankType /\ s.state = r.state /\ s.nextActivate = r.nextActivate
               /\ s.nextPrecharge = r.nextPrecharge /\ s.RAWindex = r.RAWindex
               /\ s.lastActivate = r.lastActivate
               /\ s.nextRead = Later(r.nextRead, IF IsRead(op) THEN tBURST + tRTRS
                                                 ELSE Later(0, tBURST + tCWD + tRTRS - tCAS))
               /\ s.nextWrite = Later(r.nextWrite, IF IsRead(op) THEN Turn ELSE tBURST + tOST)
  <1> DEFINE x == IF IsRead(op) THEN tBURST + tRTRS ELSE Later(0, tBURST + tCWD + tRTRS - tCAS)
             y == IF IsRead(op) THEN Turn ELSE tBURST + tOST
  <1>1. Later(r.nextRead, x) \in Nat /\ Later(r.nextWrite, y) \in Nat
    BY Sums, Times DEF RankType, Later
  <1>2. Notify(op, r) = [r EXCEPT !.nextRead = Later(r.nextRead, x), !.nextWrite = Later(r.nextWrite, y)]
    BY DEF Notify, Raise, RankType
  <1> HIDE DEF x, y
  <1>3. Notify(op, r) \in RankType
    BY <1>1, <1>2 DEF RankType
  <1>4. LET s == Notify(op, r)
        IN  /\ s.state = r.state /\ s.nextActivate = r.nextActivate
            /\ s.nextPrecharge = r.nextPrecharge /\ s.RAWindex = r.RAWindex
            /\ s.lastActivate = r.lastActivate
            /\ s.nextRead = Later(r.nextRead, x) /\ s.nextWrite = Later(r.nextWrite, y)
    BY <1>2 DEF RankType
  <1> QED
    BY <1>3, <1>4 DEF x, y

LEMMA ColumnMoves ==
    ASSUME NEW op, NEW r \in RankType, NEW s \in PeerType
    PROVE  Moved(op, r, s, ColumnWindows(op, r), Notify(op, s))
  <1>1. /\ r.nextRead \in Nat /\ r.nextWrite \in Nat /\ s.nextRead \in Nat /\ s.nextWrite \in Nat
        /\ ColumnWindows(op, r).nextRead \in Nat /\ ColumnWindows(op, r).nextWrite \in Nat
        /\ Notify(op, s).nextRead \in Nat /\ Notify(op, s).nextWrite \in Nat
    BY OwnWindows, OtherWindows DEF RankType, PeerType
  <1>2. /\ ColumnWindows(op, r).nextRead = Later(r.nextRead, IF IsRead(op) THEN Burst ELSE WriteToRead)
        /\ ColumnWindows(op, r).nextWrite = Later(r.nextWrite, IF IsRead(op) THEN Turn ELSE Burst)
    BY OwnWindows
  <1>3. /\ Notify(op, s).nextRead = Later(s.nextRead, IF IsRead(op) THEN tBURST + tRTRS
                                                      ELSE Later(0, tBURST + tCWD + tRTRS - tCAS))
        /\ Notify(op, s).nextWrite = Later(s.nextWrite, IF IsRead(op) THEN Turn ELSE tBURST + tOST)
    BY OtherWindows
  <1>4. CASE IsRead(op)
    BY <1>1, <1>2, <1>3, <1>4, Sums, Times DEF Moved, Later
  <1>5. CASE ~IsRead(op)
    BY <1>1, <1>2, <1>3, <1>5, Sums, Times DEF Moved, Later
  <1> QED
    BY <1>4, <1>5

LEMMA PeerMoves ==
    ASSUME NEW op, NEW r \in RankType, NEW s \in PeerType
    PROVE  /\ Moved(op, s, r, ColumnWindows(op, s), Notify(op, r))
           /\ ColumnWindows(op, s) \in PeerType
  <1> DEFINE x == IF IsRead(op) THEN Burst ELSE WriteToRead
             y == IF IsRead(op) THEN Turn ELSE Burst
  <1>1. Later(s.nextRead, x) \in Nat /\ Later(s.nextWrite, y) \in Nat
    BY Sums DEF PeerType, Later
  <1>2. ColumnWindows(op, s) = [s EXCEPT !.nextRead = Later(s.nextRead, x), !.nextWrite = Later(s.nextWrite, y)]
    BY DEF ColumnWindows, Raise, PeerType
  <1>3. /\ ColumnWindows(op, s) \in PeerType
        /\ ColumnWindows(op, s).nextRead = Later(s.nextRead, x)
        /\ ColumnWindows(op, s).nextWrite = Later(s.nextWrite, y)
    <2> HIDE DEF x, y
    <2> QED
      BY <1>1, <1>2 DEF PeerType
  <1>4. /\ r.nextRead \in Nat /\ r.nextWrite \in Nat /\ s.nextRead \in Nat /\ s.nextWrite \in Nat
        /\ ColumnWindows(op, s).nextRead \in Nat /\ ColumnWindows(op, s).nextWrite \in Nat
        /\ Notify(op, r).nextRead \in Nat /\ Notify(op, r).nextWrite \in Nat
    BY <1>3, NotifiedRank DEF RankType, PeerType
  <1>5. /\ Notify(op, r).nextRead = Later(r.nextRead, IF IsRead(op) THEN tBURST + tRTRS
                                                      ELSE Later(0, tBURST + tCWD + tRTRS - tCAS))
        /\ Notify(op, r).nextWrite = Later(r.nextWrite, IF IsRead(op) THEN Turn ELSE tBURST + tOST)
    BY NotifiedRank
  <1>6. CASE IsRead(op)
    BY <1>3, <1>4, <1>5, <1>6, Sums, Times DEF Moved, Later
  <1>7. CASE ~IsRead(op)
    BY <1>3, <1>4, <1>5, <1>7, Sums, Times DEF Moved, Later
  <1> QED
    BY <1>3, <1>6, <1>7

\* A burst passes by windows that have moved, and so does that of the command.
LEMMA BurstsPass ==
    ASSUME NEW op, NEW own, NEW other, NEW own2, NEW other2,
           Moved(op, own, other, own2, other2),
           own.nextRead \in Nat, own.nextWrite \in Nat, other.nextRead \in Nat, other.nextWrite \in Nat,
           NEW me \in {"rank", "peer"}, NEW you \in {"rank", "peer"}, me # you
    PROVE  /\ \A t \in BurstType : /\ Passes(t, me, own) => Passes(t, me, own2)
                                   /\ Passes(t, you, other) => Passes(t, you, other2)
           /\ LET d == BurstOf(op, me)
              IN  /\ d \in BurstType /\ d.from < d.to /\ d.who = me
                  /\ d.to = d.from + tBURST /\ d.from = (IF IsRead(op) THEN tCAS ELSE tCWD)
                  /\ Passes(d, me, own2) /\ Passes(d, you, other2)
  <1> DEFINE d == BurstOf(op, me)
  <1>1. \A t \in BurstType : t.to \in Int /\ Rest(t, me) \in Int /\ Rest(t, you) \in Int
    BY Times DEF BurstType, Rest, Earlier
  <1>2. \A t \in BurstType : /\ Passes(t, me, own) => Passes(t, me, own2)
                             /\ Passes(t, you, other) => Passes(t, you, other2)
    BY <1>1, Times DEF Passes, Moved
  <1>3. /\ d.who = me /\ d.from = (IF IsRead(op) THEN tCAS ELSE tCWD) /\ d.to = d.from + tBURST
        /\ d \in BurstType
    BY Times DEF BurstOf, BurstType
  <1>4. Rest(d, me) = 0 /\ Rest(d, you) <= tRTRS /\ Rest(d, you) <= tOST /\ Rest(d, you) \in Nat
    BY <1>3, Times DEF Rest, Earlier
  <1> HIDE DEF d
  <1>5. ASSUME IsRead(op)
        PROVE  Passes(d, me, own2) /\ Passes(d, you, other2)
    <2>1. d.to = tCAS + tBURST
      BY <1>3, <1>5
    <2>2. /\ own2.nextRead \in Nat /\ own2.nextWrite \in Nat
          /\ other2.nextRead \in Nat /\ other2.nextWrite \in Nat
          /\ own2.nextRead >= Burst /\ own2.nextWrite >= Turn
          /\ other2.nextRead >= tBURST + tRTRS /\ other2.nextWrite >= Turn
      BY <1>5 DEF Moved
    <2>3. Passes(d, me, own2)
      BY <1>4, <2>1, <2>2, Times, Sums DEF Passes
    <2>4. Passes(d, you, other2)
      BY <1>4, <2>1, <2>2, Times, Sums DEF Passes
    <2> QED
      BY <2>3, <2>4
  <1>6. ASSUME ~IsRead(op)
        PROVE  Passes(d, me, own2) /\ Passes(d, you, other2)
    <2>1. d.to = tCWD + tBURST
      BY <1>3, <1>6
    <2>2. /\ own2.nextRead \in Nat /\ own2.nextWrite \in Nat
          /\ other2.nextRead \in Nat /\ other2.nextWrite \in Nat
          /\ own2.nextRead >= WriteToRead /\ own2.nextWrite >= Burst
          /\ other2.nextRead + tCAS >= tBURST + tCWD + tRTRS
          /\ other2.nextWrite >= tBURST + tOST
      BY <1>6 DEF Moved
    <2>3. Passes(d, me, own2)
      BY <1>4, <2>1, <2>2, Times, Sums DEF Passes
    <2>4. Passes(d, you, other2)
      BY <1>4, <2>1, <2>2, Times, Sums DEF Passes
    <2> QED
      BY <2>3, <2>4
  <1>7. d.from < d.to
    BY <1>3, Times DEF BurstType
  <1> QED
    BY <1>2, <1>3, <1>5, <1>6, <1>7 DEF d

\* A burst that a window has waited for does not meet those on the bus.
LEMMA NoMeeting ==
    ASSUME NEW op, NEW who \in {"rank", "peer"}, NEW r, NEW t \in BurstType,
           Passes(t, who, r), r.nextRead \in Nat, r.nextWrite \in Nat, ColumnAllowed(op, r)
    PROVE  ~Meet(BurstOf(op, who), t)
  <1> DEFINE d == BurstOf(op, who)
  <1>1. d.from = (IF IsRead(op) THEN tCAS ELSE tCWD) /\ d.who = who
    BY DEF BurstOf
  <1>2. t.to \in Int /\ Rest(t, who) \in Int
    BY Times DEF BurstType, Rest, Earlier
  <1>3. t.to + Rest(t, who) <= d.from
    BY <1>1, <1>2, Times DEF Passes, ColumnAllowed
  <1>4. (IF d.who = t.who THEN 0 ELSE Earlier(tRTRS, tOST)) = Rest(t, who)
    BY <1>1 DEF Rest
  <1>5. d.from \in Int
    BY <1>1, Times
  <1> HIDE DEF d
  <1>6. ~(t.to + Rest(t, who) > d.from)
    BY <1>2, <1>3, <1>5
  <1>7. ~Meet(d, t)
    BY <1>4, <1>6 DEF Meet
  <1> QED
    BY <1>7 DEF d
-----------------------------------------------------------------------------
(* What a command can be issued for, and that it misses no demand.         *)

LEMMA IssuableForOpening ==
    ASSUME NEW op \in {"ACT", "REF"}, NEW b, BankIssuable(op, b)
    PROVE  /\ array[b].nextActivate = 0 /\ array[b].state = "CLOSED"
           /\ bank[b].nextActivate = 0 /\ bank[b].state \in {"OPEN", "CLOSED"}
  <1>1. CASE op = "ACT"
    BY <1>1 DEF BankIssuable, ArrayIssuable, IsRead, IsWrite, PowerDowns
  <1>2. CASE op = "REF"
    BY <1>2 DEF BankIssuable, ArrayIssuable, IsRead, IsWrite, PowerDowns
  <1> QED
    BY <1>1, <1>2

LEMMA IssuableForRead ==
    ASSUME NEW op, IsRead(op), NEW b, BankIssuable(op, b)
    PROVE  /\ array[b].nextRead = 0 /\ array[b].state = "OPEN"
           /\ bank[b].nextRead = 0 /\ bank[b].state = "OPEN"
  BY DEF BankIssuable, ArrayIssuable, IsRead, IsWrite, PowerDowns

LEMMA IssuableForWrite ==
    ASSUME NEW op, IsWrite(op), NEW b, BankIssuable(op, b)
    PROVE  /\ array[b].nextWrite = 0 /\ array[b].state = "OPEN"
           /\ bank[b].nextWrite = 0 /\ bank[b].state = "OPEN"
  BY DEF BankIssuable, ArrayIssuable, IsRead, IsWrite, PowerDowns

LEMMA IssuableForClosing ==
    ASSUME NEW b, BankIssuable("PRE", b)
    PROVE  /\ array[b].nextPrecharge = 0 /\ array[b].state \in {"OPEN", "CLOSED"}
           /\ bank[b].nextPrecharge = 0 /\ bank[b].state \in {"OPEN", "CLOSED"}
  BY DEF BankIssuable, ArrayIssuable, IsRead, IsWrite, PowerDowns

LEMMA IssuableForPowerDown ==
    ASSUME NEW op \in PowerDowns, NEW b, BankIssuable(op, b)
    PROVE  /\ array[b].nextPowerDown = 0 /\ array[b].writing = 0
           /\ bank[b].nextPowerDown = 0
           /\ bank[b].state \in (IF op = "PDA" THEN {"OPEN", "CLOSED"} ELSE {"CLOSED"})
  BY DEF BankIssuable, ArrayIssuable, IsRead, IsWrite, PowerDowns

LEMMA IssuableForPowerUp ==
    ASSUME NEW b
    PROVE  BankIssuable("UP", b) <=> bank[b].nextPowerUp = 0 /\ bank[b].state \in PowerDowns
  BY DEF BankIssuable, ArrayIssuable, IsRead, IsWrite, PowerDowns

\* The invariant, of one bank.
LEMMA Unfolded ==
    ASSUME TypeOK, NEW b \in Banks, BankInv(b)
    PROVE  /\ ArrayWaits(array[b], age.of[b]) /\ EventsFit(array[b], age.of[b])
           /\ BankFits(array[b], bank[b], age.of[b]) /\ PowerWaits(bank[b])
           /\ array[b].nextActivate \in Nat /\ array[b].nextPrecharge \in Nat
           /\ array[b].nextRead \in Nat /\ array[b].nextWrite \in Nat
           /\ array[b].nextPowerDown \in Nat
           /\ bank[b].nextActivate \in Nat /\ bank[b].nextPrecharge \in Nat
           /\ bank[b].nextRead \in Nat /\ bank[b].nextWrite \in Nat
           /\ bank[b].nextPowerDown \in Nat /\ bank[b].nextPowerUp \in Nat
           /\ age.up \in Nat /\ age.down \in Nat
  <1>1. array[b] \in ArrayType /\ bank[b] \in BankType
    BY Typing
  <1>2. age.up \in Nat /\ age.down \in Nat
    BY RankTyping
  <1> QED
    BY <1>1, <1>2 DEF BankInv, OneBank, ArrayType, BankType

\* What all banks have waited for.
LEMMA RankHasWaited ==
    ASSUME TypeOK, \A b \in Banks : RankWaits(b)
    PROVE  /\ rank.nextActivate = 0 => RankWithout("ACT", tRRDR)
           /\ rank.nextRead = 0 => RankWithout("READ", Burst) /\ RankWithout("WRITE", WriteToRead)
           /\ rank.nextWrite = 0 => RankWithout("READ", Turn) /\ RankWithout("WRITE", Burst)
  <1>1. \A b \in Banks : /\ age.of[b]["ACT"] \in Nat /\ age.of[b]["READ"] \in Nat
                          /\ age.of[b]["WRITE"] \in Nat
    BY Typing
  <1> QED
    BY <1>1 DEF RankWaits, RankWithout, Since

LEMMA OpeningMissesNothing ==
    ASSUME TypeOK, NEW b \in Banks, BankInv(b), \A c \in Banks : RankWaits(c), RingIsRight,
           NEW op \in {"ACT", "REF"}, ActivateAllowed, BankIssuable(op, b)
    PROVE  Misses(op, b) = {}
  <1> DEFINE g == age.of[b]
  <1>1. array[b].nextActivate = 0 /\ array[b].state = "CLOSED" /\ bank[b].nextActivate = 0
    BY IssuableForOpening
  <1>2. g["ACT"] \in Nat /\ g["REF"] \in Nat /\ g["PRE"] \in Nat
    BY Typing
  <1>3. g["ACT"] >= tRAS + tRP
    BY <1>1, <1>2, Unfolded DEF EventsFit, Plain
  <1>4. g["PRE"] >= tRP /\ g["REF"] >= tRFC
    BY <1>1, <1>2, Unfolded DEF ArrayWaits
  <1>5. RankWithout("ACT", tRRDR)
    BY RankHasWaited DEF ActivateAllowed
  <1>6. age.acts[rawNum] >= tRAW
    BY OldestIsTheLast DEF ActivateAllowed
  <1>7. age.up >= tXP
    <2>1. age.up \in Nat /\ age.up + 0 >= tXP
      BY <1>1, Unfolded DEF PowerWaits
    <2> QED
      BY <2>1
  <1> QED
    BY <1>3, <1>4, <1>5, <1>6, <1>7 DEF Misses, Unless, Since

LEMMA ReadMissesNothing ==
    ASSUME TypeOK, NEW b \in Banks, BankInv(b), \A c \in Banks : RankWaits(c),
           NEW op, IsRead(op), rank.nextRead = 0, BankIssuable(op, b)
    PROVE  Misses("READ", b) = {}
  <1> DEFINE g == age.of[b]
  <1>1. array[b].nextRead = 0 /\ bank[b].nextRead = 0 /\ bank[b].state = "OPEN"
    BY IssuableForRead
  <1>2. g["ACT"] \in Nat
    BY Typing
  <1>3. g["ACT"] >= tRCD
    BY <1>1, <1>2, Unfolded DEF ArrayWaits
  <1>4. RankWithout("READ", Burst) /\ RankWithout("WRITE", WriteToRead)
    BY RankHasWaited
  <1>5. age.up >= IF age.slow THEN tXPDLL ELSE tXP
    <2>1. age.up \in Nat /\ age.up + 0 >= IF age.slow THEN tXPDLL ELSE tXP
      BY <1>1, Unfolded DEF PowerWaits
    <2> QED
      BY <2>1
  <1> QED
    BY <1>3, <1>4, <1>5 DEF Misses, Unless, Since

LEMMA WriteMissesNothing ==
    ASSUME TypeOK, NEW b \in Banks, BankInv(b), \A c \in Banks : RankWaits(c),
           NEW op, IsWrite(op), rank.nextWrite = 0, BankIssuable(op, b)
    PROVE  Misses("WRITE", b) = {}
  <1> DEFINE g == age.of[b]
  <1>1. array[b].nextWrite = 0 /\ bank[b].nextWrite = 0
    BY IssuableForWrite
  <1>2. g["ACT"] \in Nat
    BY Typing
  <1>3. g["ACT"] >= tRCD
    BY <1>1, <1>2, Unfolded DEF ArrayWaits
  <1>4. RankWithout("READ", Turn) /\ RankWithout("WRITE", Burst)
    BY RankHasWaited
  <1>5. age.up >= tXP
    <2>1. age.up \in Nat /\ age.up + 0 >= tXP
      BY <1>1, Unfolded DEF PowerWaits
    <2> QED
      BY <2>1
  <1> QED
    BY <1>3, <1>4, <1>5 DEF Misses, Unless, Since

LEMMA PrechargeMissesNothing ==
    ASSUME TypeOK, NEW b \in Banks, BankInv(b), BankIssuable("PRE", b)
    PROVE  Misses("PRE", b) = {}
  <1> DEFINE g == age.of[b]
  <1>1. array[b].nextPrecharge = 0 /\ bank[b].nextPrecharge = 0
    BY IssuableForClosing
  <1>2. g["ACT"] \in Nat /\ g["READ"] \in Nat /\ g["WRITE"] \in Nat
    BY Typing
  <1>3. g["ACT"] >= tRAS /\ g["READ"] >= tRTP /\ g["WRITE"] >= tCWD + tBURST + tWR + tWP
    BY <1>1, <1>2, Unfolded DEF ArrayWaits, WriteRecovery
  <1>4. age.up >= tXP
    <2>1. age.up \in Nat /\ age.up + 0 >= tXP
      BY <1>1, Unfolded DEF PowerWaits
    <2> QED
      BY <2>1
  <1> QED
    BY <1>3, <1>4 DEF Misses, TooSoonToClose, Unless

LEMMA PowerDownMissesNothing ==
    ASSUME TypeOK, NEW b \in Banks, BankInv(b), NEW op \in PowerDowns, BankIssuable(op, b)
    PROVE  Misses("DOWN", b) = {} /\ array[b].nextActivate = 0
  <1> DEFINE g == age.of[b]
  <1>1. array[b].nextPowerDown = 0 /\ bank[b].nextPowerDown = 0
    BY IssuableForPowerDown
  <1>2. /\ g["ACT"] \in Nat /\ g["READ"] \in Nat /\ g["WRITE"] \in Nat
        /\ g["PRE"] \in Nat /\ g["REF"] \in Nat
    BY Typing
  <1>3. array[b].nextActivate = 0
    BY <1>1, Unfolded DEF BankFits, Later
  <1>4. g["ACT"] >= tRCD
    BY <1>1, <1>2, Unfolded DEF BankFits
  <1>5. g["PRE"] >= tRP /\ g["REF"] >= tRFC
    BY <1>2, <1>3, Unfolded DEF ArrayWaits
  <1>6. g["READ"] > tCAS + tBURST /\ g["WRITE"] >= tCWD + tBURST
    BY <1>1, <1>2, Unfolded, Times DEF ArrayWaits
  <1>7. age.up >= tXP
    <2>1. age.up \in Nat /\ age.up + 0 >= tXP
      BY <1>1, Unfolded DEF PowerWaits
    <2> QED
      BY <2>1
  <1> QED
    BY <1>3, <1>4, <1>5, <1>6, <1>7 DEF Misses, Unless, Since

LEMMA PowerUpMissesNothing ==
    ASSUME TypeOK, NEW b \in Banks, BankInv(b), BankIssuable("UP", b)
    PROVE  Misses("UP", b) = {}
  <1>1. bank[b].nextPowerUp = 0
    BY IssuableForPowerUp
  <1>2. age.down \in Nat /\ age.down + 0 >= tPD
    BY <1>1, Unfolded DEF PowerWaits
  <1>3. age.down >= tPD
    BY <1>2
  <1> QED
    BY <1>3 DEF Misses, Unless
-----------------------------------------------------------------------------
(* The parts of the invariant that every command leaves alone.             *)

LEMMA BusKept ==
    ASSUME TypeOK, BusFits, bursts' = bursts, peer' = peer,
           rank'.nextRead = rank.nextRead, rank'.nextWrite = rank.nextWrite,
           \A b \in Banks : array'[b].nextPowerDown >= array[b].nextPowerDown,
           array' \in [Banks -> ArrayType]
    PROVE  BusFits'
  <1> SUFFICES ASSUME NEW t \in bursts
               PROVE  /\ Passes(t, "rank", rank)' /\ Passes(t, "peer", peer)'
                      /\ t.from < t.to
                      /\ t.who = "rank" => \E b \in Banks : t.to <= array'[b].nextPowerDown
    BY DEF BusFits
  <1>1. Passes(t, "rank", rank) /\ Passes(t, "peer", peer) /\ t.from < t.to
    BY DEF BusFits
  <1>2. Passes(t, "rank", rank)' /\ Passes(t, "peer", peer)'
    BY <1>1 DEF Passes, Rest
  <1>3. ASSUME t.who = "rank"
        PROVE  \E b \in Banks : t.to <= array'[b].nextPowerDown
    <2>1. PICK b \in Banks : t.to <= array[b].nextPowerDown
      BY <1>3 DEF BusFits
    <2>2. t.to \in Int /\ array[b].nextPowerDown \in Nat /\ array'[b].nextPowerDown \in Nat
      BY Typing DEF TypeOK, BurstType, ArrayType
    <2> QED
      BY <2>1, <2>2
  <1> QED
    BY <1>1, <1>2, <1>3

LEMMA CommandKeepsPower ==
    ASSUME TypeOK, PowerFits, NEW bs \in SUBSET Banks, bs # {}, NEW kind \in Kinds, GivenTo(bs, kind),
           rank'.state \notin PowerDowns \/ rank'.state = rank.state,
           \A n \in rankEvents' : n \in rankEvents \/ \E b \in bs : n <= array'[b].nextActivate,
           rank'.state = "CLOSED" => RankIdle'
    PROVE  PowerFits'
  <1>1. PICK d \in bs : TRUE
    OBVIOUS
  <1>2. /\ \A b \in bs : /\ bank[b].state \in {"OPEN", "CLOSED"} /\ bank'[b].state \in {"OPEN", "CLOSED"}
                         /\ bank'[b].nextPowerUp = bank[b].nextPowerUp
                         /\ array'[b].nextActivate >= array[b].nextActivate
        /\ \A b \in Banks \ bs : array'[b] = array[b] /\ bank'[b] = bank[b]
    BY DEF GivenTo, NoSooner
  <1>3. rank.state \notin PowerDowns
    BY <1>1, <1>2 DEF PowerFits, PowerDowns
  <1>4. rank'.state \notin PowerDowns
    BY <1>3
  <1>5. \A b \in Banks : bank'[b].state \notin PowerDowns
    BY <1>2, <1>3 DEF PowerFits, PowerDowns
  <1>6. \A b, c \in Banks : bank'[b].nextPowerUp = bank'[c].nextPowerUp
    <2>1. \A b \in Banks : bank'[b].nextPowerUp = bank[b].nextPowerUp
      BY <1>2
    <2> QED
      BY <2>1 DEF PowerFits
  <1>7. ASSUME NEW n \in rankEvents'
        PROVE  \E b \in Banks : n <= array'[b].nextActivate
    <2>1. CASE n \in rankEvents
      <3>1. PICK b \in Banks : n <= array[b].nextActivate
        BY <2>1 DEF PowerFits
      <3>2. n \in Nat /\ array[b].nextActivate \in Nat /\ array'[b].nextActivate \in Nat
        BY <2>1, Typing DEF TypeOK, ArrayType, GivenTo
      <3>3. array'[b].nextActivate >= array[b].nextActivate
        BY <1>2, <3>2
      <3> QED
        BY <3>1, <3>2, <3>3
    <2> QED
      BY <2>1
  <1>8. rank'.state \notin {"PDPF", "PDPS"}
    BY <1>4 DEF PowerDowns
  <1> QED
    BY <1>4, <1>5, <1>6, <1>7, <1>8 DEF PowerFits

LEMMA OnBankGives ==
    ASSUME TypeOK, NEW b \in Banks, NEW op, NEW kind \in Kinds, OnBank(op, b),
           OneBank(ArrayDo(op, array[b]), BankDo(op, bank[b]), [age.of[b] EXCEPT ![kind] = 0]),
           NoSooner(array[b], bank[b], ArrayDo(op, array[b]), BankDo(op, bank[b])),
           age'.of = [c \in Banks |-> IF c \in {b} THEN [age.of[c] EXCEPT ![kind] = 0] ELSE age.of[c]],
           age'.up = age.up, age'.down = age.down, age'.slow = age.slow
    PROVE  GivenTo({b}, kind)
  <1>1. array \in [Banks -> ArrayType] /\ bank \in [Banks -> BankType]
    BY DEF TypeOK
  <1>2. /\ array'[b] = ArrayDo(op, array[b]) /\ bank'[b] = BankDo(op, bank[b])
        /\ \A c \in Banks \ {b} : array'[c] = array[c] /\ bank'[c] = bank[c]
    BY <1>1 DEF OnBank
  <1>3. ArrayDo(op, array[b]) \in ArrayType /\ BankDo(op, bank[b]) \in BankType
    BY DEF OneBank
  <1>4. array' \in [Banks -> ArrayType] /\ bank' \in [Banks -> BankType]
    BY <1>1, <1>3 DEF OnBank
  <1> QED
    BY <1>2, <1>4 DEF GivenTo

\* The ages after a command, and after an activation.
LEMMA Noted ==
    ASSUME TypeOK, NEW bs \in SUBSET Banks, NEW kind \in Kinds,
           Note(kind, bs) \/ NoteActivation(kind, bs)
    PROVE  /\ age' \in AgeType
           /\ age'.of = [b \in Banks |-> IF b \in bs THEN [age.of[b] EXCEPT ![kind] = 0] ELSE age.of[b]]
           /\ age'.up = age.up /\ age'.down = age.down /\ age'.slow = age.slow
           /\ Note(kind, bs) => age'.acts = age.acts
           /\ NoteActivation(kind, bs)
                => age'.acts = [i \in 1 .. rawNum |-> IF i = 1 THEN 0 ELSE age.acts[i - 1]]
  <1> DEFINE of == [b \in Banks |-> IF b \in bs THEN [age.of[b] EXCEPT ![kind] = 0] ELSE age.of[b]]
             acts == [i \in 1 .. rawNum |-> IF i = 1 THEN 0 ELSE age.acts[i - 1]]
  <1>1. age \in AgeType
    BY DEF TypeOK
  <1>2. of \in [Banks -> [Kinds -> Nat]]
    BY <1>1 DEF AgeType
  <1>3. acts \in [1 .. rawNum -> Nat]
    <2>1. \A i \in 1 .. rawNum : i # 1 => i - 1 \in 1 .. rawNum
      BY Counts
    <2> QED
      BY <1>1, <2>1 DEF AgeType
  <1>4. CASE Note(kind, bs)
    <2>1. age' = [age EXCEPT !.of = of]
      BY <1>1, <1>4 DEF Note, AgeType
    <2>2. NoteActivation(kind, bs) => age' = [age EXCEPT !.of = of, !.acts = acts]
      BY <1>1 DEF NoteActivation, AgeType
    <2> HIDE DEF of, acts
    <2>3. age' \in AgeType /\ age'.of = of /\ age'.up = age.up /\ age'.down = age.down
          /\ age'.slow = age.slow /\ age'.acts = age.acts
      BY <1>1, <1>2, <2>1 DEF AgeType
    <2>4. NoteActivation(kind, bs) => age'.acts = acts
      BY <1>1, <2>2 DEF AgeType
    <2> QED
      BY <2>3, <2>4 DEF of, acts
  <1>5. CASE ~Note(kind, bs)
    <2>1. age' = [age EXCEPT !.of = of, !.acts = acts]
      BY <1>1, <1>5 DEF NoteActivation, AgeType
    <2> HIDE DEF of, acts
    <2>2. age' \in AgeType /\ age'.of = of /\ age'.up = age.up /\ age'.down = age.down
          /\ age'.slow = age.slow /\ age'.acts = acts
      BY <1>1, <1>2, <1>3, <2>1 DEF AgeType
    <2> QED
      BY <1>5, <2>2 DEF of, acts
  <1> QED
    BY <1>4, <1>5
-----------------------------------------------------------------------------
(* Every step keeps the invariant.                                         *)

LEMMA IInvParts ==
    ASSUME IInv
    PROVE  /\ TypeOK /\ RingIsRight /\ PowerFits /\ BusFits /\ broken = {}
           /\ \A b \in Banks : BankInv(b)
           /\ \A b \in Banks : RankWaits(b)
  BY DEF IInv

LEMMA NothingBroken ==
    ASSUME NEW op, NEW bs, \A b \in bs : Misses(op, b) = {}
    PROVE  Breaks(op, bs) = {}
  BY DEF Breaks

LEMMA ActivateStep ==
    ASSUME IInv, NEW b \in Banks, Activate(b)
    PROVE  IInv'
  <1> USE IInvParts
  <1> DEFINE r == [rank EXCEPT !.state = IF @ = "CLOSED" THEN "OPEN" ELSE @]
  <1>1. /\ ActivateAllowed /\ BankIssuable("ACT", b) /\ OnBank("ACT", b) /\ rank' = Record(r)
        /\ Judge("ACT", {b}) /\ NoteActivation("ACT", {b})
        /\ rankEvents' = rankEvents /\ peer' = peer /\ bursts' = bursts
    BY DEF Activate
  <1>2. /\ r \in RankType /\ r.state # "CLOSED" /\ r.RAWindex = rank.RAWindex
        /\ r.lastActivate = rank.lastActivate /\ r.nextActivate = rank.nextActivate
        /\ r.nextRead = rank.nextRead /\ r.nextWrite = rank.nextWrite
        /\ r.state = rank.state \/ r.state = "OPEN"
    BY DEF TypeOK, RankType, RankStates
  <1>3. /\ age' \in AgeType
        /\ age'.of = [c \in Banks |-> IF c \in {b} THEN [age.of[c] EXCEPT !["ACT"] = 0] ELSE age.of[c]]
        /\ age'.up = age.up /\ age'.down = age.down /\ age'.slow = age.slow
        /\ age'.acts = [i \in 1 .. rawNum |-> IF i = 1 THEN 0 ELSE age.acts[i - 1]]
    BY <1>1, Noted DEF Kinds
  <1>4. GivenTo({b}, "ACT")
    <2>1. OneBank(array[b], bank[b], age.of[b])
      BY DEF BankInv
    <2>2. ArrayDo("ACT", array[b]) = ArrayActivate(array[b]) /\ BankDo("ACT", bank[b]) = BankActivate(bank[b])
      BY DEF ArrayDo, BankDo, IsRead, IsWrite
    <2>3. /\ array[b].nextActivate = 0 /\ array[b].state = "CLOSED"
          /\ bank[b].state \in {"OPEN", "CLOSED"}
      BY <1>1, IssuableForOpening
    <2>4. /\ OneBank(ArrayDo("ACT", array[b]), BankDo("ACT", bank[b]), [age.of[b] EXCEPT !["ACT"] = 0])
          /\ NoSooner(array[b], bank[b], ArrayDo("ACT", array[b]), BankDo("ACT", bank[b]))
      BY <2>1, <2>2, <2>3, ActivateKeeps
    <2> QED
      BY <1>1, <1>3, <2>4, OnBankGives DEF Kinds
  <1>5. /\ \A c \in Banks : BankInv(c)'
        /\ \A c \in Banks : array'[c].nextPowerDown >= array[c].nextPowerDown
    BY <1>4, CommandKeepsBanks DEF Kinds
  <1> HIDE DEF r
  <1>6. /\ rank' \in RankType /\ rank'.state = r.state
        /\ rank'.nextActivate = Later(rank.nextActivate, tRRDR)
        /\ rank'.nextRead = rank.nextRead /\ rank'.nextWrite = rank.nextWrite
    BY <1>1, <1>2, Recorded
  <1>7. \A c \in Banks : RankWaits(c)'
    <2>1. RankRaised("ACT")
      BY <1>6, RankTyping, Times DEF RankRaised, Later
    <2> QED
      BY <1>3, <1>6, <2>1, CommandKeepsRank DEF Kinds
  <1>8. RingIsRight'
    BY <1>1, <1>2, <1>3, ActivationKeepsRing
  <1>9. PowerFits'
    <2>1. rank'.state \notin PowerDowns \/ rank'.state = rank.state
      BY <1>2, <1>6 DEF PowerDowns
    <2> QED
      BY <1>1, <1>2, <1>4, <1>6, <2>1, CommandKeepsPower DEF Kinds
  <1>10. BusFits'
    BY <1>1, <1>4, <1>5, <1>6, BusKept DEF GivenTo
  <1>11. broken' = {}
    <2>1. Misses("ACT", b) = {}
      BY <1>1, OpeningMissesNothing
    <2> QED
      BY <1>1, <2>1, NothingBroken DEF Judge
  <1>12. TypeOK'
    BY <1>1, <1>3, <1>4, <1>6 DEF TypeOK, GivenTo
  <1> QED
    BY <1>5, <1>7, <1>8, <1>9, <1>10, <1>11, <1>12 DEF IInv

LEMMA PrechargeStep ==
    ASSUME IInv, NEW b \in Banks, Precharge(b)
    PROVE  IInv'
  <1> USE IInvParts
  <1> DEFINE s == IF \A c \in Banks : Closing(array'[c]) THEN "CLOSED" ELSE rank.state
  <1>1. /\ BankIssuable("PRE", b) /\ OnBank("PRE", b)
        /\ Judge("PRE", {b}) /\ Note("PRE", {b})
        /\ rankEvents' = rankEvents /\ peer' = peer /\ bursts' = bursts
    BY DEF Precharge
  <1>2. rank' = [rank EXCEPT !.state = s, !.nextPrecharge = Later(rank.nextPrecharge, tPPD)]
    BY DEF Precharge, Raise, TypeOK, RankType
  <1> HIDE DEF s
  <1>3. /\ age' \in AgeType
        /\ age'.of = [c \in Banks |-> IF c \in {b} THEN [age.of[c] EXCEPT !["PRE"] = 0] ELSE age.of[c]]
        /\ age'.up = age.up /\ age'.down = age.down /\ age'.slow = age.slow
        /\ age'.acts = age.acts
    BY <1>1, Noted DEF Kinds
  <1>4. /\ array[b].nextPrecharge = 0 /\ array[b].state \in {"OPEN", "CLOSED"}
        /\ bank[b].state \in {"OPEN", "CLOSED"}
    BY <1>1, IssuableForClosing
  <1>5. GivenTo({b}, "PRE")
    <2>1. OneBank(array[b], bank[b], age.of[b])
      BY DEF BankInv
    <2>2. ArrayDo("PRE", array[b]) = ArrayPrecharge(array[b]) /\ BankDo("PRE", bank[b]) = BankPrecharge(bank[b])
      BY DEF ArrayDo, BankDo, IsRead, IsWrite
    <2>3. /\ OneBank(ArrayDo("PRE", array[b]), BankDo("PRE", bank[b]), [age.of[b] EXCEPT !["PRE"] = 0])
          /\ NoSooner(array[b], bank[b], ArrayDo("PRE", array[b]), BankDo("PRE", bank[b]))
      BY <1>4, <2>1, <2>2, PrechargeKeeps
    <2> QED
      BY <1>1, <1>3, <2>3, OnBankGives DEF Kinds
  <1>6. /\ \A c \in Banks : BankInv(c)'
        /\ \A c \in Banks : array'[c].nextPowerDown >= array[c].nextPowerDown
    BY <1>5, CommandKeepsBanks DEF Kinds
  <1>7. /\ rank' \in RankType /\ rank'.state = s
        /\ rank'.nextActivate = rank.nextActivate
        /\ rank'.nextRead = rank.nextRead /\ rank'.nextWrite = rank.nextWrite
        /\ rank'.RAWindex = rank.RAWindex /\ rank'.lastActivate = rank.lastActivate
    <2>1. Later(rank.nextPrecharge, tPPD) \in Nat
      BY RankTyping, Times DEF Later
    <2>2. s \in RankStates
      BY DEF s, TypeOK, RankType, RankStates
    <2> QED
      BY <1>2, <2>1, <2>2 DEF TypeOK, RankType
  <1>8. \A c \in Banks : RankWaits(c)'
    <2>1. RankRaised("PRE")
      BY <1>7, RankTyping DEF RankRaised
    <2> QED
      BY <1>3, <1>7, <2>1, CommandKeepsRank DEF Kinds
  <1>9. RingIsRight'
    BY <1>3, <1>7 DEF RingIsRight, Slot
  <1>10. PowerFits'
    <2>1. rank'.state \notin PowerDowns \/ rank'.state = rank.state
      BY <1>7 DEF PowerDowns, s
    <2>2. ASSUME rank'.state = "CLOSED", NEW c \in Banks
          PROVE  Closing(array'[c])
      <3>1. CASE rank.state = "CLOSED"
        <4>1. Closing(array[c])
          BY <3>1 DEF PowerFits, RankIdle
        <4>2. CASE c = b
          <5>1. array'[b] = ArrayPrecharge(array[b])
            BY <1>1 DEF OnBank, TypeOK, ArrayDo, IsRead, IsWrite
          <5>2. ArrayPrecharge(array[b]).state = "PRECHARGING"
            BY Typing DEF ArrayPrecharge, Respond, Raise, ArrayType
          <5> QED
            BY <4>2, <5>1, <5>2 DEF Closing
        <4>3. CASE c # b
          BY <4>1, <4>3, <1>5 DEF GivenTo
        <4> QED
          BY <4>2, <4>3
      <3>2. CASE rank.state # "CLOSED"
        BY <1>7, <2>2, <3>2 DEF s
      <3> QED
        BY <3>1, <3>2
    <2> QED
      BY <1>1, <1>5, <2>1, <2>2, CommandKeepsPower DEF Kinds, RankIdle
  <1>11. BusFits'
    BY <1>1, <1>5, <1>6, <1>7, BusKept DEF GivenTo
  <1>12. broken' = {}
    <2>1. Misses("PRE", b) = {}
      BY <1>1, PrechargeMissesNothing
    <2> QED
      BY <1>1, <2>1, NothingBroken DEF Judge
  <1>13. TypeOK'
    BY <1>1, <1>3, <1>5, <1>7 DEF TypeOK, GivenTo
  <1> QED
    BY <1>6, <1>8, <1>9, <1>10, <1>11, <1>12, <1>13 DEF IInv

\* The banks that one REFRESH goes to.
LEMMA GroupOfBanks ==
    ASSUME NEW head \in Banks, head % banksPerRefresh = 0
    PROVE  (head .. head + banksPerRefresh - 1) \subseteq Banks
  <1> DEFINE n == banksPerRefresh
             q == head \div n
             m == bankCount \div n
  <1>1. n \in Nat /\ n > 0 /\ head \in Nat /\ bankCount \in Nat /\ head < bankCount
    BY Counts DEF Banks
  <1>2. bankCount % n = 0
    BY CountAssumption DEF CountAssumption
  <1> HIDE DEF n
  <1>3. q \in Nat /\ m \in Nat /\ head = n * q /\ bankCount = n * m
    BY <1>1, <1>2 DEF n
  <1> HIDE DEF q, m
  <1>4. q < m
    <2>1. SUFFICES ASSUME q >= m
                   PROVE  n * q >= n * m
      BY <1>1, <1>3
    <2> QED
      BY <1>1, <1>3, <2>1
  <1>5. n * m = n * q + n * (m - q) /\ n * (m - q) >= n
    BY <1>1, <1>3, <1>4
  <1>6. head + n <= bankCount
    BY <1>1, <1>3, <1>5
  <1> QED
    BY <1>1, <1>6 DEF Banks, n

LEMMA RefreshStep ==
    ASSUME IInv, NEW head \in {b \in Banks : b % banksPerRefresh = 0}, Refresh(head)
    PROVE  IInv'
  <1> USE IInvParts
  <1> DEFINE group == head .. head + banksPerRefresh - 1
             r == [rank EXCEPT !.state = "REFRESHING"]
  <1>1. /\ ActivateAllowed /\ \A b \in group : BankIssuable("REF", b)
        /\ bank' = [b \in Banks |-> IF b \in group THEN BankDo("REF", bank[b]) ELSE bank[b]]
        /\ array' = [b \in Banks |-> IF b \in group THEN ArrayDo("REF", array[b]) ELSE array[b]]
        /\ rank' = Record(r)
        /\ rankEvents' = rankEvents \cup {tRFC}
        /\ Judge("REF", group) /\ NoteActivation("REF", group)
        /\ peer' = peer /\ bursts' = bursts
    BY DEF Refresh
  <1>2. group \in SUBSET Banks /\ head \in group
    <2>1. head \in Banks /\ head \in Int /\ banksPerRefresh > 0 /\ banksPerRefresh \in Nat
      BY Counts DEF Banks
    <2> QED
      BY <2>1, GroupOfBanks
  <1> HIDE DEF group
  <1>3. /\ r \in RankType /\ r.state = "REFRESHING" /\ r.RAWindex = rank.RAWindex
        /\ r.lastActivate = rank.lastActivate /\ r.nextActivate = rank.nextActivate
        /\ r.nextRead = rank.nextRead /\ r.nextWrite = rank.nextWrite
    BY DEF TypeOK, RankType, RankStates
  <1> HIDE DEF r
  <1>4. /\ age' \in AgeType
        /\ age'.of = [c \in Banks |-> IF c \in group THEN [age.of[c] EXCEPT !["REF"] = 0] ELSE age.of[c]]
        /\ age'.up = age.up /\ age'.down = age.down /\ age'.slow = age.slow
        /\ age'.acts = [i \in 1 .. rawNum |-> IF i = 1 THEN 0 ELSE age.acts[i - 1]]
    BY <1>1, <1>2, Noted DEF Kinds
  <1>5. ASSUME NEW b \in group
        PROVE  /\ array'[b] = ArrayRefresh(array[b]) /\ bank'[b] = BankRefresh(bank[b])
               /\ OneBank(array'[b], bank'[b], [age.of[b] EXCEPT !["REF"] = 0])
               /\ NoSooner(array[b], bank[b], array'[b], bank'[b])
    <2>1. OneBank(array[b], bank[b], age.of[b])
      BY <1>2 DEF BankInv
    <2>2. ArrayDo("REF", array[b]) = ArrayRefresh(array[b]) /\ BankDo("REF", bank[b]) = BankRefresh(bank[b])
      BY DEF ArrayDo, BankDo, IsRead, IsWrite
    <2>3. /\ array[b].nextActivate = 0 /\ array[b].state = "CLOSED"
          /\ bank[b].state \in {"OPEN", "CLOSED"}
      BY <1>1, IssuableForOpening
    <2>4. array'[b] = ArrayRefresh(array[b]) /\ bank'[b] = BankRefresh(bank[b])
      BY <1>1, <1>2, <2>2
    <2> QED
      BY <2>1, <2>3, <2>4, RefreshKeeps
  <1>6. GivenTo(group, "REF")
    <2>1. \A b \in Banks : b \notin group => array'[b] = array[b] /\ bank'[b] = bank[b]
      BY <1>1
    <2>2. \A b \in Banks : array'[b] \in ArrayType /\ bank'[b] \in BankType
      BY <1>5, <2>1, Typing DEF OneBank
    <2>3. array' \in [Banks -> ArrayType] /\ bank' \in [Banks -> BankType]
      BY <1>1, <2>2
    <2> QED
      BY <1>4, <1>5, <2>1, <2>3 DEF GivenTo
  <1>7. /\ \A c \in Banks : BankInv(c)'
        /\ \A c \in Banks : array'[c].nextPowerDown >= array[c].nextPowerDown
    BY <1>2, <1>6, CommandKeepsBanks DEF Kinds
  <1>8. /\ rank' \in RankType /\ rank'.state = "REFRESHING"
        /\ rank'.nextActivate = Later(rank.nextActivate, tRRDR)
        /\ rank'.nextRead = rank.nextRead /\ rank'.nextWrite = rank.nextWrite
    BY <1>1, <1>3, Recorded
  <1>9. \A c \in Banks : RankWaits(c)'
    <2>1. RankRaised("REF")
      BY <1>8, RankTyping, Times DEF RankRaised, Later
    <2> QED
      BY <1>2, <1>4, <1>8, <2>1, CommandKeepsRank DEF Kinds
  <1>10. RingIsRight'
    BY <1>1, <1>3, <1>4, ActivationKeepsRing
  <1>11. PowerFits'
    <2>1. rank'.state \notin PowerDowns /\ rank'.state # "CLOSED"
      BY <1>8 DEF PowerDowns
    <2>2. tRFC <= array'[head].nextActivate
      <3>1. [age.of[head] EXCEPT !["REF"] = 0]["REF"] = 0
        BY <1>2, Typing DEF Kinds
      <3>2. array'[head].nextActivate \in Nat
        BY <1>2, <1>6 DEF GivenTo, ArrayType
      <3>3. [age.of[head] EXCEPT !["REF"] = 0]["REF"] + array'[head].nextActivate >= tRFC
        BY <1>2, <1>5 DEF OneBank, ArrayWaits
      <3> QED
        BY <3>1, <3>2, <3>3, Times
    <2>3. \A n \in rankEvents' : n \in rankEvents \/ \E b \in group : n <= array'[b].nextActivate
      BY <1>1, <1>2, <2>2
    <2> QED
      BY <1>2, <1>6, <2>1, <2>3, CommandKeepsPower DEF Kinds
  <1>12. BusFits'
    BY <1>1, <1>6, <1>7, <1>8, BusKept DEF GivenTo
  <1>13. broken' = {}
    <2>1. \A b \in group : Misses("REF", b) = {}
      BY <1>1, <1>2, OpeningMissesNothing
    <2> QED
      BY <1>1, <2>1, NothingBroken DEF Judge
  <1>14. TypeOK'
    BY <1>1, <1>4, <1>6, <1>8, Times DEF TypeOK, GivenTo
  <1> QED
    BY <1>7, <1>9, <1>10, <1>11, <1>12, <1>13, <1>14 DEF IInv

KindOf(op) == IF IsRead(op) THEN "READ" ELSE "WRITE"

LEMMA ColumnOps ==
    ASSUME NEW op \in Columns
    PROVE  /\ \/ op = "READ" /\ IsRead(op) /\ ~IsWrite(op)
              \/ op = "WRITE" /\ IsWrite(op) /\ ~IsRead(op)
              \/ op = "READ_PRECHARGE" /\ IsRead(op) /\ ~IsWrite(op) /\ closePage # 0
              \/ op = "WRITE_PRECHARGE" /\ IsWrite(op) /\ ~IsRead(op) /\ closePage # 0
           /\ KindOf(op) \in Kinds
  BY DEF Columns, IsRead, IsWrite, KindOf, Kinds

\* What a column command does to its bank.
LEMMA ColumnKeeps ==
    ASSUME TypeOK, NEW b \in Banks, BankInv(b), NEW op \in Columns, BankIssuable(op, b)
    PROVE  LET a2 == ArrayDo(op, array[b])
               k2 == BankDo(op, bank[b])
           IN  /\ OneBank(a2, k2, [age.of[b] EXCEPT ![KindOf(op)] = 0])
               /\ NoSooner(array[b], bank[b], a2, k2)
               /\ a2.nextPowerDown >= BurstOf(op, "rank").to
               /\ \A n \in RankClosesIn(op) : n \in Nat \ {0} /\ n <= a2.nextActivate
  <1> DEFINE a2 == ArrayDo(op, array[b])
             k2 == BankDo(op, bank[b])
             g2 == [age.of[b] EXCEPT ![KindOf(op)] = 0]
  <1>1. OneBank(array[b], bank[b], age.of[b])
    BY DEF BankInv
  <1>2. IsRead(op) => array[b].nextRead = 0 /\ bank[b].state = "OPEN"
    BY IssuableForRead
  <1>3. IsWrite(op) => array[b].nextWrite = 0 /\ bank[b].state = "OPEN"
    BY IssuableForWrite
  <1>4. /\ OneBank(a2, k2, g2) /\ NoSooner(array[b], bank[b], a2, k2)
        /\ \A n \in RankClosesIn(op) : n \in Nat \ {0} /\ n <= a2.nextActivate
    <2>1. CASE op = "READ"
      <3>1. /\ a2 = ArrayRead("READ", array[b]) /\ k2 = BankRead("READ", bank[b])
            /\ KindOf(op) = "READ" /\ RankClosesIn(op) = {}
        BY <2>1 DEF ArrayDo, BankDo, IsRead, IsWrite, KindOf, RankClosesIn
      <3> QED
        BY <1>1, <1>2, <2>1, <3>1, ReadKeeps DEF IsRead
    <2>2. CASE op = "WRITE"
      <3>1. /\ a2 = ArrayWrite("WRITE", array[b]) /\ k2 = BankWrite("WRITE", bank[b])
            /\ KindOf(op) = "WRITE" /\ RankClosesIn(op) = {}
        BY <2>2 DEF ArrayDo, BankDo, IsRead, IsWrite, KindOf, RankClosesIn
      <3> QED
        BY <1>1, <1>3, <2>2, <3>1, WriteKeeps DEF IsWrite
    <2>3. CASE op = "READ_PRECHARGE" /\ closePage # 0
      <3>1. /\ a2 = ArrayRead("READ_PRECHARGE", array[b]) /\ k2 = BankRead("READ_PRECHARGE", bank[b])
            /\ KindOf(op) = "READ" /\ RankClosesIn(op) = {tRTP}
        BY <2>3 DEF ArrayDo, BankDo, IsRead, IsWrite, KindOf, RankClosesIn
      <3>2. /\ OneBank(a2, k2, g2) /\ NoSooner(array[b], bank[b], a2, k2) /\ a2.nextActivate >= tRTP
        BY <1>1, <1>2, <2>3, <3>1, ReadPrechargeKeeps DEF IsRead
      <3>3. a2.nextActivate \in Nat
        BY <3>2 DEF OneBank, ArrayType
      <3> HIDE DEF a2
      <3> QED
        BY <3>1, <3>2, <3>3, Times
    <2>4. CASE op = "WRITE_PRECHARGE" /\ closePage # 0
      <3>1. /\ a2 = ArrayWrite("WRITE_PRECHARGE", array[b]) /\ k2 = BankWrite("WRITE_PRECHARGE", bank[b])
            /\ KindOf(op) = "WRITE" /\ RankClosesIn(op) = {tCWD + tBURST + tWR}
        BY <2>4 DEF ArrayDo, BankDo, IsRead, IsWrite, KindOf, RankClosesIn
      <3>2. /\ OneBank(a2, k2, g2) /\ NoSooner(array[b], bank[b], a2, k2) /\ a2.nextActivate >= WriteRecovery
        BY <1>1, <1>3, <2>4, <3>1, WritePrechargeKeeps DEF IsWrite
      <3>3. a2.nextActivate \in Nat
        BY <3>2 DEF OneBank, ArrayType
      <3> HIDE DEF a2
      <3> QED
        BY <3>1, <3>2, <3>3, Times, Sums
    <2> QED
      BY <2>1, <2>2, <2>3, <2>4, ColumnOps
  <1>5. a2.nextPowerDown \in Nat
    BY <1>4 DEF OneBank, ArrayType
  <1>6. a2.nextPowerDown >= BurstOf(op, "rank").to
    <2>1. ArrayWaits(a2, g2)
      BY <1>4 DEF OneBank
    <2>2. CASE IsRead(op)
      <3>1. g2["READ"] = 0
        BY <2>2, Typing DEF KindOf, Kinds
      <3>2. g2["READ"] + a2.nextPowerDown >= tCAS + tBURST + 1
        BY <2>1 DEF ArrayWaits
      <3>3. BurstOf(op, "rank").to = tCAS + tBURST
        BY <2>2 DEF BurstOf
      <3> HIDE DEF a2, g2
      <3> QED
        BY <1>5, <3>1, <3>2, <3>3, Times
    <2>3. CASE ~IsRead(op)
      <3>1. g2["WRITE"] = 0
        BY <2>3, Typing DEF KindOf, Kinds
      <3>2. g2["WRITE"] + a2.nextPowerDown >= tCWD + tBURST
        BY <2>1 DEF ArrayWaits
      <3>3. BurstOf(op, "rank").to = tCWD + tBURST
        BY <2>3 DEF BurstOf
      <3> HIDE DEF a2, g2
      <3> QED
        BY <1>5, <3>1, <3>2, <3>3, Times
    <2> QED
      BY <2>2, <2>3
  <1> QED
    BY <1>4, <1>6

\* The bus, when one of the ranks transfers its data.
LEMMA TransferKeepsBus ==
    ASSUME TypeOK, BusFits, NEW op, NEW who \in {"rank", "peer"}, Transfer(op, who, {}), broken = {},
           rank' \in RankType, peer' \in PeerType, array' \in [Banks -> ArrayType],
           \/ who = "rank" /\ ColumnAllowed(op, rank) /\ Moved(op, rank, peer, rank', peer')
           \/ who = "peer" /\ ColumnAllowed(op, peer) /\ Moved(op, peer, rank, peer', rank'),
           \A b \in Banks : array'[b].nextPowerDown >= array[b].nextPowerDown,
           who = "rank" => \E b \in Banks : array'[b].nextPowerDown >= BurstOf(op, "rank").to
    PROVE  BusFits' /\ broken' = {} /\ bursts' \subseteq BurstType
  <1> DEFINE d == BurstOf(op, who)
  <1>1. /\ rank.nextRead \in Nat /\ rank.nextWrite \in Nat
        /\ peer.nextRead \in Nat /\ peer.nextWrite \in Nat
    BY RankTyping
  <1>2. ASSUME NEW t \in BurstType
        PROVE  /\ Passes(t, "rank", rank) => Passes(t, "rank", rank')
               /\ Passes(t, "peer", peer) => Passes(t, "peer", peer')
    <2>1. /\ rank'.nextRead >= rank.nextRead /\ rank'.nextWrite >= rank.nextWrite
          /\ peer'.nextRead >= peer.nextRead /\ peer'.nextWrite >= peer.nextWrite
      BY DEF Moved
    <2>2. /\ rank'.nextRead \in Nat /\ rank'.nextWrite \in Nat
          /\ peer'.nextRead \in Nat /\ peer'.nextWrite \in Nat
      BY DEF RankType, PeerType
    <2>3. t.to \in Int /\ \A x \in {"rank", "peer"} : Rest(t, x) \in Int
      BY Times DEF BurstType, Rest, Earlier
    <2> QED
      BY <1>1, <2>1, <2>2, <2>3, Times DEF Passes
  <1>3. /\ d \in BurstType /\ d.from < d.to /\ d.who = who
        /\ Passes(d, "rank", rank') /\ Passes(d, "peer", peer')
    <2>1. CASE who = "rank"
      <3>1. Moved(op, rank, peer, rank', peer')
        BY <2>1
      <3>2. LET e == BurstOf(op, "rank")
            IN  /\ e \in BurstType /\ e.from < e.to /\ e.who = "rank"
                /\ Passes(e, "rank", rank') /\ Passes(e, "peer", peer')
        BY ONLY <1>1, <3>1, BurstsPass
      <3>3. d = BurstOf(op, "rank")
        BY <2>1
      <3> HIDE DEF d
      <3> QED
        BY <2>1, <3>2, <3>3
    <2>2. CASE who = "peer"
      <3>1. Moved(op, peer, rank, peer', rank')
        BY <2>2
      <3>2. LET e == BurstOf(op, "peer")
            IN  /\ e \in BurstType /\ e.from < e.to /\ e.who = "peer"
                /\ Passes(e, "peer", peer') /\ Passes(e, "rank", rank')
        BY ONLY <1>1, <3>1, BurstsPass
      <3>3. d = BurstOf(op, "peer")
        BY <2>2
      <3> HIDE DEF d
      <3> QED
        BY <2>2, <3>2, <3>3
    <2> QED
      BY <2>1, <2>2
  <1>4. \A t \in bursts : ~Meet(d, t)
    <2> SUFFICES ASSUME NEW t \in bursts
                 PROVE  ~Meet(d, t)
      OBVIOUS
    <2>1. t \in BurstType /\ Passes(t, "rank", rank) /\ Passes(t, "peer", peer)
      BY DEF TypeOK, BusFits
    <2>2. CASE who = "rank"
      BY <1>1, <2>1, <2>2, NoMeeting
    <2>3. CASE who = "peer"
      BY <1>1, <2>1, <2>3, NoMeeting
    <2> QED
      BY <2>2, <2>3
  <1>5. bursts' = bursts \cup {d} /\ broken' = {}
    BY <1>4 DEF Transfer
  <1> HIDE DEF d
  <1>6. bursts' \subseteq BurstType
    BY <1>3, <1>5 DEF TypeOK
  <1>7. ASSUME NEW t \in bursts'
        PROVE  /\ Passes(t, "rank", rank)' /\ Passes(t, "peer", peer)'
               /\ t.from < t.to
               /\ t.who = "rank" => \E b \in Banks : t.to <= array'[b].nextPowerDown
    <2>1. t \in BurstType
      BY <1>6
    <2>2. CASE t \in bursts
      <3>1. Passes(t, "rank", rank') /\ Passes(t, "peer", peer') /\ t.from < t.to
        <4>1. Passes(t, "rank", rank) /\ Passes(t, "peer", peer) /\ t.from < t.to
          BY <2>2 DEF BusFits
        <4> QED
          BY <1>2, <2>1, <4>1
      <3>2. ASSUME t.who = "rank"
            PROVE  \E b \in Banks : t.to <= array'[b].nextPowerDown
        <4>1. PICK b \in Banks : t.to <= array[b].nextPowerDown
          BY <2>2, <3>2 DEF BusFits
        <4>2. t.to \in Int /\ array[b].nextPowerDown \in Nat /\ array'[b].nextPowerDown \in Nat
          BY <2>1, Typing DEF BurstType, ArrayType
        <4> QED
          BY <4>1, <4>2
      <3> QED
        BY <3>1, <3>2 DEF Passes, Rest
    <2>3. CASE t = d
      <3>1. Passes(t, "rank", rank)' /\ Passes(t, "peer", peer)' /\ t.from < t.to
        BY <1>3, <2>3 DEF Passes, Rest
      <3>2. ASSUME t.who = "rank"
            PROVE  \E b \in Banks : t.to <= array'[b].nextPowerDown
        <4>1. who = "rank"
          BY <1>3, <2>3, <3>2
        <4>2. PICK b \in Banks : array'[b].nextPowerDown >= BurstOf(op, "rank").to
          BY <4>1
        <4>3. t.to = BurstOf(op, "rank").to
          BY <2>3, <4>1 DEF d
        <4>4. t.to \in Int /\ array'[b].nextPowerDown \in Nat
          BY <2>1 DEF BurstType, ArrayType
        <4> QED
          BY <4>2, <4>3, <4>4
      <3> QED
        BY <3>1, <3>2
    <2> QED
      BY <1>5, <2>2, <2>3
  <1>8. BusFits'
    BY <1>7 DEF BusFits
  <1> QED
    BY <1>5, <1>6, <1>8

LEMMA ColumnStep ==
    ASSUME IInv, NEW op \in Columns, NEW b \in Banks, Column(op, b)
    PROVE  IInv'
  <1> USE IInvParts
  <1> DEFINE kind == KindOf(op)
  <1>1. /\ ColumnAllowed(op, rank) /\ BankIssuable(op, b) /\ OnBank(op, b)
        /\ rank' = ColumnWindows(op, rank) /\ peer' = Notify(op, peer)
        /\ rankEvents' = rankEvents \cup RankClosesIn(op)
        /\ Note(kind, {b}) /\ Transfer(op, "rank", Breaks(kind, {b}))
    BY DEF Column, KindOf
  <1>2. kind \in Kinds
    BY ColumnOps
  <1>3. /\ age' \in AgeType
        /\ age'.of = [c \in Banks |-> IF c \in {b} THEN [age.of[c] EXCEPT ![kind] = 0] ELSE age.of[c]]
        /\ age'.up = age.up /\ age'.down = age.down /\ age'.slow = age.slow
        /\ age'.acts = age.acts
    BY <1>1, <1>2, Noted
  <1>4. /\ OneBank(ArrayDo(op, array[b]), BankDo(op, bank[b]), [age.of[b] EXCEPT ![kind] = 0])
        /\ NoSooner(array[b], bank[b], ArrayDo(op, array[b]), BankDo(op, bank[b]))
        /\ ArrayDo(op, array[b]).nextPowerDown >= BurstOf(op, "rank").to
        /\ \A n \in RankClosesIn(op) : n \in Nat \ {0} /\ n <= ArrayDo(op, array[b]).nextActivate
    BY <1>1, ColumnKeeps
  <1>5. GivenTo({b}, kind)
    BY <1>1, <1>2, <1>3, <1>4, OnBankGives
  <1>6. array'[b] = ArrayDo(op, array[b])
    BY <1>1 DEF OnBank, TypeOK
  <1>7. /\ \A c \in Banks : BankInv(c)'
        /\ \A c \in Banks : array'[c].nextPowerDown >= array[c].nextPowerDown
    BY <1>2, <1>5, CommandKeepsBanks
  <1>8. rank \in RankType /\ peer \in PeerType
    BY DEF TypeOK
  <1>9. /\ rank' \in RankType /\ rank'.state = rank.state /\ rank'.nextActivate = rank.nextActivate
        /\ rank'.RAWindex = rank.RAWindex /\ rank'.lastActivate = rank.lastActivate
    BY <1>1, <1>8, OwnWindows
  <1>10. peer' \in PeerType
    BY <1>1, <1>8, OtherWindows
  <1>11. Moved(op, rank, peer, rank', peer')
    BY <1>1, <1>8, ColumnMoves
  <1>12. \A c \in Banks : RankWaits(c)'
    <2>1. rank'.nextActivate >= rank.nextActivate
      BY <1>9, RankTyping
    <2>2. RankRaised(kind)
      BY <1>11, <2>1 DEF RankRaised, Moved, KindOf
    <2> QED
      BY <1>2, <1>3, <1>9, <2>2, CommandKeepsRank
  <1>13. RingIsRight'
    BY <1>3, <1>9 DEF RingIsRight, Slot
  <1>14. PowerFits'
    <2>1. array[b].state = "OPEN"
      BY <1>1, ColumnOps, IssuableForRead, IssuableForWrite
    <2>2. rank.state # "CLOSED"
      BY <2>1 DEF PowerFits, RankIdle, Closing
    <2>3. \A n \in rankEvents' : n \in rankEvents \/ \E c \in {b} : n <= array'[c].nextActivate
      BY <1>1, <1>4, <1>6
    <2> HIDE DEF kind
    <2> QED
      BY <1>2, <1>5, <1>9, <2>2, <2>3, CommandKeepsPower
  <1>15. Breaks(kind, {b}) = {}
    <2>1. CASE IsRead(op)
      <3>1. kind = "READ" /\ rank.nextRead = 0
        BY <1>1, <2>1 DEF KindOf, ColumnAllowed
      <3>2. Misses("READ", b) = {}
        BY <1>1, <2>1, <3>1, ReadMissesNothing
      <3> QED
        BY <3>1, <3>2, NothingBroken
    <2>2. CASE ~IsRead(op)
      <3>1. kind = "WRITE" /\ rank.nextWrite = 0 /\ IsWrite(op)
        BY <1>1, <2>2, ColumnOps DEF KindOf, ColumnAllowed
      <3>2. Misses("WRITE", b) = {}
        BY <1>1, <3>1, WriteMissesNothing
      <3> QED
        BY <3>1, <3>2, NothingBroken
    <2> QED
      BY <2>1, <2>2
  <1>16. BusFits' /\ broken' = {} /\ bursts' \subseteq BurstType
    <2>1. Transfer(op, "rank", {})
      BY <1>1, <1>15
    <2>2. \E c \in Banks : array'[c].nextPowerDown >= BurstOf(op, "rank").to
      BY <1>4, <1>6
    <2>3. array' \in [Banks -> ArrayType]
      BY <1>5 DEF GivenTo
    <2> QED
      BY <1>1, <1>7, <1>9, <1>10, <1>11, <2>1, <2>2, <2>3, TransferKeepsBus
  <1>17. rankEvents' \subseteq Nat \ {0}
    BY <1>1, <1>4 DEF TypeOK
  <1>18. TypeOK'
    BY <1>3, <1>5, <1>9, <1>10, <1>16, <1>17 DEF TypeOK, GivenTo
  <1> QED
    BY <1>7, <1>12, <1>13, <1>14, <1>16, <1>18 DEF IInv

LEMMA PeerColumnStep ==
    ASSUME IInv, NEW op \in {"READ", "WRITE"}, PeerColumn(op)
    PROVE  IInv'
  <1> USE IInvParts
  <1>1. /\ ColumnAllowed(op, peer) /\ peer' = ColumnWindows(op, peer) /\ rank' = Notify(op, rank)
        /\ Transfer(op, "peer", {})
        /\ rankEvents' = rankEvents /\ bank' = bank /\ array' = array /\ age' = age
    BY DEF PeerColumn
  <1>2. rank \in RankType /\ peer \in PeerType /\ array \in [Banks -> ArrayType]
    BY DEF TypeOK
  <1>3. Moved(op, peer, rank, peer', rank') /\ peer' \in PeerType
    BY <1>1, <1>2, PeerMoves
  <1>4. /\ rank' \in RankType /\ rank'.state = rank.state /\ rank'.nextActivate = rank.nextActivate
        /\ rank'.RAWindex = rank.RAWindex /\ rank'.lastActivate = rank.lastActivate
    BY <1>1, <1>2, NotifiedRank
  <1>5. \A c \in Banks : BankInv(c)'
    BY <1>1 DEF BankInv, PowerWaits
  <1>6. \A c \in Banks : RankWaits(c)'
    <2>1. rank'.nextActivate >= rank.nextActivate
      BY <1>4, RankTyping
    <2>2. RankRaised("PRE")
      BY <1>3, <2>1 DEF RankRaised, Moved
    <2>3. age'.of = [c \in Banks |-> IF c \in {} THEN [age.of[c] EXCEPT !["PRE"] = 0] ELSE age.of[c]]
      BY <1>1, RankTyping
    <2> QED
      BY <1>4, <2>2, <2>3, CommandKeepsRank DEF Kinds
  <1>7. RingIsRight'
    BY <1>1, <1>4 DEF RingIsRight, Slot
  <1>8. PowerFits'
    BY <1>1, <1>4 DEF PowerFits, RankIdle, Closing
  <1>9. BusFits' /\ broken' = {} /\ bursts' \subseteq BurstType
    <2>1. \A b \in Banks : array'[b].nextPowerDown >= array[b].nextPowerDown
      BY <1>1, <1>2 DEF ArrayType
    <2> QED
      BY <1>1, <1>2, <1>3, <1>4, <2>1, TransferKeepsBus
  <1>10. TypeOK'
    BY <1>1, <1>3, <1>4, <1>9 DEF TypeOK
  <1> QED
    BY <1>5, <1>6, <1>7, <1>8, <1>9, <1>10 DEF IInv

LEMMA NothingToDo ==
    ASSUME TypeOK, NEW b \in Banks, BankInv(b), array[b].nextActivate = 0
    PROVE  array[b].events = {}
  <1> SUFFICES ASSUME NEW e \in array[b].events
               PROVE  FALSE
    OBVIOUS
  <1>1. e.in \in Nat \ {0} /\ e.what \in {"implicit", "closed"}
    BY Typing DEF ArrayType
  <1>2. EventsFit(array[b], age.of[b])
    BY Unfolded
  <1>3. array[b].nextActivate >= e.in \/ array[b].nextActivate >= e.in + tRP
    BY <1>1, <1>2 DEF EventsFit, ClosesInTime
  <1> QED
    BY <1>1, <1>3, Times

LEMMA PowerDownStep ==
    ASSUME IInv, NEW op \in PowerDowns, PowerDown(op)
    PROVE  IInv'
  <1> USE IInvParts
  <1>1. /\ (op = "PDA") <=> ~RankIdle
        /\ \A b \in Banks : BankIssuable(op, b)
        /\ bank' = [b \in Banks |-> BankPowerDown(op, bank[b])]
        /\ rank' = [rank EXCEPT !.state = op]
        /\ Judge("DOWN", Banks)
        /\ age' = [age EXCEPT !.down = 0, !.slow = (op = "PDPS")]
        /\ rankEvents' = rankEvents /\ array' = array /\ peer' = peer /\ bursts' = bursts
    BY DEF PowerDown
  <1>2. /\ age' \in AgeType /\ age'.of = age.of /\ age'.acts = age.acts /\ age'.up = age.up
        /\ age'.down = 0 /\ age'.slow = (op = "PDPS")
    BY <1>1 DEF TypeOK, AgeType
  <1>3. /\ rank' \in RankType /\ rank'.state = op /\ rank'.nextActivate = rank.nextActivate
        /\ rank'.nextRead = rank.nextRead /\ rank'.nextWrite = rank.nextWrite
        /\ rank'.RAWindex = rank.RAWindex /\ rank'.lastActivate = rank.lastActivate
    BY <1>1 DEF TypeOK, RankType, RankStates
  <1>4. \A b \in Banks : /\ array[b].nextPowerDown = 0 /\ array[b].writing = 0
                          /\ bank[b].nextPowerDown = 0
                          /\ bank[b].state \in (IF op = "PDA" THEN {"OPEN", "CLOSED"} ELSE {"CLOSED"})
    BY <1>1, IssuableForPowerDown
  <1>5. \A b \in Banks : Misses("DOWN", b) = {} /\ array[b].nextActivate = 0
    BY <1>1, PowerDownMissesNothing
  <1>6. \A b \in Banks : array[b].events = {}
    BY <1>5, NothingToDo
  <1>7. ASSUME NEW b \in Banks
        PROVE  /\ bank'[b] \in BankType
               /\ bank'[b].state = (IF bank[b].state = "OPEN" THEN "PDA" ELSE IF op = "PDPS" THEN "PDPS" ELSE "PDPF")
               /\ bank'[b].nextPowerUp = Later(bank[b].nextPowerUp, tPD)
               /\ bank'[b].nextActivate = bank[b].nextActivate
               /\ bank'[b].nextPrecharge = bank[b].nextPrecharge
               /\ bank'[b].nextRead = bank[b].nextRead /\ bank'[b].nextWrite = bank[b].nextWrite
               /\ bank'[b].nextPowerDown = bank[b].nextPowerDown
    <2>1. bank[b] \in BankType
      BY Typing
    <2>2. bank'[b] = BankPowerDown(op, bank[b])
      BY <1>1
    <2>3. Later(bank[b].nextPowerUp, tPD) \in Nat
      BY <2>1, Times DEF BankType, Later
    <2> DEFINE s == IF bank[b].state = "OPEN" THEN "PDA" ELSE IF op = "PDPS" THEN "PDPS" ELSE "PDPF"
    <2>4. BankPowerDown(op, bank[b])
            = [bank[b] EXCEPT !.state = s, !.nextPowerUp = Later(bank[b].nextPowerUp, tPD)]
      BY <2>1 DEF BankPowerDown, Raise, BankType
    <2>5. s \in BankStates
      BY DEF BankStates, PowerDowns
    <2> HIDE DEF s
    <2>6. /\ bank'[b] \in BankType /\ bank'[b].state = s
          /\ bank'[b].nextPowerUp = Later(bank[b].nextPowerUp, tPD)
          /\ bank'[b].nextActivate = bank[b].nextActivate
          /\ bank'[b].nextPrecharge = bank[b].nextPrecharge
          /\ bank'[b].nextRead = bank[b].nextRead /\ bank'[b].nextWrite = bank[b].nextWrite
          /\ bank'[b].nextPowerDown = bank[b].nextPowerDown
      BY <2>1, <2>2, <2>3, <2>4, <2>5 DEF BankType
    <2> QED
      BY <2>6 DEF s
  <1>8. ASSUME NEW b \in Banks
        PROVE  BankInv(b)'
    <2> DEFINE k == bank[b]
               k2 == bank'[b]
    <2>1. BankFits(array[b], k2, age.of[b])
      <3>1. /\ array[b].nextActivate <= Later(k.nextPowerDown, array[b].nextPowerDown)
            /\ age.of[b]["ACT"] + k.nextPowerDown >= tRCD
            /\ k.state \in {"OPEN", "PDA"} <=> Plain(array[b])
        BY Unfolded DEF BankFits
      <3>2. k2.state \in {"OPEN", "PDA"} <=> k.state \in {"OPEN", "PDA"}
        BY <1>4, <1>7
      <3>3. k2.nextPowerDown = k.nextPowerDown
        BY <1>7
      <3> HIDE DEF k, k2
      <3> QED
        BY <1>4, <1>6, <3>1, <3>2, <3>3 DEF BankFits
    <2>2. OneBank(array[b], k2, age.of[b])
      BY <1>7, <2>1 DEF BankInv, OneBank
    <2>3. /\ age.up + k.nextActivate >= tXP /\ age.up + k.nextPrecharge >= tXP
          /\ age.up + k.nextWrite >= tXP /\ age.up + k.nextPowerDown >= tXP
          /\ k.state # "PDPS" => age.up + k.nextRead >= IF age.slow THEN tXPDLL ELSE tXP
      BY Unfolded DEF PowerWaits
    <2>4. k.state # "PDPS" => age.up + k.nextRead >= tXP
      <3>1. age.up + k.nextRead \in Nat
        BY Unfolded
      <3> QED
        BY <2>3, <3>1, Times
    <2>5. k2.state # "PDPS" => op # "PDPS" /\ age'.slow = FALSE
      BY <1>2, <1>4, <1>7
    <2>6. k.state # "PDPS"
      BY <1>4
    <2>7. age'.down + k2.nextPowerUp >= tPD
      BY <1>2, <1>7, Unfolded, Times DEF Later
    <2>8. k2.state \in {"PDA", "PDPF"} => ~age'.slow
      BY <2>5
    <2>9. k2.state # "PDPS" => age'.up + k2.nextRead >= IF age'.slow THEN tXPDLL ELSE tXP
      BY <1>2, <1>7, <2>4, <2>5, <2>6
    <2>10. PowerWaits(k)'
      BY <1>2, <1>7, <2>3, <2>7, <2>8, <2>9 DEF PowerWaits
    <2> QED
      BY <1>1, <1>2, <2>2, <2>10 DEF BankInv
  <1>9. \A b \in Banks : RankWaits(b)'
    BY <1>2, <1>3 DEF RankWaits
  <1>10. RingIsRight'
    BY <1>2, <1>3 DEF RingIsRight, Slot
  <1>11. PowerFits'
    <2>1. \A b \in Banks : bank'[b].state \in PowerDowns
      BY <1>7 DEF PowerDowns
    <2>2. \A b, c \in Banks : bank'[b].nextPowerUp = bank'[c].nextPowerUp
      BY <1>7 DEF PowerFits
    <2>3. rankEvents' = {}
      <3> SUFFICES ASSUME NEW n \in rankEvents
                   PROVE  FALSE
        BY <1>1
      <3>1. PICK b \in Banks : n <= array[b].nextActivate
        BY DEF PowerFits
      <3>2. n \in Nat \ {0}
        BY DEF TypeOK
      <3> QED
        BY <1>5, <3>1, <3>2
    <2>4. rank'.state \in {"CLOSED", "PDPF", "PDPS"} => RankIdle'
      BY <1>1, <1>3 DEF RankIdle, Closing, PowerDowns
    <2> QED
      BY <1>3, <2>1, <2>2, <2>3, <2>4 DEF PowerFits
  <1>12. BusFits'
    <2>1. \A b \in Banks : array'[b].nextPowerDown >= array[b].nextPowerDown
      BY <1>1, <1>4
    <2> QED
      BY <1>1, <1>3, <2>1, BusKept DEF TypeOK
  <1>13. broken' = {}
    BY <1>1, <1>5, NothingBroken DEF Judge
  <1>14. TypeOK'
    <2>1. bank' \in [Banks -> BankType]
      BY <1>1, <1>7
    <2> QED
      BY <1>1, <1>2, <1>3, <2>1 DEF TypeOK
  <1> QED
    BY <1>8, <1>9, <1>10, <1>11, <1>12, <1>13, <1>14 DEF IInv

LEMMA PowerUpStep ==
    ASSUME IInv, PowerUp
    PROVE  IInv'
  <1> USE IInvParts
  <1> DEFINE s == CASE rank.state = "PDA" -> "OPEN"
                    [] rank.state \in {"PDPF", "PDPS"} -> "CLOSED"
                    [] OTHER -> rank.state
  <1>1. /\ \A b \in Banks : BankIssuable("UP", b)
        /\ bank' = [b \in Banks |-> BankPowerUp(bank[b])]
        /\ Judge("UP", Banks)
        /\ age' = [age EXCEPT !.up = 0]
        /\ rankEvents' = rankEvents /\ array' = array /\ peer' = peer /\ bursts' = bursts
    BY DEF PowerUp
  <1>2. rank' = [rank EXCEPT !.state = s]
    BY DEF PowerUp, TypeOK, RankType
  <1>3. \A b \in Banks : bank[b].nextPowerUp = 0 /\ bank[b].state \in PowerDowns
    BY <1>1, IssuableForPowerUp
  <1>4. rank.state \in PowerDowns /\ rankEvents = {}
    BY <1>3, Counts DEF PowerFits
  <1>5. s = (IF rank.state = "PDA" THEN "OPEN" ELSE "CLOSED")
    BY <1>4 DEF PowerDowns
  <1> HIDE DEF s
  <1>6. /\ age' \in AgeType /\ age'.of = age.of /\ age'.acts = age.acts /\ age'.up = 0
        /\ age'.down = age.down /\ age'.slow = age.slow
    BY <1>1 DEF TypeOK, AgeType
  <1>7. /\ rank' \in RankType /\ rank'.state = s /\ rank'.nextActivate = rank.nextActivate
        /\ rank'.nextRead = rank.nextRead /\ rank'.nextWrite = rank.nextWrite
        /\ rank'.RAWindex = rank.RAWindex /\ rank'.lastActivate = rank.lastActivate
    BY <1>2, <1>5 DEF TypeOK, RankType, RankStates
  <1>8. ASSUME NEW b \in Banks
        PROVE  LET k == bank[b]
                   k2 == bank'[b]
               IN  /\ k2 \in BankType
                   /\ k2.state = (IF k.state = "PDA" THEN "OPEN" ELSE "CLOSED")
                   /\ k2.nextPowerUp = k.nextPowerUp
                   /\ k2.nextPowerDown = Later(k.nextPowerDown, tXP)
                   /\ k2.nextActivate = Later(k.nextActivate, tXP)
                   /\ k2.nextPrecharge = Later(k.nextPrecharge, tXP)
                   /\ k2.nextWrite = Later(k.nextWrite, tXP)
                   /\ k2.nextRead = Later(k.nextRead, IF k.state = "PDPS" THEN tXPDLL ELSE tXP)
    <2> DEFINE k == bank[b]
               k1 == [k EXCEPT !.state = IF @ = "PDA" THEN "OPEN" ELSE "CLOSED"]
               w == RaiseAll(k1, {"nextPowerDown", "nextActivate", "nextPrecharge", "nextWrite"}, tXP)
               x == IF k.state = "PDPS" THEN tXPDLL ELSE tXP
    <2>1. k \in BankType /\ bank'[b] = BankPowerUp(k)
      BY <1>1, Typing
    <2>2. /\ k1 \in BankType /\ k1.state = (IF k.state = "PDA" THEN "OPEN" ELSE "CLOSED")
          /\ k1.nextPowerUp = k.nextPowerUp /\ k1.nextPowerDown = k.nextPowerDown
          /\ k1.nextActivate = k.nextActivate /\ k1.nextPrecharge = k.nextPrecharge
          /\ k1.nextRead = k.nextRead /\ k1.nextWrite = k.nextWrite
      BY <2>1 DEF BankType, BankStates
    <2>3. BankPowerUp(k) = Raise(w, "nextRead", x)
      BY DEF BankPowerUp
    <2> HIDE DEF k1
    <2>4. /\ w \in BankType /\ w.state = k1.state /\ w.nextPowerUp = k1.nextPowerUp
          /\ w.nextRead = k1.nextRead
          /\ w.nextPowerDown = Later(k1.nextPowerDown, tXP)
          /\ w.nextActivate = Later(k1.nextActivate, tXP)
          /\ w.nextPrecharge = Later(k1.nextPrecharge, tXP)
          /\ w.nextWrite = Later(k1.nextWrite, tXP)
      BY <2>2, Times DEF RaiseAll, BankType, Later
    <2>5. x \in Nat
      BY Times
    <2> HIDE DEF w, x, k
    <2>6. /\ Raise(w, "nextRead", x) \in BankType
          /\ Raise(w, "nextRead", x) = [w EXCEPT !.nextRead = Later(w.nextRead, x)]
      BY <2>4, <2>5 DEF Raise, BankType, Later
    <2>7. LET k2 == Raise(w, "nextRead", x)
          IN  /\ k2.state = w.state /\ k2.nextPowerUp = w.nextPowerUp
              /\ k2.nextPowerDown = w.nextPowerDown /\ k2.nextActivate = w.nextActivate
              /\ k2.nextPrecharge = w.nextPrecharge /\ k2.nextWrite = w.nextWrite
              /\ k2.nextRead = Later(w.nextRead, x)
      BY <2>4, <2>6 DEF BankType
    <2>8. LET k2 == bank'[b]
          IN  /\ k2 \in BankType
              /\ k2.state = (IF k.state = "PDA" THEN "OPEN" ELSE "CLOSED")
              /\ k2.nextPowerUp = k.nextPowerUp
              /\ k2.nextPowerDown = Later(k.nextPowerDown, tXP)
              /\ k2.nextActivate = Later(k.nextActivate, tXP)
              /\ k2.nextPrecharge = Later(k.nextPrecharge, tXP)
              /\ k2.nextWrite = Later(k.nextWrite, tXP)
              /\ k2.nextRead = Later(k.nextRead, x)
      BY <2>1, <2>2, <2>3, <2>4, <2>6, <2>7
    <2> QED
      BY <2>8 DEF k, x
  <1>9. ASSUME NEW b \in Banks
        PROVE  BankInv(b)'
    <2> DEFINE k == bank[b]
               k2 == bank'[b]
    <2>1. /\ k2 \in BankType /\ k \in BankType
          /\ k2.nextPowerDown >= k.nextPowerDown /\ k2.nextPowerDown >= tXP
          /\ k2.nextActivate >= tXP /\ k2.nextPrecharge >= tXP /\ k2.nextWrite >= tXP
          /\ k2.nextRead >= (IF k.state = "PDPS" THEN tXPDLL ELSE tXP)
          /\ k2.nextRead >= tXP
      BY <1>8, Typing, Times DEF BankType, Later
    <2>2. BankFits(array[b], k2, age.of[b])
      <3>1. /\ array[b].nextActivate <= Later(k.nextPowerDown, array[b].nextPowerDown)
            /\ age.of[b]["ACT"] + k.nextPowerDown >= tRCD
            /\ k.state \in {"OPEN", "PDA"} <=> Plain(array[b])
        BY Unfolded DEF BankFits
      <3>2. /\ array[b].nextActivate \in Nat /\ array[b].nextPowerDown \in Nat
            /\ k.nextPowerDown \in Nat /\ k2.nextPowerDown \in Nat /\ age.of[b]["ACT"] \in Nat
        BY <2>1, Unfolded, Typing DEF BankType
      <3>3. k2.state \in {"OPEN", "PDA"} <=> k.state \in {"OPEN", "PDA"}
        BY <1>3, <1>8 DEF PowerDowns
      <3>4. k2.state \notin PowerDowns
        BY <1>8 DEF PowerDowns
      <3>5. array[b].nextActivate <= Later(k2.nextPowerDown, array[b].nextPowerDown)
        <4> HIDE DEF k, k2
        <4> QED
          BY <2>1, <3>1, <3>2 DEF Later
      <3>6. age.of[b]["ACT"] + k2.nextPowerDown >= tRCD
        <4> HIDE DEF k, k2
        <4> QED
          BY <2>1, <3>1, <3>2, Times
      <3> QED
        BY <3>1, <3>3, <3>4, <3>5, <3>6 DEF BankFits
    <2>3. OneBank(array[b], k2, age.of[b])
      BY <2>1, <2>2 DEF BankInv, OneBank
    <2>4. /\ k2.nextActivate \in Nat /\ k2.nextPrecharge \in Nat /\ k2.nextWrite \in Nat
          /\ k2.nextPowerDown \in Nat /\ k2.nextRead \in Nat
      BY <2>1 DEF BankType
    <2>5. k.state \in {"PDA", "PDPF"} => ~age.slow
      BY Unfolded DEF PowerWaits
    <2>6. k2.nextRead >= IF age.slow THEN tXPDLL ELSE tXP
      <3>1. CASE age.slow
        <4>1. k.state = "PDPS"
          BY <1>3, <2>5, <3>1 DEF PowerDowns
        <4> QED
          BY <2>1, <3>1, <4>1
      <3>2. CASE ~age.slow
        BY <2>1, <3>2
      <3> QED
        BY <3>1, <3>2
    <2>7. age.down + k2.nextPowerUp >= tPD
      BY <1>8, Unfolded DEF PowerWaits
    <2>8. k2.state \notin {"PDA", "PDPF"}
      BY <1>8
    <2> HIDE DEF k2
    <2>9. /\ age'.up + k2.nextActivate >= tXP /\ age'.up + k2.nextPrecharge >= tXP
          /\ age'.up + k2.nextWrite >= tXP /\ age'.up + k2.nextPowerDown >= tXP
          /\ age'.up + k2.nextRead >= IF age'.slow THEN tXPDLL ELSE tXP
      BY <1>6, <2>1, <2>4, <2>6, Times
    <2>10. PowerWaits(k)'
      BY <1>6, <2>7, <2>8, <2>9 DEF PowerWaits, k2
    <2> QED
      BY <1>1, <1>6, <2>3, <2>10 DEF BankInv, k2
  <1>10. \A b \in Banks : RankWaits(b)'
    BY <1>6, <1>7 DEF RankWaits
  <1>11. RingIsRight'
    BY <1>6, <1>7 DEF RingIsRight, Slot
  <1>12. PowerFits'
    <2>1. \A b \in Banks : bank'[b].state \notin PowerDowns
      BY <1>8 DEF PowerDowns
    <2>2. \A b, c \in Banks : bank'[b].nextPowerUp = bank'[c].nextPowerUp
      BY <1>8 DEF PowerFits
    <2>3. rank'.state \notin PowerDowns
      BY <1>5, <1>7 DEF PowerDowns
    <2>4. rank'.state \in {"CLOSED", "PDPF", "PDPS"} => RankIdle'
      <3>1. rank'.state \in {"CLOSED", "PDPF", "PDPS"} => RankIdle
        BY <1>4, <1>5, <1>7 DEF PowerFits, PowerDowns
      <3> QED
        BY <1>1, <3>1 DEF RankIdle, Closing
    <2> QED
      BY <1>1, <1>4, <2>1, <2>2, <2>3, <2>4 DEF PowerFits
  <1>13. BusFits'
    <2>1. \A b \in Banks : array'[b].nextPowerDown >= array[b].nextPowerDown
      BY <1>1, Unfolded
    <2> QED
      BY <1>1, <1>7, <2>1, BusKept DEF TypeOK
  <1>14. broken' = {}
    <2>1. \A b \in Banks : Misses("UP", b) = {}
      BY <1>1, PowerUpMissesNothing
    <2> QED
      BY <1>1, <2>1, NothingBroken DEF Judge
  <1>15. TypeOK'
    <2>1. bank' \in [Banks -> BankType]
      BY <1>1, <1>8
    <2> QED
      BY <1>1, <1>6, <1>7, <2>1 DEF TypeOK
  <1> QED
    BY <1>9, <1>10, <1>11, <1>12, <1>13, <1>14, <1>15 DEF IInv

LEMMA NextCount ==
    /\ \A n \in Nat : Less(n) \in Nat
    /\ \A n, most \in Nat : Earlier(n + 1, most) \in Nat
  BY DEF Less, Earlier

\* The next cycle, bank by bank.
LEMMA CycleParts ==
    ASSUME TypeOK, Cycle
    PROVE  /\ array' = [b \in Banks |-> ArrayCycle(array[b])]
           /\ bank' = [b \in Banks |-> Closer(bank[b])]
           /\ rank' \in RankType
           /\ rank'.nextRead = Less(rank.nextRead) /\ rank'.nextWrite = Less(rank.nextWrite)
           /\ rank'.nextActivate = Less(rank.nextActivate)
           /\ rank'.RAWindex = rank.RAWindex
           /\ rank'.lastActivate = [i \in 0 .. rawNum - 1 |-> Earlier(rank.lastActivate[i] + 1, tRAW)]
           /\ rank'.state = (IF 1 \in rankEvents /\ (\A b \in Banks : Closing(array'[b])) THEN "CLOSED"
                            ELSE rank.state)
           /\ rankEvents' = {t - 1 : t \in rankEvents \ {1}}
           /\ peer' \in PeerType
           /\ peer'.nextRead = Less(peer.nextRead) /\ peer'.nextWrite = Less(peer.nextWrite)
           /\ age' \in AgeType
           /\ age'.of = [b \in Banks |-> Aged(array[b], age.of[b])]
           /\ age'.acts = [i \in 1 .. rawNum |-> Earlier(age.acts[i] + 1, tRAW)]
           /\ age'.up = Earlier(age.up + 1, tXPDLL) /\ age'.down = Earlier(age.down + 1, tPD)
           /\ age'.slow = age.slow
           /\ (\A b \in Banks : ClosesNow(array[b]) => TooSoonToClose(Older(age.of[b])) = {})
                => broken' = broken
           /\ bursts' = {[t EXCEPT !.from = @ - 1, !.to = @ - 1] : t \in {u \in bursts : u.to + tRTRS > 1}}
  <1> DEFINE closes == {b \in Banks : [what |-> "implicit", in |-> 1] \in array[b].events}
             older == [b \in Banks |-> [k \in Kinds |-> Earlier(age.of[b][k] + 1, Horizon[k])]]
             of == [b \in Banks |-> IF b \in closes THEN [older[b] EXCEPT !["PRE"] = 0] ELSE older[b]]
             acts == [i \in 1 .. rawNum |-> Earlier(age.acts[i] + 1, tRAW)]
             last == [i \in 0 .. rawNum - 1 |-> Earlier(rank.lastActivate[i] + 1, tRAW)]
             s == IF 1 \in rankEvents /\ (\A b \in Banks : Closing(array'[b])) THEN "CLOSED" ELSE rank.state
  <1>1. /\ array' = [b \in Banks |-> ArrayCycle(array[b])]
        /\ bank' = [b \in Banks |-> Closer(bank[b])]
        /\ rankEvents' = {t - 1 : t \in rankEvents \ {1}}
        /\ bursts' = {[t EXCEPT !.from = @ - 1, !.to = @ - 1] : t \in {u \in bursts : u.to + tRTRS > 1}}
    BY DEF Cycle
  <1>2. /\ rank' \in RankType
        /\ rank'.nextRead = Less(rank.nextRead) /\ rank'.nextWrite = Less(rank.nextWrite)
        /\ rank'.nextActivate = Less(rank.nextActivate)
        /\ rank'.RAWindex = rank.RAWindex /\ rank'.lastActivate = last /\ rank'.state = s
    <2>1. rank' = [rank EXCEPT !.nextRead = Less(rank.nextRead), !.nextWrite = Less(rank.nextWrite),
                               !.nextActivate = Less(rank.nextActivate),
                               !.nextPrecharge = Less(rank.nextPrecharge),
                               !.lastActivate = last, !.state = s]
      <3>1. rank \in RankType
        BY DEF TypeOK
      <3> HIDE DEF last, s
      <3>2. rank' = [rank EXCEPT !.nextRead = Less(@), !.nextWrite = Less(@),
                                 !.nextActivate = Less(@), !.nextPrecharge = Less(@),
                                 !.lastActivate = last, !.state = s]
        <4>1. rank.lastActivate \in [0 .. rawNum - 1 -> Nat]
          BY RankTyping
        <4> QED
          BY <3>1 DEF Cycle, last, s, RankType
      <3> QED
        BY <3>1, <3>2 DEF RankType
    <2>2. /\ Less(rank.nextRead) \in Nat /\ Less(rank.nextWrite) \in Nat
          /\ Less(rank.nextActivate) \in Nat /\ Less(rank.nextPrecharge) \in Nat
      BY RankTyping, NextCount
    <2>3. last \in [0 .. rawNum - 1 -> Nat]
      <3>1. \A i \in 0 .. rawNum - 1 : rank.lastActivate[i] \in Nat
        BY RankTyping
      <3>2. \A i \in 0 .. rawNum - 1 : Earlier(rank.lastActivate[i] + 1, tRAW) \in Nat
        BY <3>1, NextCount, Times
      <3> QED
        BY <3>2
    <2>4. s \in RankStates
      BY DEF TypeOK, RankType, RankStates
    <2>5. rank \in RankType
      BY DEF TypeOK
    <2> HIDE DEF last, s
    <2> QED
      BY <2>1, <2>2, <2>3, <2>4, <2>5 DEF RankType
  <1>3. /\ peer' \in PeerType
        /\ peer'.nextRead = Less(peer.nextRead) /\ peer'.nextWrite = Less(peer.nextWrite)
    <2>1. peer' = [f \in DOMAIN peer |-> Less(peer[f])]
      BY DEF Cycle
    <2>2. peer \in PeerType /\ DOMAIN peer = {"nextRead", "nextWrite"}
      BY DEF TypeOK, PeerType
    <2>3. Less(peer.nextRead) \in Nat /\ Less(peer.nextWrite) \in Nat
      BY RankTyping, NextCount
    <2>4. peer' = [nextRead |-> Less(peer.nextRead), nextWrite |-> Less(peer.nextWrite)]
      BY <2>1, <2>2
    <2> QED
      BY <2>3, <2>4 DEF PeerType
  <1>4. ASSUME NEW b \in Banks
        PROVE  /\ older[b] = Older(age.of[b]) /\ of[b] = Aged(array[b], age.of[b])
               /\ b \in closes <=> ClosesNow(array[b])
    BY DEF Older, Aged, ClosesNow
  <1>5. /\ age' = [of |-> of, acts |-> acts, up |-> Earlier(age.up + 1, tXPDLL),
                   down |-> Earlier(age.down + 1, tPD), slow |-> age.slow]
        /\ broken' = broken \cup UNION {TooSoonToClose(older[b]) : b \in closes}
    BY DEF Cycle
  <1>6. of \in [Banks -> [Kinds -> Nat]]
    <2>1. \A b \in Banks : age.of[b] \in [Kinds -> Nat]
      BY RankTyping
    <2>2. \A b \in Banks : Aged(array[b], age.of[b]) \in [Kinds -> Nat]
      BY <2>1, AgesGrow
    <2>3. \A b \in Banks : of[b] \in [Kinds -> Nat]
      BY <1>4, <2>2
    <2> HIDE DEF older, closes
    <2> QED
      BY <2>3
  <1>7. acts \in [1 .. rawNum -> Nat] /\ Earlier(age.up + 1, tXPDLL) \in Nat /\ Earlier(age.down + 1, tPD) \in Nat
    <2>1. (\A i \in 1 .. rawNum : age.acts[i] \in Nat) /\ age.up \in Nat /\ age.down \in Nat
      BY RankTyping
    <2>2. \A i \in 1 .. rawNum : Earlier(age.acts[i] + 1, tRAW) \in Nat
      BY <2>1, NextCount, Times
    <2>3. Earlier(age.up + 1, tXPDLL) \in Nat /\ Earlier(age.down + 1, tPD) \in Nat
      BY <2>1, NextCount, Times
    <2> QED
      BY <2>2, <2>3
  <1>8. age.slow \in BOOLEAN
    BY DEF TypeOK, AgeType
  <1>9. (\A b \in Banks : ClosesNow(array[b]) => TooSoonToClose(Older(age.of[b])) = {}) => broken' = broken
    <2> SUFFICES ASSUME \A b \in Banks : ClosesNow(array[b]) => TooSoonToClose(Older(age.of[b])) = {}
                 PROVE  broken' = broken
      OBVIOUS
    <2>1. \A b \in closes : b \in Banks
      OBVIOUS
    <2>2. \A b \in closes : TooSoonToClose(older[b]) = {}
      <3> SUFFICES ASSUME NEW b \in closes
                   PROVE  TooSoonToClose(older[b]) = {}
        OBVIOUS
      <3>1. b \in Banks
        OBVIOUS
      <3>2. older[b] = Older(age.of[b]) /\ ClosesNow(array[b])
        BY <1>4, <3>1
      <3> HIDE DEF older, closes
      <3> QED
        BY <3>1, <3>2
    <2>3. broken' = broken \cup UNION {TooSoonToClose(older[b]) : b \in closes}
      BY <1>5
    <2> HIDE DEF older, closes
    <2>4. UNION {TooSoonToClose(older[b]) : b \in closes} = {}
      BY <2>2
    <2> QED
      BY <2>3, <2>4
  <1>10. of = [b \in Banks |-> Aged(array[b], age.of[b])]
    BY <1>4
  <1> HIDE DEF of, acts, last, s, older, closes
  <1>11. /\ age' \in AgeType /\ age'.of = of /\ age'.acts = acts
         /\ age'.up = Earlier(age.up + 1, tXPDLL) /\ age'.down = Earlier(age.down + 1, tPD)
         /\ age'.slow = age.slow
    BY <1>5, <1>6, <1>7, <1>8 DEF AgeType
  <1> QED
    BY <1>1, <1>2, <1>3, <1>9, <1>10, <1>11 DEF acts, last, s

LEMMA CycleStep ==
    ASSUME IInv, Cycle
    PROVE  IInv'
  <1> USE IInvParts
  <1>1. ASSUME NEW b \in Banks
        PROVE  /\ array'[b] = ArrayCycle(array[b]) /\ bank'[b] = Closer(bank[b])
               /\ age'.of[b] = Aged(array[b], age.of[b])
               /\ OneBank(array'[b], bank'[b], age'.of[b])
               /\ ClosesNow(array[b]) => TooSoonToClose(Older(age.of[b])) = {}
               /\ Closing(array[b]) => Closing(array'[b])
    <2>1. array'[b] = ArrayCycle(array[b]) /\ bank'[b] = Closer(bank[b])
          /\ age'.of[b] = Aged(array[b], age.of[b])
      BY CycleParts
    <2>2. OneBank(array[b], bank[b], age.of[b])
      BY DEF BankInv
    <2> QED
      BY <2>1, <2>2, CycleKeeps
  <1>2. ASSUME NEW b \in Banks
        PROVE  /\ array'[b].nextActivate = Less(array[b].nextActivate)
               /\ array'[b].nextPowerDown = Less(array[b].nextPowerDown)
               /\ array[b].nextActivate \in Nat /\ array[b].nextPowerDown \in Nat
    <2>1. EventsFit(array[b], age.of[b]) /\ array[b] \in ArrayType /\ age.of[b] \in [Kinds -> Nat]
      BY Typing, Unfolded
    <2> QED
      BY <1>1, <2>1, ArrayInTheNextCycle, Unfolded
  <1>3. ASSUME NEW b \in Banks
        PROVE  LET k == bank[b]
                   k2 == bank'[b]
               IN  /\ k2.state = k.state
                   /\ k2.nextActivate = Less(k.nextActivate) /\ k2.nextPrecharge = Less(k.nextPrecharge)
                   /\ k2.nextRead = Less(k.nextRead) /\ k2.nextWrite = Less(k.nextWrite)
                   /\ k2.nextPowerDown = Less(k.nextPowerDown) /\ k2.nextPowerUp = Less(k.nextPowerUp)
    BY <1>1, CloserBank, Typing
  <1>4. ASSUME NEW b \in Banks
        PROVE  BankInv(b)'
    <2> DEFINE k == bank[b]
               k2 == bank'[b]
    <2>1. /\ age'.up = Earlier(age.up + 1, tXPDLL) /\ age'.down = Earlier(age.down + 1, tPD)
          /\ age'.slow = age.slow
      BY CycleParts
    <2>2. /\ k.nextActivate \in Nat /\ k.nextPrecharge \in Nat /\ k.nextRead \in Nat
          /\ k.nextWrite \in Nat /\ k.nextPowerDown \in Nat /\ k.nextPowerUp \in Nat
          /\ age.up \in Nat /\ age.down \in Nat /\ PowerWaits(k)
      BY Unfolded
    <2>3. /\ k2.state = k.state
          /\ k2.nextActivate = Less(k.nextActivate) /\ k2.nextPrecharge = Less(k.nextPrecharge)
          /\ k2.nextRead = Less(k.nextRead) /\ k2.nextWrite = Less(k.nextWrite)
          /\ k2.nextPowerDown = Less(k.nextPowerDown) /\ k2.nextPowerUp = Less(k.nextPowerUp)
      BY <1>3
    <2> HIDE DEF k, k2
    <2>4. /\ age'.up + k2.nextActivate >= tXP /\ age'.up + k2.nextPrecharge >= tXP
          /\ age'.up + k2.nextWrite >= tXP /\ age'.up + k2.nextPowerDown >= tXP
      BY <2>1, <2>2, <2>3, Times, StillWaits DEF PowerWaits
    <2>5. k2.state # "PDPS" => age'.up + k2.nextRead >= IF age'.slow THEN tXPDLL ELSE tXP
      <3>1. CASE age.slow
        BY <2>1, <2>2, <2>3, <3>1, Times, StillWaits DEF PowerWaits
      <3>2. CASE ~age.slow
        BY <2>1, <2>2, <2>3, <3>2, Times, StillWaits DEF PowerWaits
      <3> QED
        BY <3>1, <3>2
    <2>6. k2.state \in {"PDA", "PDPF"} => ~age'.slow
      BY <2>1, <2>2, <2>3 DEF PowerWaits
    <2>7. age'.down + k2.nextPowerUp >= tPD
      BY <2>1, <2>2, <2>3, Times, StillWaits DEF PowerWaits
    <2>8. PowerWaits(bank[b])'
      BY <2>4, <2>5, <2>6, <2>7 DEF PowerWaits, k2
    <2> QED
      BY <1>1, <2>8 DEF BankInv
  <1>5. ASSUME NEW b \in Banks
        PROVE  RankWaits(b)'
    <2> DEFINE g == age.of[b]
               h == age'.of[b]
    <2>1. /\ g["ACT"] \in Nat /\ g["READ"] \in Nat /\ g["WRITE"] \in Nat /\ g \in [Kinds -> Nat]
      BY Typing
    <2>2. /\ h["ACT"] = Earlier(g["ACT"] + 1, Horizon["ACT"])
          /\ h["READ"] = Earlier(g["READ"] + 1, Horizon["READ"])
          /\ h["WRITE"] = Earlier(g["WRITE"] + 1, Horizon["WRITE"])
      BY <1>1, <2>1, AgesGrow DEF Kinds
    <2>3. /\ rank'.nextRead = Less(rank.nextRead) /\ rank'.nextWrite = Less(rank.nextWrite)
          /\ rank'.nextActivate = Less(rank.nextActivate)
      BY CycleParts
    <2>4. rank.nextRead \in Nat /\ rank.nextWrite \in Nat /\ rank.nextActivate \in Nat
      BY RankTyping
    <2>5. /\ g["ACT"] + rank.nextActivate >= tRRDR
          /\ g["READ"] + rank.nextRead >= Burst /\ g["READ"] + rank.nextWrite >= Turn
          /\ g["WRITE"] + rank.nextRead >= WriteToRead /\ g["WRITE"] + rank.nextWrite >= Burst
      BY DEF RankWaits
    <2> HIDE DEF g, h
    <2>6. h["ACT"] + rank'.nextActivate >= tRRDR
      BY <2>1, <2>2, <2>3, <2>4, <2>5, Horizons, Times, StillWaits
    <2>7. h["READ"] + rank'.nextRead >= Burst /\ h["READ"] + rank'.nextWrite >= Turn
      BY <2>1, <2>2, <2>3, <2>4, <2>5, Horizons, Sums, StillWaits
    <2>8. h["WRITE"] + rank'.nextRead >= WriteToRead /\ h["WRITE"] + rank'.nextWrite >= Burst
      BY <2>1, <2>2, <2>3, <2>4, <2>5, Horizons, Sums, StillWaits
    <2> QED
      BY <2>6, <2>7, <2>8 DEF RankWaits, h
  <1>6. RingIsRight'
    <2> SUFFICES ASSUME NEW i \in 1 .. rawNum
                 PROVE  age'.acts[i] >= rank'.lastActivate[Slot(i)']
      BY DEF RingIsRight
    <2>1. Slot(i)' = Slot(i)
      BY CycleParts DEF Slot
    <2>2. Slot(i) \in 0 .. rawNum - 1
      <3>1. rank.RAWindex \in 0 .. rawNum - 1
        BY RankTyping
      <3> QED
        BY <3>1, Counts DEF Slot
    <2>3. rank'.lastActivate[Slot(i)] = Earlier(rank.lastActivate[Slot(i)] + 1, tRAW)
      BY <2>2, CycleParts
    <2>4. age'.acts[i] = Earlier(age.acts[i] + 1, tRAW)
      BY CycleParts
    <2>5. age.acts[i] >= rank.lastActivate[Slot(i)]
      BY DEF RingIsRight
    <2>6. age.acts[i] \in Nat /\ rank.lastActivate[Slot(i)] \in Nat
      BY <2>2, RankTyping
    <2> QED
      BY <2>1, <2>3, <2>4, <2>5, <2>6, Times DEF Earlier
  <1>7. PowerFits'
    <2>1. 1 \in rankEvents => rank.state \notin PowerDowns
      BY DEF PowerFits
    <2>2. /\ rank'.state \in PowerDowns <=> rank.state \in PowerDowns
          /\ rank'.state = rank.state \/ (rank'.state = "CLOSED" /\ \A b \in Banks : Closing(array'[b]))
      <3>1. rank'.state = (IF 1 \in rankEvents /\ (\A b \in Banks : Closing(array'[b])) THEN "CLOSED"
                           ELSE rank.state)
        BY CycleParts
      <3> QED
        BY <2>1, <3>1 DEF PowerDowns
    <2>3. \A b \in Banks : bank'[b].state \in PowerDowns <=> rank'.state \in PowerDowns
      BY <1>3, <2>2 DEF PowerFits
    <2>4. \A b, c \in Banks : bank'[b].nextPowerUp = bank'[c].nextPowerUp
      BY <1>3 DEF PowerFits
    <2>5. rank'.state \in PowerDowns => rankEvents' = {}
      BY <2>2, CycleParts DEF PowerFits
    <2>6. ASSUME NEW n \in rankEvents'
          PROVE  \E b \in Banks : n <= array'[b].nextActivate
      <3>0. rankEvents' = {t - 1 : t \in rankEvents \ {1}}
        BY CycleParts
      <3>1. PICK t \in rankEvents : n = t - 1
        BY <2>6, <3>0
      <3>2. PICK b \in Banks : t <= array[b].nextActivate
        BY DEF PowerFits
      <3>3. t \in Nat
        BY DEF TypeOK
      <3> QED
        BY <1>2, <3>1, <3>2, <3>3 DEF Less
    <2>7. rank'.state \in {"CLOSED", "PDPF", "PDPS"} => RankIdle'
      BY <1>1, <2>2 DEF PowerFits, RankIdle
    <2> QED
      BY <2>3, <2>4, <2>5, <2>6, <2>7 DEF PowerFits
  <1>8. BusFits' /\ bursts' \subseteq BurstType
    <2>1. ASSUME NEW t \in bursts'
          PROVE  /\ Passes(t, "rank", rank)' /\ Passes(t, "peer", peer)'
                 /\ t.from < t.to /\ t \in BurstType
                 /\ t.who = "rank" => \E b \in Banks : t.to <= array'[b].nextPowerDown
      <3>0. bursts' = {[v EXCEPT !.from = @ - 1, !.to = @ - 1] : v \in {u \in bursts : u.to + tRTRS > 1}}
        BY CycleParts
      <3>1. PICK u \in bursts : t = [u EXCEPT !.from = @ - 1, !.to = @ - 1]
        BY <2>1, <3>0
      <3>2. /\ u \in BurstType /\ Passes(u, "rank", rank) /\ Passes(u, "peer", peer) /\ u.from < u.to
        BY DEF TypeOK, BusFits
      <3>3. t \in BurstType /\ t.who = u.who /\ t.from = u.from - 1 /\ t.to = u.to - 1
            /\ u.from \in Int /\ u.to \in Int
        <4>1. u.who \in {"rank", "peer"} /\ u.from \in Int /\ u.to \in Int
          BY <3>2 DEF BurstType
        <4>2. u.from - 1 \in Int /\ u.to - 1 \in Int
          BY <4>1
        <4>3. t = [who |-> u.who, from |-> u.from - 1, to |-> u.to - 1]
          BY <3>1, <3>2 DEF BurstType
        <4> QED
          BY <4>1, <4>2, <4>3 DEF BurstType
      <3>4. Rest(t, "rank") = Rest(u, "rank") /\ Rest(t, "peer") = Rest(u, "peer")
            /\ Rest(u, "rank") \in Int /\ Rest(u, "peer") \in Int
        BY <3>3, Times DEF Rest, Earlier
      <3>5. /\ rank.nextRead \in Nat /\ rank.nextWrite \in Nat
            /\ peer.nextRead \in Nat /\ peer.nextWrite \in Nat
        BY RankTyping
      <3>6. /\ rank'.nextRead = Less(rank.nextRead) /\ rank'.nextWrite = Less(rank.nextWrite)
            /\ peer'.nextRead = Less(peer.nextRead) /\ peer'.nextWrite = Less(peer.nextWrite)
        BY CycleParts
      <3>7. Passes(t, "rank", rank')
        BY <3>2, <3>3, <3>4, <3>5, <3>6, Times DEF Passes, Less
      <3>8. Passes(t, "peer", peer')
        BY <3>2, <3>3, <3>4, <3>5, <3>6, Times DEF Passes, Less
      <3>9. ASSUME t.who = "rank"
            PROVE  \E b \in Banks : t.to <= array'[b].nextPowerDown
        <4>1. PICK b \in Banks : u.to <= array[b].nextPowerDown
          BY <3>3, <3>9 DEF BusFits
        <4>2. array'[b].nextPowerDown = Less(array[b].nextPowerDown) /\ array[b].nextPowerDown \in Nat
          BY <1>2
        <4>3. t.to <= array'[b].nextPowerDown
          BY <3>3, <4>1, <4>2 DEF Less
        <4> QED
          BY <4>3
      <3>10. t.from < t.to
        BY <3>2, <3>3
      <3>11. Passes(t, "rank", rank)' /\ Passes(t, "peer", peer)'
        BY <3>7, <3>8 DEF Passes, Rest
      <3> QED
        BY <3>3, <3>9, <3>10, <3>11
    <2> QED
      BY <2>1 DEF BusFits
  <1>9. broken' = {}
    BY <1>1, CycleParts
  <1>10. rankEvents' \subseteq Nat \ {0}
    <2> SUFFICES ASSUME NEW n \in rankEvents'
                 PROVE  n \in Nat \ {0}
      OBVIOUS
    <2>0. rankEvents' = {t - 1 : t \in rankEvents \ {1}}
      BY CycleParts
    <2>1. PICK t \in rankEvents \ {1} : n = t - 1
      BY <2>0
    <2>2. t \in Nat \ {0}
      BY DEF TypeOK
    <2> QED
      BY <2>1, <2>2
  <1>11. TypeOK'
    <2>1. \A b \in Banks : array'[b] \in ArrayType /\ bank'[b] \in BankType
      BY <1>1 DEF OneBank
    <2>2. array' \in [Banks -> ArrayType] /\ bank' \in [Banks -> BankType]
      BY <2>1, CycleParts
    <2> QED
      BY <1>8, <1>10, <2>2, CycleParts DEF TypeOK
  <1> QED
    BY <1>4, <1>5, <1>6, <1>7, <1>8, <1>9, <1>11 DEF IInv
-----------------------------------------------------------------------------
(* Every behaviour.                                                        *)

LEMMA InitBanks ==
    ASSUME Init, NEW b \in Banks
    PROVE  BankInv(b) /\ RankWaits(b) /\ array[b] \in ArrayType /\ bank[b] \in BankType
  <1>1. array[b] = [state |-> "CLOSED", nextRead |-> 0, nextWrite |-> 0, nextActivate |-> 0,
                    nextPrecharge |-> 0, nextPowerDown |-> 0, writing |-> 0, events |-> {}]
    BY DEF Init
  <1>2. bank[b] = [state |-> "CLOSED", nextRead |-> 0, nextWrite |-> 0, nextActivate |-> 0,
                   nextPrecharge |-> 0, nextPowerDown |-> 0, nextPowerUp |-> 0]
    BY DEF Init
  <1>3. age.of[b] = Horizon
    BY DEF Init
  <1>4. age.up = tXPDLL /\ age.down = tPD /\ age.slow = FALSE
    BY DEF Init
  <1>5. rank.nextActivate = 0 /\ rank.nextRead = 0 /\ rank.nextWrite = 0
    BY DEF Init
  <1>6. array[b] \in ArrayType /\ bank[b] \in BankType /\ age.of[b] \in [Kinds -> Nat]
    BY <1>1, <1>2, <1>3, Horizons DEF ArrayType, ArrayStates, BankType, BankStates
  <1>7. ArrayWaits(array[b], age.of[b])
    <2> DEFINE a == array[b]
               g == age.of[b]
    <2>1. a.nextRead = 0 /\ a.nextWrite = 0 /\ a.nextActivate = 0 /\ a.nextPrecharge = 0
          /\ a.nextPowerDown = 0 /\ g = Horizon
      BY <1>1, <1>3
    <2> HIDE DEF a, g
    <2>2. ArrayWaits(a, g)
      BY <2>1, Horizons, Times, Sums DEF ArrayWaits
    <2> QED
      BY <2>2 DEF a, g
  <1>8. EventsFit(array[b], age.of[b])
    BY <1>1, <1>3, Horizons, Times DEF EventsFit, Plain
  <1>9. BankFits(array[b], bank[b], age.of[b])
    BY <1>1, <1>2, <1>3, Horizons, Times DEF BankFits, Plain, PowerDowns, Later
  <1>10. PowerWaits(bank[b])
    BY <1>2, <1>4, Times DEF PowerWaits
  <1>11. RankWaits(b)
    BY <1>3, <1>5, Horizons, Times, Sums DEF RankWaits
  <1> QED
    BY <1>6, <1>7, <1>8, <1>9, <1>10, <1>11 DEF BankInv, OneBank

LEMMA InitHolds == Init => IInv
  <1> SUFFICES ASSUME Init
               PROVE  IInv
    OBVIOUS
  <1>1. \A b \in Banks : BankInv(b) /\ RankWaits(b)
    BY InitBanks
  <1>2. TypeOK
    <2>1. array \in [Banks -> ArrayType] /\ bank \in [Banks -> BankType]
      <3>1. /\ array = [b \in Banks |-> array[b]]
            /\ bank = [b \in Banks |-> bank[b]]
        BY DEF Init
      <3>2. \A b \in Banks : array[b] \in ArrayType /\ bank[b] \in BankType
        BY InitBanks
      <3> QED
        BY <3>1, <3>2
    <2>2. rank \in RankType
      <3>1. [i \in 0 .. rawNum - 1 |-> 0] \in [0 .. rawNum - 1 -> Nat]
        OBVIOUS
      <3>2. 0 \in 0 .. rawNum - 1
        BY Counts
      <3> QED
        BY <3>1, <3>2 DEF Init, RankType, RankStates
    <2>3. age \in AgeType
      <3>1. [b \in Banks |-> Horizon] \in [Banks -> [Kinds -> Nat]]
        BY Horizons
      <3>2. [i \in 1 .. rawNum |-> tRAW] \in [1 .. rawNum -> Nat]
        BY Times
      <3> QED
        BY <3>1, <3>2, Times DEF Init, AgeType
    <2> QED
      BY <2>1, <2>2, <2>3 DEF Init, TypeOK, PeerType
  <1>3. RingIsRight
    <2>1. ASSUME NEW i \in 1 .. rawNum
          PROVE  age.acts[i] >= rank.lastActivate[Slot(i)]
      <3>1. age.acts[i] = tRAW
        BY DEF Init
      <3>2. rank.RAWindex = 0
        BY DEF Init
      <3>3. Slot(i) \in 0 .. rawNum - 1
        BY <3>2, Counts DEF Slot
      <3>4. rank.lastActivate = [j \in 0 .. rawNum - 1 |-> 0]
        BY DEF Init
      <3> QED
        BY <3>1, <3>3, <3>4, Times
    <2> QED
      BY <2>1 DEF RingIsRight
  <1>4. PowerFits
    <2>1. rank.state = "CLOSED" /\ rankEvents = {}
      BY DEF Init
    <2>2. \A b \in Banks : bank[b].state = "CLOSED" /\ bank[b].nextPowerUp = 0 /\ array[b].state = "CLOSED"
      BY DEF Init
    <2> QED
      BY <2>1, <2>2 DEF PowerFits, PowerDowns, RankIdle, Closing
  <1>5. BusFits /\ broken = {}
    BY DEF Init, BusFits
  <1> QED
    BY <1>1, <1>2, <1>3, <1>4, <1>5 DEF IInv

LEMMA NextKeeps == IInv /\ [Next]_vars => IInv'
  <1> SUFFICES ASSUME IInv, [Next]_vars
               PROVE  IInv'
    OBVIOUS
  <1>1. ASSUME NEW b \in Banks, Activate(b)
        PROVE  IInv'
    BY <1>1, ActivateStep
  <1>2. ASSUME NEW op \in Columns, NEW b \in Banks, Column(op, b)
        PROVE  IInv'
    BY <1>2, ColumnStep
  <1>3. ASSUME NEW b \in Banks, Precharge(b)
        PROVE  IInv'
    BY <1>3, PrechargeStep
  <1>4. ASSUME NEW head \in {b \in Banks : b % banksPerRefresh = 0}, Refresh(head)
        PROVE  IInv'
    BY <1>4, RefreshStep
  <1>5. ASSUME NEW op \in PowerDowns, PowerDown(op)
        PROVE  IInv'
    BY <1>5, PowerDownStep
  <1>6. CASE PowerUp
    BY <1>6, PowerUpStep
  <1>7. ASSUME NEW op \in {"READ", "WRITE"}, PeerColumn(op)
        PROVE  IInv'
    BY <1>7, PeerColumnStep
  <1>8. CASE Cycle
    BY <1>8, CycleStep
  <1>9. CASE UNCHANGED vars
    BY <1>9 DEF vars, IInv, TypeOK, BankInv, PowerWaits, RankWaits, RingIsRight, Slot, PowerFits, RankIdle,
                BusFits, Passes
  <1> QED
    BY <1>1, <1>2, <1>3, <1>4, <1>5, <1>6, <1>7, <1>8, <1>9 DEF Next

LEMMA LevelsFit == IInv => LevelsAgree
  <1> SUFFICES ASSUME IInv
               PROVE  LevelsAgree
    OBVIOUS
  <1> USE IInvParts
  <1> DEFINE down == {b \in Banks : bank[b].state \in PowerDowns}
  <1>1. \A b \in Banks : bank[b].state \in PowerDowns <=> rank.state \in PowerDowns
    BY DEF PowerFits
  <1>2. (down # {} => down = Banks /\ rank.state \in PowerDowns) /\ (rank.state \in PowerDowns => down = Banks)
    BY <1>1
  <1>3. ASSUME NEW b \in Banks, bank[b].state \in PowerDowns
        PROVE  /\ array[b].events = {} /\ array[b].writing = 0 /\ array[b].nextPowerDown = 0
               /\ array[b].state = (IF bank[b].state = "PDA" THEN "OPEN" ELSE "CLOSED")
    <2>1. BankFits(array[b], bank[b], age.of[b]) /\ EventsFit(array[b], age.of[b])
      BY Unfolded
    <2>2. array[b].events = {} /\ array[b].writing = 0 /\ array[b].nextPowerDown = 0
      BY <1>3, <2>1 DEF BankFits
    <2>3. bank[b].state = "PDA" <=> Plain(array[b])
      BY <1>3, <2>1 DEF BankFits, PowerDowns
    <2>4. array[b].state \in {"OPEN", "CLOSED"}
      BY <2>1, <2>2 DEF EventsFit
    <2> QED
      BY <2>2, <2>3, <2>4 DEF Plain
  <1>4. ASSUME down # {}, NEW t \in bursts, t.who = "rank"
        PROVE  t.to <= 0
    <2>1. PICK b \in Banks : t.to <= array[b].nextPowerDown
      BY <1>4 DEF BusFits
    <2>2. bank[b].state \in PowerDowns
      BY <1>2, <1>4
    <2> QED
      BY <1>3, <2>1, <2>2
  <1>5. ASSUME NEW b \in Banks, NEW c \in Banks
        PROVE  BankIssuable("UP", b) <=> BankIssuable("UP", c)
    <2>1. bank[b].nextPowerUp = bank[c].nextPowerUp
      BY DEF PowerFits
    <2> QED
      BY <1>1, <2>1, IssuableForPowerUp
  <1>6. PowerStatesAgree
    <2> HIDE DEF down
    <2>1. down # {} => /\ down = Banks /\ rank.state \in PowerDowns
                       /\ \A b \in Banks : /\ array[b].events = {} /\ array[b].writing = 0
                                           /\ array[b].state = (IF bank[b].state = "PDA" THEN "OPEN" ELSE "CLOSED")
                       /\ \A t \in bursts : t.who = "rank" => t.to <= 0
      BY <1>1, <1>2, <1>3, <1>4
    <2> QED
      BY <1>2, <1>5, <2>1 DEF PowerStatesAgree, down
  <1>7. ClosedRankIsClosed
    BY DEF PowerFits, ClosedRankIsClosed
  <1> QED
    BY <1>6, <1>7 DEF LevelsAgree

LEMMA AlwaysIInv == Spec => []IInv
  BY InitHolds, NextKeeps, PTL DEF Spec

\* The windows, the ring of activations and the counts of the three levels stay what their
\* classes declare, and an index into the ring stays within it (StandardRank.cpp:280).
THEOREM RankIsTyped == Spec => []TypeOK
  <1>1. IInv => TypeOK
    BY DEF IInv
  <1> QED
    BY <1>1, AlwaysIInv, PTL

\* Whatever the banks, the ring and the timing parameters: a command that the rank, its bank and
\* the array let through (StandardRank.cpp:625, DDR3Bank.cpp:714, SubArray.cpp:1114) breaks no
\* timing rule of the device, and its data meet no other burst on the bus.
THEOREM DeviceAcceptsEverything == Spec => []DeviceAccepts
  <1>1. IInv => DeviceAccepts
    BY DEF IInv, DeviceAccepts
  <1> QED
    BY <1>1, AlwaysIInv, PTL

\* Rank, banks and arrays agree on what is down and what is closed: the banks of a rank power up
\* in the same cycle (the assertion of StandardRank.cpp:518), and a rank that says it is closed
\* has no open row (StandardRank.h:65).
THEOREM LevelsAlwaysAgree == Spec => []LevelsAgree
  BY AlwaysIInv, LevelsFit, PTL
=============================================================================
