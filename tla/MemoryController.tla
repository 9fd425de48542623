-------------------------- MODULE MemoryController --------------------------
(***************************************************************************)
(* One channel of NVmain: a scheduler (FRFCFS, FCFS or FRFCFS-WQF in       *)
(* MemControl) and the memory controller under it (MemoryController.cpp),  *)
(* the event queue that wakes them (src/EventQueue.cpp), and the banks and *)
(* subarrays that take the commands (DDR3Bank.cpp, SubArray.cpp).  A front *)
(* end submits requests and runs the event queue until all are served.     *)
(*                                                                         *)
(* All times are relative to the current cycle.  A handler is a function   *)
(* on the state of the channel, composed as the calls of the code are.     *)
(***************************************************************************)
EXTENDS EventQueue, FiniteSets

CONSTANTS
    Req,          \* 1..n, the requests of the trace in its order
    Bank,         \* 0..(BANKS-1), of one rank
    SubArray,     \* 0..(subArrayNum-1)
    Row,          \* 0..(ROWS-1), the rows of a subarray
    Address,      \* the [bank, sa, row] the trace uses
    Params,       \* the configurations, each with the kinds of requests of its trace
    QueueSize,    \* transactions the scheduler holds, in each of its queues
    EndsInDrain,  \* whether the trace may end while FRFCFS-WQF drains its writes
    DelayedRefreshThreshold,
    Horizon,      \* bound: the longest of the delays below but tREFI
    tRCD, tRAS, tCCD, tRTP, tRP, tCAS, tRFC, tREFI

BANKS == Cardinality(Bank)
subArrayNum == Cardinality(SubArray)
ROWS == Cardinality(Row)     \* also the invalid row

ASSUME ConfigAssumption ==
    /\ Bank = 0..(BANKS - 1) /\ SubArray = 0..(subArrayNum - 1)
    /\ Req = 1..Cardinality(Req) /\ Row = 0..(ROWS - 1)
    /\ Address \subseteq [bank : Bank, sa : SubArray, row : Row]
    /\ Params \subseteq [queueModel : {"PerRank", "PerBank", "PerSubArray"},
                         closePage : 0..2, UsePrecharge : BOOLEAN,
                         StarvationThreshold : Nat,
                         BanksPerRefresh : {n \in 1..BANKS : BANKS % n = 0},
                         scheduler : {"FRFCFS", "FCFS", "FRFCFS-WQF"},
                         HighWaterMark : 1..QueueSize, LowWaterMark : 0..QueueSize,
                         trace : SUBSET [at : Address, write : BOOLEAN]]
    /\ \A c \in Params : c.LowWaterMark < c.HighWaterMark
    /\ EndsInDrain \in BOOLEAN
    /\ \A S \in {Bank, SubArray, Row, Req} : IsFiniteSet(S)
    /\ \A S \in {Bank, SubArray, Row} : S # {}
    /\ QueueSize \in Nat /\ DelayedRefreshThreshold \in Nat \ {0}
    /\ \A t \in {tRCD, tRAS, tCCD, tRTP, tRP, tRTP + tRP, tCAS, tRFC} : t \in 1..Horizon
    /\ Horizon \in Nat /\ tREFI \in Nat /\ tREFI > Horizon

VARIABLES
    p,            \* the configuration
    address,      \* the addresses of the requests submitted so far
    refreshIn,    \* bank group -> cycles until its next pulse is Horizon cycles away
    ch            \* the channel: controller, banks and event queue

vars == <<p, address, refreshIn, ch>>

None == 0

\* The members of a set of numbers, from the least.
Ordered(S) ==
    [k \in 1..Cardinality(S) |-> CHOOSE i \in S : Cardinality({j \in S : j < i}) = k - 1]

\* A command: READ stands for WRITE too, which takes the same way.
Command == [op : {"ACTIVATE", "READ", "READ_PRECHARGE", "PRECHARGE", "PRECHARGE_ALL", "REFRESH"},
            of : Req \cup {None}, at : [bank : Bank, sa : SubArray, row : 0..ROWS],
            issued : BOOLEAN]
Cmd(op, of, at) == [op |-> op, of |-> of, at |-> at, issued |-> FALSE]

-----------------------------------------------------------------------------
(* Queues and refresh groups.                                              *)

commandQueueCount ==
    CASE p.queueModel = "PerRank" -> 1
      [] p.queueModel = "PerBank" -> BANKS
      [] p.queueModel = "PerSubArray" -> BANKS * subArrayNum

GetCommandQueueId(b, sa) ==
    CASE p.queueModel = "PerRank" -> 0
      [] p.queueModel = "PerBank" -> b
      [] p.queueModel = "PerSubArray" -> b * subArrayNum + sa

Queues == 0..(commandQueueCount - 1)
QueueOf(r) == GetCommandQueueId(address[r].bank, address[r].sa)

\* A bank group is named by its first bank.
BankHead(b) == (b \div p.BanksPerRefresh) * p.BanksPerRefresh
Group(b) == {c \in Bank : BankHead(c) = BankHead(b)}
Groups == {BankHead(b) : b \in Bank}

\* SetConfig spreads the groups' refreshes over tREFI.
Stagger(g) == (g \div p.BanksPerRefresh) * (tREFI \div Cardinality(Groups))

\* bankNeedRefresh is set and reset along with this condition.
NeedRefresh(s, b) == s.refreshCounter[BankHead(b)] >= DelayedRefreshThreshold

EffectivelyEmpty(s, q) ==
    \/ s.cq[q] = <<>>
    \/ Len(s.cq[q]) = 1 /\ s.cq[q][1].issued

TransactionAvailable(s, q) ==
    \E i \in 1..Len(s.tq) : QueueOf(s.tq[i]) = q

-----------------------------------------------------------------------------
(* Banks and subarrays: when a command can be issued, and what it does.    *)

At(a) == <<a.bank, a.sa>>

IsIssuable(s, c) ==
    LET here == s.array[At(c.at)]
    IN  CASE c.op = "ACTIVATE" ->
               here.nextActivate = 0 /\ (p.UsePrecharge => here.state = "closed")
          [] c.op \in {"READ", "READ_PRECHARGE"} ->
               /\ s.active[c.at.bank] # {}
               /\ here.nextRead = 0 /\ here.state = "open" /\ here.row = c.at.row
          [] c.op = "PRECHARGE" ->
               here.nextPrecharge = 0 /\ here.state \in {"open", "closed"}
          [] c.op = "PRECHARGE_ALL" ->
               \A sa \in s.active[c.at.bank] :
                   /\ s.array[c.at.bank, sa].nextPrecharge = 0
                   /\ s.array[c.at.bank, sa].state \in {"open", "closed"}
          [] c.op = "REFRESH" ->
               \A b \in Group(c.at.bank) :
                   /\ s.array[b, 0].nextActivate = 0
                   /\ p.UsePrecharge => s.array[b, 0].state = "closed"

\* When a subarray takes the command at the earliest; 0 for the ones it does not know.
NextIssuableOf(s, c) ==
    LET here == s.array[At(c.at)]
    IN  CASE c.op = "ACTIVATE" -> here.nextActivate
          [] c.op = "READ" -> here.nextRead
          [] c.op = "PRECHARGE" -> here.nextPrecharge
          [] OTHER -> 0

MAX(m, n) == IF m >= n THEN m ELSE n

\* A subarray after it took a command.
Opened(here, row) ==
    [here EXCEPT !.state = "open", !.row = row,
                 !.nextPrecharge = MAX(@, MAX(tRCD, tRAS)), !.nextRead = MAX(@, tRCD)]
HasRead(here) == [here EXCEPT !.nextPrecharge = MAX(@, tRTP), !.nextRead = MAX(@, tCCD)]
HasReadAndCloses(here) ==
    LET next == MAX(here.nextActivate, tRTP + tRP)
    IN  [here EXCEPT !.nextActivate = next, !.nextPrecharge = MAX(@, next), !.nextRead = MAX(@, next)]
Closing(here) ==
    [here EXCEPT !.state = "precharging", !.nextActivate = MAX(@, MAX(1, tRP))]
Refreshing(here) == [here EXCEPT !.state = "refreshing", !.nextActivate = MAX(@, tRFC)]

Activate(s, c) ==
    [s EXCEPT !.array[At(c.at)] = Opened(@, c.at.row),
              !.active[c.at.bank] = @ \cup {c.at.sa}]

\* The data is back after tCAS; an implicit precharge starts after tRTP.
Read(s, c) ==
    IF c.op = "READ_PRECHARGE"
    THEN [s EXCEPT !.array[At(c.at)] = HasReadAndCloses(@),
                   !.active[c.at.bank] = @ \ {c.at.sa},
                   !.calendar = InsertEvent(
                       InsertEvent(@, "implicitPrecharge", At(c.at), tRTP, 0),
                       "response", c.of, tCAS, 0)]
    ELSE [s EXCEPT !.array[At(c.at)] = HasRead(@),
                   !.calendar = InsertEvent(@, "response", c.of, tCAS, 0)]

\* Some subarrays of a bank start to close.
Precharge(s, b, closing) ==
    [s EXCEPT !.array = [a \in Bank \X SubArray |->
                           IF a[1] = b /\ a[2] \in closing THEN Closing(@[a]) ELSE @[a]],
              !.active[b] = @ \ closing,
              !.calendar = InsertEvents(@, "closed",
                             [k \in DOMAIN Ordered(closing) |-> <<b, Ordered(closing)[k]>>],
                             MAX(1, tRP), 0)]

\* Only the first subarray of a bank is refreshed.
Refresh(s, group) ==
    [s EXCEPT !.array = [a \in Bank \X SubArray |->
                           IF a[1] \in group /\ a[2] = 0 THEN Refreshing(@[a]) ELSE @[a]],
              !.calendar = InsertEvents(@, "refreshed",
                             [k \in DOMAIN Ordered(group) |-> <<Ordered(group)[k], 0>>], tRFC, 0)]

\* DDR3Bank closes, for PRECHARGE_ALL, the subarrays it has seen activated.
IssueCommand(s, c) ==
    CASE c.op = "ACTIVATE" -> Activate(s, c)
      [] c.op \in {"READ", "READ_PRECHARGE"} -> Read(s, c)
      [] c.op = "PRECHARGE" -> Precharge(s, c.at.bank, {c.at.sa})
      [] c.op = "PRECHARGE_ALL" -> Precharge(s, c.at.bank, s.active[c.at.bank])
      [] c.op = "REFRESH" -> Refresh(s, Group(c.at.bank))

-----------------------------------------------------------------------------
(* Waking up and issuing.                                                  *)

Never == -1

\* The next time a command can be issued, at least one cycle ahead.  It looks at the
\* queue of every bank's subarray 0.  HandleRefresh, which it calls when a group needs a
\* refresh, is never called here: RefreshIsPrompt.
NextIssuable(s) ==
    LET queued == {q \in {GetCommandQueueId(b, 0) : b \in Bank} : s.cq[q] # <<>>}
        times == {NextIssuableOf(s, s.cq[q][1]) : q \in queued}
    IN  IF queued = {} THEN Never
        ELSE MAX(1, CHOOSE t \in times : \A u \in times : t <= u)

ScheduleCommandWake(s) ==
    LET when == NextIssuable(s)
    IN  IF when = Never \/ Scheduled(s.calendar, "CommandQueueCallback", when) THEN s
        ELSE [s EXCEPT !.calendar = InsertCallback(@, "CommandQueueCallback", None, when,
                                                   commandQueuePriority)]

\* ResetRefreshQueued, once a REFRESH has gone to its bank group; as a bug: to the head only.
RefreshDoneHead(queued, c) ==
    [b \in Bank |-> queued[b] /\ ~(c.op = "REFRESH" /\ b = c.at.bank)]
RefreshDone(queued, c) ==
    [b \in Bank |-> queued[b] /\ ~(c.op = "REFRESH" /\ b \in Group(c.at.bank))]

\* The queue to begin with next time: after the last comes one that stands for the first too,
\* since the code's reset comes one late.
MoveCurrentQueue(q) == IF q + 1 > commandQueueCount THEN 0 ELSE q + 1

\* Issuing the head of queue q.
IssueHead(s, q) ==
    LET c == s.cq[q][1]
        t == IssueCommand(s, c)
        cleaned == IF Scheduled(t.calendar, "CleanupCallback", 1) THEN t.calendar
                   ELSE InsertCallback(t.calendar, "CleanupCallback", None, 1, cleanupPriority)
        last == Len(s.cq[q]) = 1 /\ TransactionAvailable(s, q)
    IN  [t EXCEPT
           !.cq[q][1].issued = TRUE,
           !.refreshQueued = RefreshDone(@, c),
           !.issuedNow = TRUE,
           !.curQueue = MoveCurrentQueue(@),
           !.calendar = IF last THEN InsertEvent(cleaned, "Cycle", None, 1, transactionQueuePriority)
                        ELSE cleaned]

\* One command a cycle, from the first queue after curQueue whose head can go.
CycleCommandQueues(s) ==
    LET ready == {k \in Queues :
                    LET q == (s.curQueue + k) % commandQueueCount
                    IN  s.cq[q] # <<>> /\ IsIssuable(s, s.cq[q][1])}
    IN  IF s.refreshedNow \/ s.issuedNow \/ ready = {} THEN s
        ELSE LET k == CHOOSE k \in ready : \A l \in ready : k <= l
             IN  IssueHead(s, (s.curQueue + k) % commandQueueCount)

\* As bugs: a wake that is not followed by another, a cleanup that does not look at flags.
IssueOnly(s) == CycleCommandQueues(s)
DropHeads(s) == [s EXCEPT !.cq = [q \in Queues |-> IF @[q] = <<>> THEN <<>> ELSE Tail(@[q])]]

CommandQueueCallback(s) == CycleCommandQueues(ScheduleCommandWake(s))

\* The commands of a queue that are not issued.
Unissued(queue) ==
    LET kept == Ordered({i \in DOMAIN queue : ~queue[i].issued})
    IN  [k \in DOMAIN kept |-> queue[kept[k]]]

CleanupCallback(s) == [s EXCEPT !.cq = [q \in Queues |-> Unissued(@[q])]]

-----------------------------------------------------------------------------
(* The scheduler.                                                          *)

\* What all Find* functions ask of a transaction.  FCFS leaves arrivalCycle at 0.
Schedulable(s, r) ==
    LET b == address[r].bank
    IN  /\ s.cq[QueueOf(r)] = <<>>
        /\ ~NeedRefresh(s, b) /\ ~s.refreshQueued[b]
        /\ IF p.scheduler = "FCFS" THEN s.started ELSE r \notin s.arrived

EffectiveRow(s, r) == s.effectiveRow[At(address[r])]
RowHit(s, r) == s.activateQueued[address[r].bank] /\ EffectiveRow(s, r) = address[r].row

Starved(s, r) ==
    /\ s.activateQueued[address[r].bank] /\ EffectiveRow(s, r) # address[r].row
    /\ s.starvation[At(address[r])] >= p.StarvationThreshold

\* The loops over a queue stop at the first transaction they can take; as a bug: at the last.
Newest(class) == CHOOSE i \in class : \A j \in class : i >= j
Oldest(class) == CHOOSE i \in class : \A j \in class : i <= j

\* The position of the first of a queue's transactions that satisfy the first condition any of
\* them does; FCFS has only the last two conditions.
FindRequest(s, queue) ==
    LET able == {i \in queue : Schedulable(s, s.tq[i])}
        open == {i \in able : s.activateQueued[address[s.tq[i]].bank]}
        hits == {i \in able : p.scheduler # "FCFS" /\ RowHit(s, s.tq[i])}
        starved == {i \in able : p.scheduler # "FCFS" /\ Starved(s, s.tq[i])}
        class == IF starved # {} THEN starved ELSE IF hits # {} THEN hits
                 ELSE IF open # {} THEN open ELSE able
    IN  IF class = {} THEN None ELSE Oldest(class)

\* A queue is the positions of its transactions in tq, the order of their arrival.  FRFCFS-WQF
\* keeps reads and writes in a queue each, the others all in one.
readQueue(s) == {i \in DOMAIN s.tq : s.tq[i] \notin s.writes}
writeQueue(s) == {i \in DOMAIN s.tq : s.tq[i] \in s.writes}

\* `rest' are the other transactions of the queue.
IsLastRequest(s, rest, r) ==
    CASE p.closePage = 0 -> FALSE
      [] p.closePage = 1 -> \A i \in rest : address[s.tq[i]] # address[r]
      [] p.closePage = 2 -> TRUE

\* Row hits since the row was opened; the model stops counting at the threshold, beyond which
\* the code only compares.
CountHit(n) == IF n < p.StarvationThreshold THEN n + 1 ELSE n

\* The commands of transaction r, by the state its bank will be in, and that state after them.
IssueMemoryCommands(s, r, last) ==
    LET at == address[r]
        q == QueueOf(r)
        a == At(at)
        closes == last /\ p.UsePrecharge
        column == Cmd(IF closes THEN "READ_PRECHARGE" ELSE "READ", r, at)
        closed == ~s.activateQueued[at.bank]
        miss == ~closed /\ s.effectiveRow[a] # at.row
        precharge == IF s.effectiveRow[a] # ROWS /\ p.UsePrecharge
                     THEN <<Cmd("PRECHARGE", None, [at EXCEPT !.row = s.effectiveRow[a]])>>
                     ELSE <<>>
        commands == IF closed THEN <<Cmd("ACTIVATE", r, at), column>>
                    ELSE IF miss THEN precharge \o <<Cmd("ACTIVATE", r, at), Cmd("READ", r, at)>>
                    ELSE <<column>>
        row == IF ~miss /\ closes THEN ROWS ELSE at.row
        rows == [s.effectiveRow EXCEPT ![a] = row]
    IN  ScheduleCommandWake(
          [s EXCEPT
             !.cq[q] = @ \o commands,
             !.effectiveRow = rows,
             !.activateQueued[at.bank] =
                 IF closed THEN ~closes
                 ELSE miss \/ ~closes \/ \E sa \in SubArray : rows[at.bank, sa] # ROWS,
             !.starvation[a] = IF closed \/ miss THEN 0
                               ELSE CountHit(@)])

\* As a bug: the scheduler is not called again.
NoRecheck(s) == s

\* MemoryController::Cycle: look again next cycle while something may be scheduled.
Recheck(s) ==
    IF /\ ~Scheduled(s.calendar, "Cycle", 1)
       /\ \E q \in Queues : EffectivelyEmpty(s, q) /\ TransactionAvailable(s, q)
    THEN [s EXCEPT !.calendar = InsertEvent(@, "Cycle", None, 1, transactionQueuePriority)]
    ELSE s

\* Take the transaction the scheduler finds in a queue.
ScheduleFrom(s, queue) ==
    LET i == FindRequest(s, queue)
    IN  IF i = None THEN s
        ELSE IssueMemoryCommands([s EXCEPT !.tq = RemoveAt(@, i)], s.tq[i],
                                 IsLastRequest(s, queue \ {i}, s.tq[i]))

\* FRFCFS-WQF turns to its writes at the high watermark, and back at the low one; not back once
\* the trace has ended.  As a bug: it never turns back.
NeverTurnsBack(s) ==
    [s EXCEPT !.draining = @ \/ (~s.force_drain /\ Cardinality(writeQueue(s)) >= p.HighWaterMark)]
SwitchDrain(s) ==
    [s EXCEPT !.draining =
        IF s.force_drain THEN @
        ELSE IF @ THEN Cardinality(writeQueue(s)) > p.LowWaterMark
        ELSE Cardinality(writeQueue(s)) >= p.HighWaterMark]

ScheduleDrain(s) ==
    LET t == SwitchDrain(s)
    IN  ScheduleFrom(t, IF t.draining \/ (t.force_drain /\ readQueue(t) = {})
                        THEN writeQueue(t) ELSE readQueue(t))

\* FRFCFS::Cycle and those of the others.
Cycle(s) ==
    Recheck(CycleCommandQueues(IF p.scheduler = "FRFCFS-WQF" THEN ScheduleDrain(s)
                               ELSE ScheduleFrom(s, DOMAIN s.tq)))

-----------------------------------------------------------------------------
(* Refresh.                                                                *)

\* The rows are forgotten in every subarray of a bank that is closed; as a bug: in the first.
ForgetFirst(rows, banks) ==
    [a \in Bank \X SubArray |-> IF a[1] \in banks /\ a[2] = 0 THEN ROWS ELSE rows[a]]
Forget(rows, banks) ==
    [a \in Bank \X SubArray |-> IF a[1] \in banks THEN ROWS ELSE rows[a]]

\* Queue the refresh of a group behind what its banks still have to do, closing them.
HandleRefresh(s, g) ==
    LET open == {b \in Group(g) : p.UsePrecharge /\ s.activateQueued[b]}
        where(b) == [bank |-> b, sa |-> 0, row |-> 0]
        closing(q) == Ordered({b \in open : GetCommandQueueId(b, 0) = q})
        precharges(q) ==
            [k \in DOMAIN closing(q) |-> Cmd("PRECHARGE_ALL", None, where(closing(q)[k]))]
        refresh(q) ==
            IF q = GetCommandQueueId(g, 0) THEN <<Cmd("REFRESH", None, where(g))>> ELSE <<>>
    IN  ScheduleCommandWake(
          [s EXCEPT
             !.cq = [q \in Queues |-> @[q] \o precharges(q) \o refresh(q)],
             !.activateQueued = [b \in Bank |-> @[b] /\ b \notin open],
             !.effectiveRow = Forget(@, open),
             !.refreshQueued = [b \in Bank |-> @[b] \/ b \in Group(g)],
             !.refreshCounter[g] = @ - 1,
             !.refreshedNow = TRUE])

RefreshCallback(s, g) ==
    LET counted == [s EXCEPT !.refreshCounter[g] = @ + 1]
    IN  IF NeedRefresh(counted, g) THEN HandleRefresh(counted, g) ELSE counted

-----------------------------------------------------------------------------
(* The front end and the event loop.                                       *)

Init ==
    /\ p \in Params
    /\ address = <<>>
    /\ refreshIn = [g \in Groups |-> tREFI + Stagger(g) - Horizon]
    /\ ch = [served |-> {}, arrived |-> {}, writes |-> {}, tq |-> <<>>,
             draining |-> FALSE, force_drain |-> FALSE, started |-> FALSE, cq |-> [q \in Queues |-> <<>>],
             activateQueued |-> [b \in Bank |-> FALSE],
             effectiveRow |-> [a \in Bank \X SubArray |-> ROWS],
             starvation |-> [a \in Bank \X SubArray |-> 0],
             refreshQueued |-> [b \in Bank |-> FALSE],
             refreshCounter |-> [g \in Groups |-> 0],
             issuedNow |-> TRUE,        \* lastIssueCycle = 0, and so is the clock
             refreshedNow |-> FALSE, curQueue |-> 0,
             active |-> [b \in Bank |-> {}],
             array |-> [a \in Bank \X SubArray |->
                          [state |-> "closed", row |-> 0,
                           nextActivate |-> 0, nextRead |-> 0, nextPrecharge |-> 0]],
             calendar |-> [i \in 0..Horizon |-> <<>>]]

\* Whether the scheduler takes another request.
Accepts(write) ==
    CASE p.scheduler # "FRFCFS-WQF" -> Len(ch.tq) < QueueSize
      [] ~write -> Cardinality(readQueue(ch)) < QueueSize
      [] write -> Cardinality(writeQueue(ch)) < QueueSize /\ ~ch.draining /\ ~ch.force_drain

\* The front end goes on once the events of this cycle have run.
CycleIsOver == ch.calendar[0] = <<>> \/ ch.arrived # {}

\* A request of the trace: IssueCommand and Enqueue.
Submit ==
    /\ Len(address) < Cardinality(Req) /\ ~ch.force_drain
    /\ CycleIsOver
    /\ \E request \in p.trace :
         LET a == request.at
             q == GetCommandQueueId(a.bank, a.sa)
             r == Len(address) + 1
         IN
         /\ Accepts(request.write)
         /\ address' = Append(address, a)
         /\ ch' = [ch EXCEPT
                    !.arrived = @ \cup {r},
                    !.writes = IF request.write THEN @ \cup {r} ELSE @,
                    !.tq = Append(@, r),
                    !.calendar = IF EffectivelyEmpty(ch, q) /\ ~Scheduled(@, "Cycle", 0)
                                 THEN InsertEvent(@, "Cycle", None, 0, transactionQueuePriority)
                                 ELSE @]
    /\ UNCHANGED <<p, refreshIn>>

\* The trace ends, and traceMain calls Drain, which does something in FRFCFS-WQF only.
EndTrace ==
    /\ p.scheduler = "FRFCFS-WQF" /\ ~ch.force_drain
    /\ CycleIsOver
    /\ EndsInDrain \/ ~ch.draining
    /\ ch' = [ch EXCEPT !.force_drain = TRUE]
    /\ UNCHANGED <<p, address, refreshIn>>

\* Process() runs the next event of this cycle.
Running(kind) == ch.calendar[0] # <<>> /\ ch.calendar[0][1].kind = kind
About == ch.calendar[0][1].what
Popped == [ch EXCEPT !.calendar[0] = Tail(@)]
Handle(s) == ch' = s /\ UNCHANGED <<p, address, refreshIn>>

RunCycle == Running("Cycle") /\ Handle(Cycle(Popped))
RunCommandQueues == Running("CommandQueueCallback") /\ Handle(CommandQueueCallback(Popped))
RunCleanup == Running("CleanupCallback") /\ Handle(CleanupCallback(Popped))
RunRefresh == Running("RefreshCallback") /\ Handle(RefreshCallback(Popped, About))
RunResponse == Running("response") /\ Handle([Popped EXCEPT !.served = @ \cup {About}])
RunImplicitPrecharge ==
    /\ Running("implicitPrecharge")
    /\ Handle([Popped EXCEPT !.array[About].state = "precharging",
                             !.calendar = InsertEvent(@, "closed", About, tRP, 0)])
RunClosed ==
    /\ Running("closed")
    /\ Handle([Popped EXCEPT !.array[About] = [@ EXCEPT !.state = "closed", !.row = ROWS]])
RunRefreshed ==
    /\ Running("refreshed")
    /\ Handle([Popped EXCEPT !.array[About] =
                   IF p.UsePrecharge THEN [@ EXCEPT !.state = "closed", !.row = ROWS]
                   ELSE [@ EXCEPT !.state = "open"]])

RunEvent ==
    \/ RunCycle \/ RunCommandQueues \/ RunCleanup \/ RunRefresh
    \/ RunResponse \/ RunImplicitPrecharge \/ RunClosed \/ RunRefreshed

\* The next cycle.  A refresh pulse was put into the calendar tREFI before its time,
\* earlier than anything else of its cycle.
Less(n) == IF n = 0 THEN 0 ELSE n - 1
CycleLater(here) ==
    [here EXCEPT !.nextActivate = Less(@), !.nextRead = Less(@), !.nextPrecharge = Less(@)]
Due == {g \in Groups : refreshIn[g] = 1}
Pulse(g) == Callback("RefreshCallback", g, refreshPriority)
Tick ==
    /\ ch.calendar[0] = <<>>
    /\ refreshIn' = [g \in Groups |-> IF g \in Due THEN tREFI ELSE refreshIn[g] - 1]
    /\ ch' = [ch EXCEPT
                !.calendar = [i \in 0..Horizon |->
                                IF i < Horizon THEN @[i + 1]
                                ELSE [j \in 1..Cardinality(Due) |-> Pulse(Ordered(Due)[j])]],
                !.arrived = {}, !.started = TRUE, !.issuedNow = FALSE, !.refreshedNow = FALSE,
                !.array = [a \in Bank \X SubArray |-> CycleLater(@[a])]]
    /\ UNCHANGED <<p, address>>

Next == Submit \/ EndTrace \/ RunEvent \/ Tick
Spec == Init /\ [][Next]_vars

\* The front end runs the event queue, cycle after cycle, until its requests are served.
\* One of the two can always run and changes the state, Tick at least refreshIn, so this is
\* their weak fairness.
FairSpec == Spec /\ []<><<RunEvent \/ Tick>>_vars

-----------------------------------------------------------------------------
(* Properties.                                                             *)

\* The controller's tables and queues hold what the code puts there, and the round robin over
\* the command queues stays within one of their number.
TypeOK ==
    /\ p \in Params /\ address \in Seq(Address) /\ Len(address) <= Cardinality(Req)
    /\ ch.cq \in [Queues -> Seq(Command)] /\ ch.tq \in Seq(1..Len(address))
    /\ ch.activateQueued \in [Bank -> BOOLEAN] /\ ch.refreshQueued \in [Bank -> BOOLEAN]
    /\ ch.curQueue \in 0..commandQueueCount
    /\ ch.effectiveRow \in [Bank \X SubArray -> 0..ROWS]
    /\ ch.starvation \in [Bank \X SubArray -> 0..p.StarvationThreshold]

\* Whether a command that is still to be issued leaves another row open in a subarray, and which.
Moves(c, b, sa) ==
    /\ ~c.issued /\ c.at.bank = b
    /\ \/ c.op = "PRECHARGE_ALL"
       \/ c.at.sa = sa /\ c.op \in {"ACTIVATE", "READ_PRECHARGE", "PRECHARGE"}
Leaves(c) == IF c.op = "ACTIVATE" THEN c.at.row ELSE ROWS

\* The row of a subarray that has `open' open, after the first n commands of a queue.
RowAfter(queue, open, n, b, sa) ==
    LET moves == {i \in 1..n : Moves(queue[i], b, sa)}
    IN  IF moves = {} THEN open ELSE Leaves(queue[Newest(moves)])

\* Whether a command for the bank of a subarray fits the row that is open there.
Fits(c, sa, row) ==
    /\ c.op = "REFRESH" /\ sa = 0 /\ p.UsePrecharge => row = ROWS
    /\ c.op = "ACTIVATE" /\ c.at.sa = sa /\ p.UsePrecharge => row = ROWS
    /\ c.op \in {"READ", "READ_PRECHARGE", "PRECHARGE"} /\ c.at.sa = sa => row = c.at.row

\* A queue takes a subarray from one open row to another, and every command fits.
Leads(queue, open, row, b, sa) ==
    /\ \A i \in DOMAIN queue :
          ~queue[i].issued /\ queue[i].at.bank = b
            => Fits(queue[i], sa, RowAfter(queue, open, i - 1, b, sa))
    /\ RowAfter(queue, open, Len(queue), b, sa) = row

OpenRow(s, b, sa) == IF sa \in s.active[b] THEN s.array[b, sa].row ELSE ROWS

\* The rows the controller believes open (effectiveRow) are those the banks will have open when they
\* have carried out what is queued, and each of these commands fits the state it will
\* find: no command waits for a state that never comes.
RowsAgree ==
    \A b \in Bank, sa \in SubArray :
        Leads(ch.cq[GetCommandQueueId(b, sa)], OpenRow(ch, b, sa), ch.effectiveRow[b, sa], b, sa)

\* "Determine the next time we need to wakeup": at the end of a cycle, a queue whose head can
\* be issued is looked at in the next one, so no command is forgotten or late.
NoOversleep ==
    ch.calendar[0] = <<>> =>
        \A q \in Queues :
            (ch.cq[q] # <<>> /\ ~ch.cq[q][1].issued /\ IsIssuable(ch, ch.cq[q][1]))
              => Scheduled(ch.calendar, "CommandQueueCallback", 1) \/ Scheduled(ch.calendar, "Cycle", 1)

\* No group is left waiting for its refresh to be queued; a bank is closed to the scheduler
\* exactly while the refresh of its group is queued, so that ResetRefreshQueued's assert holds.
RefreshIsPrompt ==
    /\ \A b \in Bank : ~NeedRefresh(ch, b)
    /\ \A b \in Bank :
         ch.refreshQueued[b] <=>
             \E i \in 1..Len(ch.cq[GetCommandQueueId(BankHead(b), 0)]) :
                 LET c == ch.cq[GetCommandQueueId(BankHead(b), 0)][i]
                 IN  c.op = "REFRESH" /\ ~c.issued /\ c.at.bank = BankHead(b)

\* Where a request is: the transaction queue, a command queue, on its way back, served.
Reads == {"READ", "READ_PRECHARGE"}
Waiting(s, r) == {i \in DOMAIN s.tq : s.tq[i] = r}
Sent(s, r, q) ==
    {i \in DOMAIN s.cq[q] : s.cq[q][i].of = r /\ ~s.cq[q][i].issued /\ s.cq[q][i].op \in Reads}
Answered(s, r, i) ==
    {j \in DOMAIN s.calendar[i] : s.calendar[i][j].kind = "response" /\ s.calendar[i][j].what = r}
Places(s, r) ==
    ({"waiting"} \X {None} \X Waiting(s, r))
    \cup (UNION {{"sent"} \X {q} \X Sent(s, r, q) : q \in Queues})
    \cup (UNION {{"answered"} \X {i} \X Answered(s, r, i) : i \in 0..Horizon})
    \cup ({"served"} \X {None} \X (s.served \cap {r}))

\* Requests that the scheduler keeps in one queue.
Alike(s, q, r) == p.scheduler = "FRFCFS-WQF" => (q \in s.writes <=> r \in s.writes)

\* No request the scheduler accepted is lost, sent to a bank twice or answered twice; and however
\* row hits overtake others, those for the same row of one queue are answered as they came.
ServedOnce ==
    /\ \A r \in 1..Len(address) : Cardinality(Places(ch, r)) = 1
    /\ \A r \in ch.served : \A q \in 1..(r - 1) :
          address[q] = address[r] /\ Alike(ch, q, r) => q \in ch.served

\* Every request the scheduler accepts is served in the end, for traceMain waits for that; the
\* writes that FRFCFS-WQF keeps below its watermark at the latest when the trace has ended.
Awaited(r) == p.scheduler = "FRFCFS-WQF" /\ r \in ch.writes => ch.force_drain
RequestsDrain == []<>(\A r \in 1..Len(address) : Awaited(r) => r \in ch.served)

\* It turns back from its writes, so that others are taken: a stalled trace goes on.
TurnsBack == ch.draining ~> (~ch.draining \/ ch.force_drain)

\* Every refresh HandleRefresh queues is carried out and gives its banks back.
RefreshHappens == \A b \in Bank : ch.refreshQueued[b] ~> ~ch.refreshQueued[b]

\* The controller empties all it has taken on (traceMain.cpp:211).
Drains == RequestsDrain /\ TurnsBack /\ RefreshHappens
-----------------------------------------------------------------------------
(* The inductive invariants, for every value of the constants, in parts;   *)
(* MemoryControllerProof proves them.                                      *)

\* What the events of a subarray report, and what can be in a calendar, with the priority that
\* InsertEvent and InsertCallback store.
Closings == {"implicitPrecharge", "closed", "refreshed"}

Event ==
    [kind : {"response"}, what : Req, priority : {0}]
    \cup [kind : Closings, what : Bank \X SubArray, priority : {0}]
    \cup [kind : {"Cycle"}, what : {None}, priority : {0}]
    \cup [kind : {"CommandQueueCallback"}, what : {None}, priority : {commandQueuePriority}]
    \cup [kind : {"CleanupCallback"}, what : {None}, priority : {cleanupPriority}]
    \cup [kind : {"RefreshCallback"}, what : Groups, priority : {refreshPriority}]

\* A subarray, and a channel: TypeOK of all its fields, with the events.
ArrayState ==
    [state : {"closed", "open", "precharging", "refreshing"}, row : 0..ROWS,
     nextActivate : 0..Horizon, nextRead : 0..Horizon, nextPrecharge : 0..Horizon]

Channel ==
    [served : SUBSET Req, arrived : SUBSET Req, writes : SUBSET Req, tq : Seq(Req),
     draining : BOOLEAN, force_drain : BOOLEAN, started : BOOLEAN,
     cq : [Queues -> Seq(Command)],
     activateQueued : [Bank -> BOOLEAN], effectiveRow : [Bank \X SubArray -> 0..ROWS],
     starvation : [Bank \X SubArray -> Nat],
     refreshQueued : [Bank -> BOOLEAN], refreshCounter : [Groups -> Nat],
     issuedNow : BOOLEAN, refreshedNow : BOOLEAN, curQueue : 0..commandQueueCount,
     active : [Bank -> SUBSET SubArray], array : [Bank \X SubArray -> ArrayState],
     calendar : [0..Horizon -> Seq(Event)]]

\* The members of a sequence, and a relation that holds between all of them in their order.
Elems(list) == {list[i] : i \in DOMAIN list}
Pairs(list, R) == \A x, y \in DOMAIN list : x < y => <<list[x], list[y]>> \in R

\* The requests so far; those that a later one for the same row has to stay behind.
Known == 1..Len(address)
Precedes(s, q, r) == q < r /\ address[q] = address[r] /\ Alike(s, q, r)

\* The four stages of a request: waiting in the transaction queue, sent to a command queue in a
\* command that reads, answered by a response in the calendar, served.  Of two requests of one
\* row the earlier is never in an earlier stage.
Reading(c) == ~c.issued /\ c.op \in Reads
SentSet(s) == {r \in Known : \E q \in Queues : \E c \in Elems(s.cq[q]) : Reading(c) /\ c.of = r}
AnswerSet(s) == {r \in Known : \E i \in 0..Horizon : \E e \in Elems(s.calendar[i]) :
                    e.kind = "response" /\ e.what = r}

Stages(waiting, sent, answered, served) ==
    /\ waiting \cup sent \cup answered \cup served = Known
    /\ waiting \cap (sent \cup answered \cup served) = {}
    /\ sent \cap (answered \cup served) = {}
    /\ answered \cap served = {}
NoOvertaking(s, waiting, sent, served) ==
    \A q, r \in Known : Precedes(s, q, r) =>
        /\ q \in waiting => r \in waiting
        /\ q \in sent => r \in waiting \cup sent
        /\ r \in served => q \in served
InStages(s) ==
    /\ Stages(Elems(s.tq), SentSet(s), AnswerSet(s), s.served)
    /\ NoOvertaking(s, Elems(s.tq), SentSet(s), s.served)

Rising == {n \in Nat \X Nat : n[1] < n[2]}

\* What the controller puts into queue q, and what it means for two commands to be in one:
\* those that are issued come first, and no read is ahead of one it has to follow.
CommandFits(q, c) ==
    /\ q = GetCommandQueueId(c.at.bank, c.at.sa)
    /\ c.op \in Reads => c.of \in Known /\ c.at = address[c.of]
    /\ c.op \in {"ACTIVATE", "PRECHARGE"} \cup Reads => c.at.row # ROWS
    /\ c.op \in {"PRECHARGE", "PRECHARGE_ALL", "READ_PRECHARGE"} => p.UsePrecharge
    /\ c.op \in {"PRECHARGE_ALL", "REFRESH"} => c.at.sa = 0
    /\ c.op = "REFRESH" => c.at.bank \in Groups
CommandsFit(s) == \A q \in Queues : \A c \in Elems(s.cq[q]) : CommandFits(q, c)
CommandPairs(s) ==
    {c \in Command \X Command :
        /\ ~c[2].issued
        /\ Reading(c[1]) /\ Reading(c[2])
             => c[1].of # c[2].of /\ ~Precedes(s, c[2].of, c[1].of)}
QueuesSorted(s) ==
    /\ Pairs(s.tq, Rising)
    /\ \A q \in Queues : Pairs(s.cq[q], CommandPairs(s))

\* Responses are in the order of their requests, within a cycle and from cycle to cycle; a
\* cleanup is the first event of its cycle, which a priority of -10 makes it.
AnswerPairs(s) ==
    {e \in Event \X Event :
        e[1].kind = "response" /\ e[2].kind = "response" =>
            e[1].what # e[2].what /\ ~Precedes(s, e[2].what, e[1].what)}
CellPairs ==
    {e \in Event \X Event :
        /\ e[2].kind # "CleanupCallback"
        /\ e[2].kind = "response" => e[1].priority <= 0}
Sorted(calendar, R) ==
    /\ \A i \in 0..Horizon : Pairs(calendar[i], R)
    /\ \A i, j \in 0..Horizon : i < j =>
         \A e \in Elems(calendar[i]), f \in Elems(calendar[j]) : <<e, f>> \in R
AnswersSorted(s) ==
    /\ Sorted(s.calendar, AnswerPairs(s))
    /\ \A i \in 0..Horizon : Pairs(s.calendar[i], CellPairs)
    /\ \A i \in 0..Horizon : \A e \in Elems(s.calendar[i]) :
         e.kind = "response" => e.what \in Known /\ i <= tCAS

\* Those that arrived in this cycle are the last ones.
Arrivals(s) ==
    /\ s.arrived \subseteq Known /\ s.writes \subseteq Known
    /\ \A q \in s.arrived : \A r \in Known : q < r => r \in s.arrived

\* A command that is issued waits for the cleanup of the next cycle, or for one that is due.
Cleans(list) == list # <<>> /\ list[1].kind = "CleanupCallback"
Cleaned(s) ==
    \A q \in Queues : \A c \in Elems(s.cq[q]) :
        c.issued => s.issuedNow /\ Cleans(s.calendar[1])

\* No group has waited for its refresh to be queued, and a bank that is closed to the scheduler
\* waits for a REFRESH of its group.
Refreshes(s) ==
    /\ \A g \in Groups : s.refreshCounter[g] < DelayedRefreshThreshold
    /\ \A b \in Bank : s.refreshQueued[b] =>
         \E c \in Elems(s.cq[GetCommandQueueId(BankHead(b), 0)]) :
             c.op = "REFRESH" /\ ~c.issued /\ c.at.bank = BankHead(b)

Good(s) ==
    /\ s \in Channel
    /\ Arrivals(s) /\ InStages(s) /\ CommandsFit(s) /\ QueuesSorted(s) /\ AnswersSorted(s)
    /\ Refreshes(s)

Submitted == p \in Params /\ address \in Seq(Address) /\ Known \subseteq Req
\* The inductive invariant.
IInv ==
    /\ Submitted
    /\ Good(ch)
    /\ Cleaned(ch) \/ Cleans(ch.calendar[0])

\* One command queue holds all the commands of a bank that is precharged.
QueuesHoldBanks == \A c \in Params : c.queueModel = "PerSubArray" => ~c.UsePrecharge

\* In a bank that the controller has closed it believes no row open, and the queues lead from the
\* rows that are open to those it believes open.
RowsForgotten(s) ==
    p.UsePrecharge =>
        \A b \in Bank, sa \in SubArray : ~s.activateQueued[b] => s.effectiveRow[b, sa] = ROWS
RowsLead(s) ==
    \A b \in Bank, sa \in SubArray :
        Leads(s.cq[GetCommandQueueId(b, sa)], OpenRow(s, b, sa), s.effectiveRow[b, sa], b, sa)

\* A subarray that closes or is refreshed reports it once.  Nothing closes without precharges.
Closes(calendar) ==
    {a \in Bank \X SubArray : \E i \in 0..Horizon : \E e \in Elems(calendar[i]) :
        e.kind \in Closings /\ e.what = a}
ClosingPairs ==
    {e \in Event \X Event :
        e[1].kind \in Closings /\ e[2].kind \in Closings => e[1].what # e[2].what}
ClosesOnce(calendar) ==
    /\ p.UsePrecharge => Sorted(calendar, ClosingPairs)
    /\ ~p.UsePrecharge =>
         \A i \in 0..Horizon : \A e \in Elems(calendar[i]) :
             e.kind \notin {"implicitPrecharge", "closed"}

\* An active subarray is open and will not report that it is closed.
ArraysAreClosed(s) ==
    p.UsePrecharge =>
        \A b \in Bank, sa \in SubArray :
            /\ sa \in s.active[b] =>
                 s.array[b, sa].state = "open" /\ <<b, sa>> \notin Closes(s.calendar)
            /\ <<b, sa>> \in Closes(s.calendar) => s.array[b, sa].state # "closed"

Rows(s) ==
    RowsForgotten(s) /\ RowsLead(s) /\ ClosesOnce(s.calendar) /\ ArraysAreClosed(s)
RowInv == QueuesHoldBanks => Rows(ch)

\* "ResetRefreshQueued" asserts that a refresh was queued: no group is left waiting for its
\* refresh to be queued, and a bank closed to the scheduler has its REFRESH still to come.
RefreshesAreQueued ==
    /\ \A b \in Bank : ~NeedRefresh(ch, b)
    /\ \A b \in Bank :
         ch.refreshQueued[b] =>
             \E i \in 1..Len(ch.cq[GetCommandQueueId(BankHead(b), 0)]) :
                 LET c == ch.cq[GetCommandQueueId(BankHead(b), 0)][i]
                 IN  c.op = "REFRESH" /\ ~c.issued /\ c.at.bank = BankHead(b)

\* Where the queues are not per subarray, one that holds commands has a wake ahead that will look at
\* it (ScheduleCommandWake).  While a transaction waits for a queue that is empty, or about to be,
\* the scheduler is called in this cycle or the next: the "Cycle" events of Enqueue, of
\* MemoryController::Cycle and of CycleCommandQueues.
ControllerIsWoken ==
    /\ \A q \in Queues :
         p.queueModel # "PerSubArray" /\ ch.cq[q] # <<>> =>
             \E i \in 0..Horizon : Scheduled(ch.calendar, "CommandQueueCallback", i)
    /\ \A q \in Queues :
         EffectivelyEmpty(ch, q) /\ TransactionAvailable(ch, q) =>
             Scheduled(ch.calendar, "Cycle", 0) \/ Scheduled(ch.calendar, "Cycle", 1)

\* The same of the members of a calendar's cycles.
Holds(calendar, kind, when) == \E e \in Elems(calendar[when]) : e.kind = kind
WakeComes(calendar) == \E i \in 0..Horizon : Holds(calendar, "CommandQueueCallback", i)
CycleComes(calendar) == Holds(calendar, "Cycle", 0) \/ Holds(calendar, "Cycle", 1)

\* The wake is for the queues of every bank's subarray 0, the call for every queue that is idle.
HasCommands(s) == \E b \in Bank : s.cq[GetCommandQueueId(b, 0)] # <<>>
Woken(s) == HasCommands(s) => WakeComes(s.calendar)
Idle(s, q) == EffectivelyEmpty(s, q) /\ TransactionAvailable(s, q)
Called(s) == \A q \in Queues : Idle(s, q) => CycleComes(s.calendar)
WakeInv == Woken(ch) /\ Called(ch)

-----------------------------------------------------------------------------
\* Small instances for the model checker: two banks of two subarrays.
\* Two rows of one subarray, another subarray, another bank.
MCAddress == {[bank |-> 0, sa |-> 0, row |-> 0], [bank |-> 0, sa |-> 0, row |-> 1],
              [bank |-> 0, sa |-> 1, row |-> 0], [bank |-> 1, sa |-> 0, row |-> 0]}
MCRows == {a \in MCAddress : a.bank = 0 /\ a.sa = 0}
\* A read of one row, writes of both.
MCReadsAndWrites == {t \in [at : MCRows, write : BOOLEAN] : t.write \/ t.at.row = 0}

Config(model, precharge, close, group, starvation) ==
    [queueModel |-> model, closePage |-> close, UsePrecharge |-> precharge,
     BanksPerRefresh |-> group, StarvationThreshold |-> starvation,
     scheduler |-> "FRFCFS", HighWaterMark |-> 2, LowWaterMark |-> 1,
     trace |-> [at : MCAddress, write : {FALSE}]]

\* With and without precharges: closePage = 1 closes some rows and leaves others, a threshold
\* of 0 promotes every row miss, and either queue holds the commands of two subarrays.
\* The other schedulers get two rows of one bank, FRFCFS-WQF also writes.
MCParams ==
    {Config("PerBank", TRUE, 1, 2, 0), Config("PerRank", FALSE, 0, 1, 1),
     [Config("PerBank", TRUE, 2, 2, 1) EXCEPT
        !.scheduler = "FCFS", !.trace = [at : MCRows, write : {FALSE}]],
     [Config("PerBank", TRUE, 1, 2, 1) EXCEPT
        !.scheduler = "FRFCFS-WQF", !.trace = MCReadsAndWrites]}
\* The queue model for which NoOversleep and RowsAgree do not hold (see the README), of no run here.
MCSubArrayParams == {Config("PerSubArray", TRUE, 0, 2, 1)}
\* Marks with which a drain that empties both queues is not ended, of no run here.
MCLowParams == {[Config("PerBank", TRUE, 1, 2, 1) EXCEPT
    !.scheduler = "FRFCFS-WQF", !.trace = MCReadsAndWrites, !.LowWaterMark = 0]}
MCBoth == 0..1
MCReq == 1..3
MCOneReq == 1..1
=============================================================================
