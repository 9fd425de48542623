-------------------------------- MODULE NVMain --------------------------------
(***************************************************************************)
(* The top of NVMain: address translation (src/AddressTranslator.cpp,      *)
(* TranslationMethod.cpp), the hooks around a module's calls               *)
(* (src/NVMObject.cpp), NVMain with its prefetch buffer (NVM/nvmain.cpp),  *)
(* and the migration of pages between a fast and the slow channels: the    *)
(* decoder Migrator and the hook CoinMigrator, as Config/                  *)
(* Hybrid_example.config combines them.  A page is a row of a bank.        *)
(*                                                                         *)
(* The state is one record, `top`, and each C++ function an operator on    *)
(* it, composed as the calls are.  A channel's memory controller, whose    *)
(* own module is MemoryController, is here a queue that accepts a request  *)
(* while there is room, and completes those it has issued in any order.    *)
(* An address is a line: both directions of the translation drop the bits  *)
(* within the bus and within the burst.                                    *)
(***************************************************************************)
EXTENDS Integers, Sequences, SequencesExt, BagsExt

CONSTANTS rowBits, colBits, bankBits, rankBits, channelBits, subarrayBits,
          Lines,                \* the lines that the trace accesses,
          Stream,               \* those of the trace with a prefetcher
          queueSize,            \* of a memory controller
          PrefetchBufferSize,
          promotionChannel,     \* the fast one
          MaxOutstanding,       \* requests the trace has waiting
          MaxPrefetches,        \* that the banks work on
          MaxMigrations,
          Recurs,               \* the trace goes on when every fast page has been a victim
          None

Parts == {"R", "C", "BK", "RK", "CH", "SA"}

Bits == [R |-> rowBits, C |-> colBits, BK |-> bankBits, RK |-> rankBits,
         CH |-> channelBits, SA |-> subarrayBits]

Count(part) == 2 ^ Bits[part]

NVMainAssumption ==
    /\ \A p \in Parts : Bits[p] \in Nat
    /\ Lines \subseteq Nat /\ Stream \subseteq Nat
    /\ {queueSize, PrefetchBufferSize, MaxOutstanding} \subseteq Nat \ {0}
    /\ promotionChannel \in 0 .. Count("CH") - 1
-----------------------------------------------------------------------------
\* Translation.  A scheme lists the parts of an address from the most significant one;
\* those it leaves out come last, and an order counts from the least significant one.
SetAddressMappingScheme(scheme) ==
    LET unset == SelectSeq(<<"SA", "CH", "RK", "BK", "R", "C">>, LAMBDA p : p \notin Range(scheme))
        listed == scheme \o unset
    IN [p \in Parts |-> 6 - CHOOSE i \in 1 .. 6 : listed[i] = p]

FindOrder(order, i) == CHOOSE p \in Parts : order[p] = i

Modulo(address, part) == address % Count(part)
\* Mutant: one bit too many is shifted out.
DivideTwice(address, part) == (address \div Count(part)) \div 2
Divide(address, part) == address \div Count(part)

\* AddressTranslator::Translate: `left` is refAddress before each round of the loop.
Located(order, address) ==
    LET left[i \in 0 .. 5] ==
            IF i = 0 THEN address ELSE Divide(left[i - 1], FindOrder(order, i - 1))
    IN [p \in Parts |-> Modulo(left[order[p]], p)]

ReverseTranslate(order, at) ==
    LET unit[i \in 0 .. 5] == IF i = 0 THEN 1 ELSE unit[i - 1] * Count(FindOrder(order, i - 1))
    IN FoldFunction(LAMBDA x, y : x + y, 0, [p \in Parts |-> at[p] * unit[order[p]]])

\* The key of a page: whatever the column.
GetAddressKey(at) ==
    ((((at.R * Count("BK")) + at.BK) * Count("RK") + at.RK) * Count("SA") + at.SA) * Count("CH") + at.CH

Size == 2 ^ (rowBits + colBits + bankBits + rankBits + channelBits + subarrayBits)
Pages == 0 .. (Size \div Count("C")) - 1

\* What configurations choose; the default of Params has no subarrays in front either.
Schemes == [migrator   |-> <<"SA", "R", "RK", "BK", "CH", "C">>,
            atomic     |-> <<"SA", "R", "RK", "BK", "CH", "C">>,
            prefetcher |-> <<"R", "RK", "BK", "CH", "C">>]

\* An NVMAddress before its translation.
Untranslated == [p \in Parts |-> 0]
-----------------------------------------------------------------------------
VARIABLES config,       \* CoinMigrator in cycles or "atomic", or a prefetcher; and the order
          top,          \* see Init
          memory,       \* the page whose content each page's place holds (history)
          buffers       \* those in CoinMigrator's buffers (history)

vars == <<config, top, memory, buffers>>

Init ==
    /\ config \in {[mode |-> m, order |-> SetAddressMappingScheme(Schemes[m])] : m \in DOMAIN Schemes}
    /\ top = [requests |-> EmptyBag,    \* in the controllers, and responses that are due
              outstandingRequests |-> 0,
              prefetchBuffer |-> <<>>,
              migrationMap |-> [k \in Pages |-> None],
              migrationState |-> [k \in Pages |-> "UNKNOWN"],
              migrating |-> FALSE, inputPage |-> 0, outputPage |-> 0,
              promotee |-> Untranslated, demotee |-> Untranslated,
              promoBuffered |-> FALSE, demoBuffered |-> FALSE,
              currentPromotionPage |-> 0,
              failed |-> FALSE]         \* an assert, or a call through parent = NULL
    /\ memory = [k \in Pages |-> k]
    /\ buffers = [promo |-> None, demo |-> None]

\* A request and who issued it; stage "response" is an event in the queue.  CoinMigrator's
\* two have a tag that changes with their type.
Request(part, address, type, at) ==
    [part |-> part, address |-> address, type |-> type, at |-> at, stage |-> "new"]

Staged(r, stage) == [r EXCEPT !.stage = stage]

\* Migrator::Translate.
Translate(t, address) ==
    LET at == Located(config.order, address)
        key == GetAddressKey(at)
    IN IF config.mode # "prefetcher" /\ t.migrationState[key] = "DONE"
       THEN [at EXCEPT !.CH = t.migrationMap[key]]
       ELSE at

Copies(t, requests) == BagCardinality([r \in requests |-> t.requests[r]])

\* FRFCFS::IsIssuable and IssueCommand.
IsIssuable(t, channel) ==
    Copies(t, {r \in DOMAIN t.requests : r.stage = "queued" /\ r.at.CH = channel}) < queueSize

Enqueue(t, r) ==
    IF IsIssuable(t, r.at.CH)
    THEN [t EXCEPT !.requests = BagAdd(@, Staged(r, "queued"))]
    ELSE t

\* EventQueue::InsertEvent of an EventResponse.
Respond(t, r) == [t EXCEPT !.requests = BagAdd(@, Staged(r, "response"))]
-----------------------------------------------------------------------------
\* NVMain.  NaivePrefetcher asks for the next three lines.  A prefetch is a copy of its
\* trigger, translated, with another physical address: GeneratePrefetches translates the
\* trigger once more, and the controller is the trigger's.
GeneratePrefetches(t, r) ==
    FoldLeft(LAMBDA u, i : Enqueue(u, Request("prefetch", r.address + i, "READ", r.at)),
             t, <<1, 2, 3>>)

IssuePrefetch(t, r) ==
    IF config.mode = "prefetcher" /\ r.type = "READ" /\ r.part # "prefetch"
    THEN GeneratePrefetches(t, r)
    ELSE t

\* CheckPrefetch: the oldest entry with the address is used up, whatever the request's type.
Hits(t, r) == {i \in DOMAIN t.prefetchBuffer : t.prefetchBuffer[i] = r.address}

WithoutHit(t, r) ==
    [t EXCEPT !.prefetchBuffer = RemoveAt(@, CHOOSE i \in Hits(t, r) : \A j \in Hits(t, r) : i <= j)]

\* Mutant: a hit is not answered.
IssueCommandForgetting(t, r) ==
    LET q == [r EXCEPT !.at = Translate(t, r.address)]
    IN IF Hits(t, q) # {} THEN WithoutHit(t, q)
       ELSE IF IsIssuable(t, q.at.CH) THEN IssuePrefetch(Enqueue(t, q), q) ELSE t

IssueCommand(t, r) ==
    LET q == [r EXCEPT !.at = Translate(t, r.address)]
    IN IF Hits(t, q) # {}
       THEN Respond(WithoutHit(t, q), q)
       ELSE IF IsIssuable(t, q.at.CH) THEN IssuePrefetch(Enqueue(t, q), q) ELSE t

\* A completed prefetch displaces the oldest entry of a full buffer.
Prefetched(t, r) ==
    LET kept == IF Len(t.prefetchBuffer) >= PrefetchBufferSize THEN Tail(t.prefetchBuffer)
                ELSE t.prefetchBuffer
    IN [t EXCEPT !.prefetchBuffer = Append(kept, r.address)]
-----------------------------------------------------------------------------
\* Migrator.
IsMigrated(t, at) == t.migrationState[GetAddressKey(at)] = "DONE"
IsBuffered(t, at) == t.migrationState[GetAddressKey(at)] \in {"BUFFERED", "WRITING"}

StartMigration(t, promotee, demotee) ==
    LET promokey == GetAddressKey(promotee)
        demokey == GetAddressKey(demotee)
    IN [t EXCEPT !.failed = @ \/ t.migrating,
                 !.migrationMap[promokey] = demotee.CH,
                 !.migrationMap[demokey] = promotee.CH,
                 !.migrationState[promokey] = "READING",
                 !.migrationState[demokey] = "READING",
                 !.migrating = TRUE, !.inputPage = promokey, !.outputPage = demokey]

SetMigrationState(t, at, newState) ==
    LET key == GetAddressKey(at)
        u == [t EXCEPT !.migrationState[key] = newState]
    IN [u EXCEPT !.failed = @ \/ t.migrationState[key] \in {"UNKNOWN", newState},
                 !.migrating = @ /\ {u.migrationState[u.inputPage], u.migrationState[u.outputPage]} # {"DONE"}]

\* CoinMigrator::ChooseVictim: the fast pages in turn.
ChooseVictim(t) ==
    LET bank == t.currentPromotionPage \div Count("RK")
        subarray == bank \div Count("BK")
    IN [RK |-> t.currentPromotionPage % Count("RK"), BK |-> bank % Count("BK"),
        SA |-> subarray % Count("SA"), R |-> subarray \div Count("SA"),
        C |-> 0, CH |-> promotionChannel]

TotalPromotionPages == Count("RK") * Count("BK") * Count("R") * Count("SA")

\* The coin may only be heads while the bounds allow it.
MayMigrate(t, r) ==
    /\ config.mode # "prefetcher"
    /\ ~t.migrating /\ ~IsMigrated(t, r.at) /\ r.at.CH # promotionChannel
    /\ Cardinality({k \in Pages : t.migrationState[k] = "DONE"}) < 2 * MaxMigrations
    /\ Recurs \/ ~IsMigrated(t, ChooseVictim(t))

\* CoinMigrator::TryMigration after the call, with heads, in the two modes.
Chosen(t, r) ==
    [t EXCEPT !.promotee = [r.at EXCEPT !.C = 0], !.demotee = ChooseVictim(t),
              !.currentPromotionPage = (@ + 1) % TotalPromotionPages,
              !.failed = @ \/ t.promoBuffered \/ t.demoBuffered \/ IsMigrated(t, ChooseVictim(t))]

MigrationRead(part, at) == Request(part, ReverseTranslate(config.order, at), "READ", at)

TryMigration(t, r) ==
    LET u == Chosen(t, r)
        started == StartMigration(u, r.at, u.demotee)
    IN IF IsIssuable(u, u.promotee.CH) /\ IsIssuable(u, u.demotee.CH)
       THEN IssueCommand(IssueCommand(started, MigrationRead("promo", u.promotee)),
                         MigrationRead("demo", u.demotee))
       ELSE u

TryMigrationAtomic(t, r) ==
    LET u == Chosen(t, r)
    IN SetMigrationState(SetMigrationState(StartMigration(u, r.at, u.demotee), u.promotee, "DONE"),
                         u.demotee, "DONE")
-----------------------------------------------------------------------------
\* CoinMigrator::RequestComplete, of its own reads: when both pages have been read, each is
\* written to the place of the other.  A write that finds no room is kept (`promoBuffered`).
Other(t, part) == IF part = "promo" THEN t.demotee ELSE t.promotee

MigrationWrite(t, part) ==
    Request(part, ReverseTranslate(config.order, Other(t, part)), "WRITE", Other(t, part))

IsAccepted(t, part) == \E r \in DOMAIN t.requests : r.part = part /\ r.type = "WRITE"

Written(t) ==
    LET demo == Enqueue(t, MigrationWrite(t, "demo"))
        both == Enqueue(demo, MigrationWrite(t, "promo"))
        marked(u, part) ==
            IF IsAccepted(u, part) THEN SetMigrationState(u, Other(t, part), "WRITING") ELSE u
    IN [marked(marked(both, "demo"), "promo") EXCEPT
            !.promoBuffered = ~IsAccepted(both, "promo"), !.demoBuffered = ~IsAccepted(both, "demo")]

\* Mutant: the other page need not have been read.
ReadCompleteAlone(t, r) == Written(SetMigrationState(t, r.at, "BUFFERED"))

ReadComplete(t, r) ==
    LET u == SetMigrationState(t, r.at, "BUFFERED")
    IN IF IsBuffered(u, Other(t, r.part)) THEN Written(u) ELSE u

\* Of a request of someone else: what was kept is tried again.  The first call passes through
\* hooks that take this hook's parent away, and the second one uses it.
Retried(t, part) ==
    LET u == Enqueue(t, MigrationWrite(t, part))
    IN IF part = "promo" THEN [u EXCEPT !.promoBuffered = ~IsAccepted(u, part)]
       ELSE [u EXCEPT !.demoBuffered = ~IsAccepted(u, part)]

Retry(t) ==
    CASE t.promoBuffered /\ t.demoBuffered -> [Retried(t, "promo") EXCEPT !.failed = TRUE]
      [] t.promoBuffered /\ ~t.demoBuffered -> Retried(t, "promo")
      [] ~t.promoBuffered /\ t.demoBuffered -> Retried(t, "demo")
      [] OTHER -> t

\* NVMObject_hook::RequestComplete of NVMain: the hook, then NVMain or TraceMain.
RequestComplete(t, r) ==
    LET u == [t EXCEPT !.requests = BagRemove(@, r)]
    IN CASE r.part \in {"promo", "demo"} /\ r.type = "READ" -> ReadComplete(u, r)
         [] r.part \in {"promo", "demo"} /\ r.type = "WRITE" -> SetMigrationState(u, r.at, "DONE")
         [] r.part = "prefetch" -> Prefetched(u, r)
         [] OTHER -> [Retry(u) EXCEPT !.outstandingRequests = @ - 1]
-----------------------------------------------------------------------------
\* NVMObject_hook::IssueCommand of NVMain.  The hook before the call may answer a request
\* from the buffers; it sees the address as TraceMain has set it, not yet translated.
Dropped(t, r) == config.mode # "prefetcher" /\ IsBuffered(t, r.at)

Issued(t, r) == IF Dropped(t, r) THEN Respond(t, r) ELSE IssueCommand(t, r)

\* The request as the hook after the call sees it.
After(t, r) == IF Dropped(t, r) THEN r ELSE [r EXCEPT !.at = Translate(t, r.address)]

\* TraceMain: the next line of the trace, when its controller has room for it.
Submit(address, type) ==
    /\ config.mode # "atomic"
    /\ top.outstandingRequests < MaxOutstanding
    /\ IsIssuable(top, Translate(top, address).CH)
    /\ LET r == Request("trace", address, type, Untranslated)
           t == Issued([top EXCEPT !.outstandingRequests = @ + 1], r)
       IN \/ top' = t
          \/ MayMigrate(t, After(top, r)) /\ top' = TryMigration(t, After(top, r))
    /\ UNCHANGED <<config, memory, buffers>>

\* NVMObject_hook::IssueAtomic, which answers at once.
SubmitAtomic(address, type) ==
    /\ config.mode = "atomic"
    /\ LET r == Request("trace", address, type, Translate(top, address))
           t == TryMigrationAtomic(top, r)
           promotee == GetAddressKey(t.promotee)
           demotee == GetAddressKey(t.demotee)
       IN \/ UNCHANGED <<top, memory>>
          \/ /\ MayMigrate(top, r)
             /\ top' = t
             /\ memory' = [memory EXCEPT ![promotee] = memory[demotee], ![demotee] = memory[promotee]]
    /\ UNCHANGED <<config, buffers>>

\* A controller issues a request's commands; who only waits for the answer is forgotten.
Forgotten(r) == IF r.part = "trace" THEN Request("trace", 0, "READ", Untranslated) ELSE r

Issue(r) ==
    /\ r \in DOMAIN top.requests /\ r.stage = "queued"
    /\ r.part = "prefetch" =>
           Copies(top, {q \in DOMAIN top.requests : q.part = "prefetch" /\ q.stage = "issued"}) < MaxPrefetches
    /\ top' = [top EXCEPT !.requests = BagAdd(BagRemove(@, r), Staged(Forgotten(r), "issued"))]
    /\ UNCHANGED <<config, memory, buffers>>

Complete(r) ==
    /\ r \in DOMAIN top.requests /\ r.stage \in {"issued", "response"}
    /\ top' = RequestComplete(top, r)
    /\ CASE r.part \in {"promo", "demo"} /\ r.type = "READ" ->
                buffers' = [buffers EXCEPT ![r.part] = memory[GetAddressKey(r.at)]] /\ UNCHANGED memory
         [] r.part \in {"promo", "demo"} /\ r.type = "WRITE" ->
                /\ memory' = [memory EXCEPT ![GetAddressKey(r.at)] = buffers[r.part]]
                /\ buffers' = [buffers EXCEPT ![r.part] = None]
         [] OTHER -> UNCHANGED <<memory, buffers>>
    /\ UNCHANGED config

Next ==
    /\ ~top.failed
    /\ \/ \E address \in IF config.mode = "prefetcher" THEN Stream ELSE Lines, type \in {"READ", "WRITE"} :
              Submit(address, type) \/ SubmitAtomic(address, type)
       \/ \E r \in DOMAIN top.requests : Issue(r) \/ Complete(r)

Spec == Init /\ [][Next]_vars
-----------------------------------------------------------------------------
(* Translation loses nothing: each order that a scheme sets is a numbering of the parts, a line
   comes back from its place (ReverseTranslate undoes Translate), and a page has a key of its
   own (AddressTranslator.cpp:76, 189; Migrator.cpp:85). *)
TranslationIsExact ==
    /\ \A a \in 0 .. Size - 1 : ReverseTranslate(config.order, Located(config.order, a)) = a
    /\ {GetAddressKey(Located(config.order, a)) : a \in 0 .. Size - 1} = Pages

(* No page's content is lost while two are exchanged, nor is it ever overwritten before it has
   been read (CoinMigrator.cpp:163): it is in some place, or in a buffer whose write is to come. *)
NoPageIsLost == Pages \subseteq Range(memory) \cup {buffers.promo, buffers.demo}

(* The asserts of Migrator and CoinMigrator hold (Migrator.cpp:119, 146; CoinMigrator.cpp:288,
   315), and no call is made through a parent that a nested call has unset (CoinMigrator.cpp:218). *)
NothingFails == ~top.failed

(* What TraceMain waits for is on its way, in a controller or as a response of the prefetch
   buffer or of the migration's buffers: no answer is lost, none is given twice (nvmain.cpp:388). *)
EveryRequestIsOnItsWay ==
    Copies(top, {r \in DOMAIN top.requests : r.part = "trace"}) = top.outstandingRequests

\* The order is that of the start.
MemoryIsKept ==
    /\ NoPageIsLost /\ NothingFails /\ EveryRequestIsOnItsWay
    /\ top.outstandingRequests = 0 /\ BagCardinality(top.requests) = 0 /\ memory = [k \in Pages |-> k]
       => TranslationIsExact

(* "Migrations in progress must be served from the buffers during migration"
   (CoinMigrator.cpp:255): no request for a page that is in a buffer goes to memory. *)
ServedFromTheBuffers ==
    [][\A r \in DOMAIN top'.requests \ DOMAIN top.requests :
          r.part = "trace" /\ r.stage = "queued"
          => ~IsBuffered(top, Located(config.order, r.address))]_vars

(* "We should read from the new channel it which it was placed" (Migrator.cpp:166): between two
   migrations every page is found where its content is. *)
PagesAreFound ==
    ~top.migrating => \A a \in Lines :
        memory[GetAddressKey(Translate(top, a))] = GetAddressKey(Located(config.order, a))

(* "We may prefetch across channels" (nvmain.cpp:301): a prefetch goes where its own address
   leads. *)
PrefetchesAreTranslated ==
    \A r \in DOMAIN top.requests : r.part = "prefetch" => r.at = Translate(top, r.address)
=============================================================================
