----------------------------- MODULE EventQueue -----------------------------
(***************************************************************************)
(* The event lists of NVmain (src/EventQueue.cpp): for every cycle a list  *)
(* of events in the order in which Process() runs them.  Cycles are        *)
(* counted from the current one, so that calendar[0] is the list being run *)
(* and calendar[1] the next cycle's.                                       *)
(*                                                                         *)
(* An event has a kind, the object it is about and a stored priority.      *)
(* InsertEvent with a type never stores the priority it is given: it is    *)
(* used to find the place and reads as 0 for every later insertion.        *)
(***************************************************************************)
EXTENDS Integers, Sequences, SequencesExt

\* The constructor's default: the priority of an event nobody gave one.
StoredDefault == 0

\* MemoryController.h: the priorities of the controller's own events.
transactionQueuePriority == 30
commandQueuePriority == 40
refreshPriority == 20
cleanupPriority == -10

\* `new Event` of the typed InsertEvent and of InsertCallback.
TypedEvent(kind, what) == [kind |-> kind, what |-> what, priority |-> StoredDefault]
Callback(kind, what, priority) == [kind |-> kind, what |-> what, priority |-> priority]

\* Before the first event with a larger stored priority, else at the end: behind `ahead' others.
\* Typed events that are inserted one after the other follow each other.
Place(list, events, priority) ==
    LET ahead == CHOOSE n \in 0..Len(list) :
                   /\ \A i \in 1..n : list[i].priority <= priority
                   /\ n < Len(list) => list[n + 1].priority > priority
    IN  SubSeq(list, 1, ahead) \o events \o SubSeq(list, ahead + 1, Len(list))

\* InsertEvent / InsertCallback at `when` cycles from now; InsertEvent for several objects.
InsertEvents(calendar, kind, whats, when, priority) ==
    [calendar EXCEPT ![when] =
        Place(@, [i \in DOMAIN whats |-> TypedEvent(kind, whats[i])], priority)]
InsertEvent(calendar, kind, what, when, priority) ==
    InsertEvents(calendar, kind, <<what>>, when, priority)
InsertCallback(calendar, kind, what, when, priority) ==
    [calendar EXCEPT ![when] = Place(@, <<Callback(kind, what, priority)>>, priority)]

\* FindEvent / FindCallback: is there one of this kind in that cycle?
Scheduled(calendar, kind, when) ==
    \E i \in 1..Len(calendar[when]) : calendar[when][i].kind = kind
=============================================================================
