----------------------------- MODULE GpioServer -----------------------------
(***************************************************************************)
(* How the HiFive platform's pins reach programs outside of the simulator  *)
(* (vp/src/platform/hifive/gpio/gpio-{server,client}.cpp).  A client asks  *)
(* on a control channel for the function of a pin.  With the first such    *)
(* request a data channel is set up, on which the SystemC thread pushes    *)
(* levels of pins and bytes of SPI; it waits for the answer to a byte.     *)
(*                                                                         *)
(* Three pairs of threads meet: the server's thread and the client's       *)
(* program on the control channel, the SystemC thread and the client's     *)
(* dispatcher on the data channel, and each side's two threads in its map  *)
(* of channels, with a mutex at the client only.  The client never ends a  *)
(* function: activeIOFs, by which closeIOFunction finds it, stays empty.   *)
(***************************************************************************)
EXTENDS Integers, Sequences, FiniteSets

CONSTANTS Functional,     \* the pins that clients ask for, with their function
          MaxIds,         \* values of an IOF_Channel_ID, less one
          SocketBuffer,   \* updates that fit into a socket
          MaxClients,     \* programs that connect, one after the other
          LeavesWith,     \* a client may go away if its pins have only these functions
          LeavesEarly,    \* ... and in the middle of a request
          ComesEarly,     \* ... and the next one come before a push has noticed it
          AsksAgain       \* a client asks for a pin that it has asked for

VARIABLES server,         \* the server's thread, and the request that it works on
          data,           \* data_channel_fd
          active,         \* active_IOF_channels: of a pin its id and function
          push,           \* pushPin or pushSPI in the SystemC thread
          stop,           \* quit was called
          program,        \* the client's program, and the pin it asks for
          request, answer,                        \* on the control channel
          updates, responses,                     \* on the data channel
          clientData,     \* data_channel of the client
          connected,      \* the data channel's listener has a connection to accept
          dispatcher,     \* its second thread
          channels,       \* dataChannels: of an id its pin and function
          dataChannel_m,  \* who holds the mutex
          clients         \* programs so far

serverVars == <<server, data, active, stop>>
clientVars == <<program, dispatcher, channels, dataChannel_m, clients>>
channelVars == <<serverVars, push, clientVars, request, answer, updates, responses, clientData,
             connected>>

Nothing == << >>
NoRequest == [op |-> "none"]
Idle == [at |-> "idle"]
Empty == [p \in {} |-> Nothing]

\* emplace of std::unordered_map: a key that is there keeps its value.
Emplaced(map, key, value) ==
    [k \in DOMAIN map \cup {key} |-> IF k \in DOMAIN map THEN map[k] ELSE value]

GpioServerInit ==
    /\ server = [at |-> "accept"] /\ data = "none" /\ active = Empty /\ stop = FALSE
    /\ push = Idle
    /\ program = [at |-> "away"] /\ clients = 0
    /\ request = NoRequest /\ answer = Nothing
    /\ updates = Nothing /\ responses = Nothing
    /\ clientData = "none" /\ connected = FALSE /\ dispatcher = [at |-> "none"]
    /\ channels = Empty /\ dataChannel_m = "free"
-----------------------------------------------------------------------------
(***************************************************************************)
(* The server's thread: startAccepting, handleConnection.                  *)
(***************************************************************************)
\* Mutant: the first of the ids, as if they were for each function.
findNewIDFirst == 0
findNewID ==
    LET used == {active[p].id : p \in DOMAIN active}
        unused == {n \in 0 .. MaxIds : n \notin used}
    IN  IF Cardinality(DOMAIN active) < MaxIds THEN Cardinality(DOMAIN active)
        ELSE CHOOSE n \in unused : \A m \in unused : n <= m

\* After a request the loop reads again, from a socket that quit has closed.
Continue == [at |-> IF stop THEN "accept" ELSE "read"]
Answer(a) == request' = NoRequest /\ answer' = (IF program.at = "away" THEN Nothing ELSE <<a>>)
Hangup == server' = [at |-> "accept"] /\ request' = NoRequest /\ UNCHANGED answer

\* The next client waits in the listener's queue until the thread accepts it.
Accept ==
    /\ server.at = "accept" /\ ~stop
    /\ program.at = "away" /\ clients < MaxClients
    /\ ComesEarly \/ (active = Empty /\ data = "none" /\ push = Idle)
    /\ clients' = clients + 1
    /\ program' = Idle /\ server' = [at |-> "read"]
    /\ UNCHANGED <<data, active, push, stop, request, answer, updates, responses,
                   clientData, dispatcher, channels, dataChannel_m, connected>>

\* quit has closed the socket by the time of the answer.
GetBank ==
    /\ server.at = "read" /\ request.op = "GET_BANK"
    /\ IF stop THEN Hangup ELSE Answer("state") /\ UNCHANGED server
    /\ UNCHANGED <<data, active, stop, push, clientVars, updates, responses, clientData, connected>>

ReqIof ==
    /\ server.at = "read" /\ request.op = "REQ_IOF"
    /\ IF stop THEN Hangup
       ELSE /\ Answer([id |-> findNewID, port |-> IF data = "none" THEN "new" ELSE "old"])
            /\ server' = [at |-> IF data = "none" THEN "listen" ELSE "emplace",
                          id |-> findNewID, asked |-> request]
    /\ UNCHANGED <<data, active, stop, push, clientVars, updates, responses, clientData, connected>>

\* awaitConnection has no time limit.
AcceptData ==
    /\ server.at = "listen" /\ connected
    /\ connected' = FALSE
    /\ data' = (IF clientData = "open" THEN "open" ELSE "stale")
    /\ server' = [server EXCEPT !.at = "emplace"]
    /\ UNCHANGED <<active, stop, push, clientVars, request, answer, updates, responses, clientData>>

\* A pin that has a channel keeps it.
Emplace ==
    /\ server.at = "emplace"
    /\ LET pin == server.asked.pin
           info == [id |-> server.id, iof |-> server.asked.iof]
       IN  active' = Emplaced(active, pin, info)
    /\ server' = Continue
    /\ UNCHANGED <<data, stop, push, clientVars, request, answer, updates, responses, clientData, connected>>

ClientGone ==
    /\ server.at = "read" /\ request = NoRequest /\ program.at = "away"
    /\ server' = [at |-> "accept"]
    /\ UNCHANGED <<data, active, stop, push, clientVars, request, answer, updates, responses,
                   clientData, connected>>

\* quit's own connection ends accept().
EndAccepting ==
    /\ server.at = "accept" /\ stop
    /\ server' = [at |-> "ended"]
    /\ UNCHANGED <<data, active, stop, push, clientVars, request, answer, updates, responses,
                   clientData, connected>>
-----------------------------------------------------------------------------
(***************************************************************************)
(* The SystemC thread.  A push for a pin without a channel, or with one of *)
(* the other kind, returns; so may one for a channel that is being added,  *)
(* since the map has no lock.                                              *)
(***************************************************************************)
CloseData ==
    /\ data' = "none"
    /\ clientData' = IF data = "open" /\ clientData = "open" THEN "over" ELSE clientData

FindChannel(pin) ==
    /\ push.at = "idle" /\ ~stop
    /\ pin \in DOMAIN active
    /\ push' = [at |-> "write", pin |-> pin, id |-> active[pin].id, iof |-> active[pin].iof]
    /\ UNCHANGED <<serverVars, clientVars, request, answer, updates, responses, clientData, connected>>

\* A write to a socket whose peer is gone succeeds once; the second raises SIGPIPE.
WriteUpdate ==
    /\ push.at = "write"
    /\ LET written == IF push.iof = "SPI" THEN [push EXCEPT !.at = "response"] ELSE Idle IN
       \/ /\ data = "none"
          /\ push' = [push EXCEPT !.at = "close"]
          /\ UNCHANGED <<data, updates>>
       \/ /\ data = "open" /\ Len(updates) < SocketBuffer
          /\ updates' = Append(updates, [id |-> push.id, pin |-> push.pin, iof |-> push.iof])
          /\ push' = written
          /\ UNCHANGED data
       \/ /\ data = "stale"
          /\ data' = "reset"
          /\ push' = written
          /\ UNCHANGED updates
       \/ /\ data = "reset"
          /\ push' = [at |-> "killed"]
          /\ UNCHANGED <<data, updates>>
    /\ UNCHANGED <<server, active, stop, clientVars, request, answer, responses, clientData, connected>>

ReadResponse ==
    /\ push.at = "response"
    /\ \/ /\ responses # Nothing
          /\ responses' = Tail(responses)
          /\ push' = Idle
       \/ /\ responses = Nothing /\ data # "open"
          /\ push' = [push EXCEPT !.at = "close"]
          /\ UNCHANGED responses
    /\ UNCHANGED <<serverVars, clientVars, request, answer, updates, clientData, connected>>

CloseChannel ==
    /\ push.at = "close"
    /\ CloseData
    /\ push' = [push EXCEPT !.at = "clear"]
    /\ UNCHANGED <<server, active, stop, clientVars, request, answer, updates, responses, connected>>
ClearChannels ==
    /\ push.at = "clear"
    /\ active' = Empty
    /\ push' = Idle
    /\ UNCHANGED <<server, data, stop, clientVars, request, answer, updates, responses, clientData, connected>>

\* The platform's end.  It does not wake up the thread while that reads.
Quit ==
    /\ push.at = "idle" /\ ~stop
    /\ stop' = TRUE
    /\ CloseData
    /\ UNCHANGED <<server, active, push, clientVars, request, answer, updates, responses, connected>>
-----------------------------------------------------------------------------
(***************************************************************************)
(* The client: its program.                                                *)
(***************************************************************************)
update ==
    /\ program.at = "idle"
    /\ program' = [at |-> "polling"] /\ request' = [op |-> "GET_BANK"]
    /\ UNCHANGED <<serverVars, push, answer, updates, responses, clientData,
                   dispatcher, channels, dataChannel_m, clients, connected>>
Updated ==
    /\ program.at = "polling" /\ answer # Nothing
    /\ program' = Idle /\ answer' = Nothing
    /\ UNCHANGED <<serverVars, push, request, updates, responses, clientData,
                   dispatcher, channels, dataChannel_m, clients, connected>>

\* addIOFchannel: the mutex is held from the request to the entry in the map.
\* Mutant: it is taken for the map only.
AskUnlocked(pin) ==
    /\ program.at = "idle"
    /\ AsksAgain \/ \A i \in DOMAIN channels : channels[i].pin # pin
    /\ request' = [op |-> "REQ_IOF", pin |-> pin, iof |-> Functional[pin]]
    /\ program' = [at |-> "asking", pin |-> pin, iof |-> Functional[pin]]
    /\ UNCHANGED <<serverVars, push, answer, updates, responses, clientData,
                   dispatcher, channels, dataChannel_m, clients, connected>>
Ask(pin) ==
    /\ program.at = "idle" /\ dataChannel_m = "free"
    /\ AsksAgain \/ \A i \in DOMAIN channels : channels[i].pin # pin
    /\ dataChannel_m' = "program"
    /\ request' = [op |-> "REQ_IOF", pin |-> pin, iof |-> Functional[pin]]
    /\ program' = [at |-> "asking", pin |-> pin, iof |-> Functional[pin]]
    /\ UNCHANGED <<serverVars, push, answer, updates, responses, clientData,
                   dispatcher, channels, clients, connected>>

\* An id that has a handler keeps it.
Register(id) ==
    /\ channels' = Emplaced(channels, id, [pin |-> program.pin, iof |-> program.iof])
    /\ dataChannel_m' = "free"
    /\ program' = Idle /\ answer' = Nothing

AddChannel ==
    /\ program.at = "asking" /\ answer # Nothing /\ clientData = "open"
    /\ Register(answer[1].id)
    /\ UNCHANGED <<serverVars, push, request, updates, responses, clientData, dispatcher, clients, connected>>

\* Nobody listens on the port of an earlier data channel; the thread then ends at once.
\* A second thread for the dispatcher would end the program.
OpenChannel ==
    /\ program.at = "asking" /\ answer # Nothing /\ clientData # "open"
    /\ dispatcher.at = "none"
    /\ Register(answer[1].id)
    /\ connected' = (answer[1].port = "new")
    /\ clientData' = IF answer[1].port = "new" THEN "open" ELSE "none"
    /\ dispatcher' = [at |-> IF answer[1].port = "new" THEN "reading" ELSE "over"]
    /\ updates' = Nothing /\ responses' = Nothing
    /\ UNCHANGED <<serverVars, push, request, clients>>

\* The program ends; what the server has not read yet of its answers stays.
Depart ==
    /\ program' = [at |-> "away"]
    /\ clientData' = "none" /\ dispatcher' = [at |-> "none"]
    /\ channels' = Empty /\ dataChannel_m' = "free"
    /\ answer' = Nothing /\ updates' = Nothing
    /\ data' = IF data = "open" THEN "stale" ELSE data
    /\ UNCHANGED <<server, active, stop, push, responses, clients, connected>>

Leave ==
    /\ program.at # "away"
    /\ LeavesEarly \/ program.at = "idle"
    /\ \A i \in DOMAIN channels : channels[i].iof \in LeavesWith
    /\ Depart /\ UNCHANGED request

\* The control channel was closed, or the dispatcher would be started again.
Fail ==
    /\ \/ /\ program.at \in {"idle", "polling", "asking"}
          /\ answer = Nothing /\ server.at \in {"accept", "ended"}
       \/ program.at = "asking" /\ answer # Nothing /\ clientData # "open" /\ dispatcher.at # "none"
    /\ Depart /\ request' = NoRequest
-----------------------------------------------------------------------------
(***************************************************************************)
(* The client's dispatcher: handleDataChannel.                             *)
(***************************************************************************)
ReadUpdate ==
    /\ dispatcher.at = "reading" /\ updates # Nothing
    /\ dispatcher' = [at |-> "locking", update |-> Head(updates)]
    /\ updates' = Tail(updates)
    /\ UNCHANGED <<serverVars, push, request, answer, responses, clientData,
                   program, channels, dataChannel_m, clients, connected>>

Over ==
    /\ clientData' = "over"
    /\ dispatcher' = [at |-> "over"]
    /\ data' = IF data = "open" THEN "stale" ELSE data

Handled == dispatcher.update.id \in DOMAIN channels

\* Mutant: the handler of SPI is called as if no answer were expected.
DispatchSilently ==
    /\ dispatcher.at = "locking" /\ dataChannel_m = "free" /\ Handled
    /\ dispatcher' = [at |-> "reading"]
    /\ UNCHANGED <<serverVars, push, request, answer, updates, clientData, responses,
                   program, channels, dataChannel_m, clients, connected>>
\* The handler runs under the mutex, and with SPI its answer is written.
Dispatch ==
    /\ dispatcher.at = "locking" /\ dataChannel_m = "free" /\ Handled
    /\ LET desc == channels[dispatcher.update.id] IN
       responses' = IF desc.iof = "SPI" THEN Append(responses, desc.pin) ELSE responses
    /\ dispatcher' = [at |-> "reading"]
    /\ UNCHANGED <<serverVars, push, request, answer, updates, clientData,
                   program, channels, dataChannel_m, clients, connected>>
\* Somebody else's id, or the end of the channel.
StopDispatching ==
    /\ \/ dispatcher.at = "locking" /\ dataChannel_m = "free" /\ ~Handled
       \/ dispatcher.at = "reading" /\ updates = Nothing /\ clientData = "over"
    /\ Over
    /\ UNCHANGED <<server, active, stop, push, request, answer, updates, responses,
                   program, channels, dataChannel_m, clients, connected>>
-----------------------------------------------------------------------------
ServerThread == GetBank \/ ReqIof \/ AcceptData \/ Emplace \/ ClientGone \/ EndAccepting
SystemCThread == WriteUpdate \/ ReadResponse \/ CloseChannel \/ ClearChannels
Program == Updated \/ AddChannel \/ OpenChannel \/ Fail
DispatcherThread == ReadUpdate \/ Dispatch \/ StopDispatching

GpioServerNext ==
    \/ Accept \/ ServerThread \/ SystemCThread \/ Program \/ DispatcherThread
    \/ Quit \/ update \/ Leave
    \/ \E pin \in DOMAIN Functional : FindChannel(pin) \/ Ask(pin)

\* Threads are scheduled; clients poll.  Nothing need be pushed or asked for, nobody need leave.
GpioServerFairness ==
    /\ WF_channelVars(ServerThread) /\ WF_channelVars(SystemCThread)
    /\ WF_channelVars(Program) /\ WF_channelVars(update) /\ WF_channelVars(DispatcherThread)

GpioServerSpec == GpioServerInit /\ [][GpioServerNext]_channelVars /\ GpioServerFairness
-----------------------------------------------------------------------------
InFlight ==
    {updates[k] : k \in DOMAIN updates}
    \cup (IF dispatcher.at = "locking" THEN {dispatcher.update} ELSE {})

(* An update reaches the handler of its pin and function, and one whose handler is only
   being entered waits for that (gpio-client.cpp:240). *)
UpdatesHaveHandlers ==
    \A u \in InFlight :
        IF u.id \in DOMAIN channels THEN channels[u.id] = [pin |-> u.pin, iof |-> u.iof]
        ELSE dataChannel_m = "program" /\ program.pin = u.pin

(* The answer that pushSPI takes is the one to its byte: at any time there is at most
   one, and it comes from the handler of that pin (gpio-server.cpp:391). *)
AnswersMatch ==
    \A k \in DOMAIN responses :
        k = 1 /\ push.at = "response" /\ responses[k] = push.pin

\* Nobody is killed by a write to a client that is gone.
SurvivesClients == push.at # "killed"

(* The SystemC thread gets out of every push; and a server that is told to quit ends,
   so that GPIO's destructor can join it (gpio.cpp:89). *)
PushesReturn == (push.at # "idle") ~> (push.at = "idle")
ServerStops == stop ~> (server.at = "ended")
=============================================================================
