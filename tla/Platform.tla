------------------------------ MODULE Platform ------------------------------
(***************************************************************************)
(* The FE310 PLIC with the devices that trigger it: the pins of the HiFive *)
(* platform, the DMA controller of the basic one, or any others (timers,   *)
(* sensors), of which only the trigger matters.  The hart's handler serves *)
(* what it claims before it completes it: it arms a pin again, and tells   *)
(* the driver of the DMA controller.  Apart from these, the programs that  *)
(* watch the pins, with the server's threads.  At the end the instances    *)
(* for the model checker.                                                  *)
(***************************************************************************)
EXTENDS FE310Plic, GpioServer

CONSTANTS GpioPins, IofPins, RegisterSets, Repeats,
          BufferSize, Cells, Commands, MaxCommands, Eager,
          DmaIrq

\* Interrupts of the platform: the pins', and that of the DMA controller.
ASSUME IrqAssumption == GpioPins \subseteq Ids /\ DmaIrq \in Ids \ GpioPins

VARIABLES registers, pins, reg, asyncEvent, snapshot, client, followed,
          regs, run_event, thread, buffer, mem, issued, busy, wanted,
          live,            \* what is used: "others", "pins", "dma" or "channels"
          served           \* ids the handler has served since it claimed them

Pins == INSTANCE Gpio
Copier == INSTANCE Dma

ASSUME DriverAssumption == Copier!DmaAssumption

gpioVars == <<registers, pins, reg, asyncEvent, snapshot, client, followed>>
dmaVars == <<regs, run_event, thread, buffer, mem, issued, busy, wanted>>
deviceVars == <<vars, gpioVars, dmaVars, served>>
platformVars == <<deviceVars, channelVars, live>>

PlatformInit ==
    /\ Init
    /\ Pins!GpioInit
    /\ Copier!DmaInit
    /\ GpioServerInit
    /\ served = {}
    /\ live \in {"others", "pins", "dma", "channels"}
    /\ live # "pins" => registers = CHOOSE r \in RegisterSets : TRUE
    /\ live # "others" => ~dynamic /\ enabled = Ids /\ threshold = 0 /\ priority = [i \in Ids |-> 1]

\* Several calls of gateway_trigger_interrupt in one step of a device.
Triggered(ids) ==
    /\ pending' = pending \cup ids
    /\ e_run' = (e_run \/ ids # {})
    /\ UNCHANGED <<config, hart_eip, meip, claimed, dynamic, unannounced, aborted>>

OtherDevice ==
    /\ live = "others"
    /\ \E i \in Ids : GatewayTrigger(i)
    /\ UNCHANGED <<gpioVars, dmaVars, channelVars, live, served>>

SynchronousChange ==
    /\ Pins!Snapshot
    /\ Triggered(Pins!Fires)
    /\ UNCHANGED <<dmaVars, channelVars, live, served>>

PinStep ==
    /\ live = "pins"
    /\ Pins!ClientStep \/ Pins!WriteBack \/ Pins!RegisterWrite
    /\ UNCHANGED <<vars, dmaVars, channelVars, live, served>>

DmaDone ==
    /\ Copier!Finish
    /\ Triggered({DmaIrq})
    /\ UNCHANGED <<gpioVars, channelVars, live, served>>

DmaStep ==
    /\ live = "dma"
    /\ Copier!DmaStep
    /\ UNCHANGED <<vars, gpioVars, channelVars, live, served>>

\* The handler's work for the device of a claimed interrupt.
ServePin(i) ==
    /\ i \in GpioPins
    /\ Pins!Rearm({i})
    /\ UNCHANGED dmaVars
ServeDma(i) ==
    /\ i = DmaIrq
    /\ Copier!Answered
    /\ UNCHANGED gpioVars
ServeOther(i) ==
    /\ live = "others"
    /\ UNCHANGED <<gpioVars, dmaVars>>

Serve(i) ==
    /\ i \in claimed \ served
    /\ CASE live = "pins" -> ServePin(i)
         [] live = "dma" -> ServeDma(i)
         [] OTHER -> ServeOther(i)
    /\ served' = served \cup {i}
    /\ UNCHANGED <<vars, channelVars, live>>

ClaimStep(i) == Claim(i) /\ UNCHANGED <<gpioVars, dmaVars, channelVars, live, served>>
CompleteStep(i) ==
    /\ i \in served \cup {0}
    /\ Complete(i)
    /\ served' = served \ {i}
    /\ UNCHANGED <<gpioVars, dmaVars, channelVars, live>>

Configure ==
    /\ \/ \E i \in Ids, v \in WrittenValues : WritePriority(i, v)
       \/ \E e \in SUBSET Ids : WriteEnabled(e)
       \/ \E v \in WrittenValues : WriteThreshold(v)
    /\ UNCHANGED <<gpioVars, dmaVars, channelVars, live, served>>

RunStep == Run /\ UNCHANGED <<gpioVars, dmaVars, channelVars, live, served>>

ChannelStep ==
    /\ live = "channels"
    /\ GpioServerNext
    /\ UNCHANGED <<deviceVars, live>>

PlatformNext ==
    /\ ~aborted
    /\ \/ OtherDevice \/ SynchronousChange \/ PinStep \/ DmaDone \/ DmaStep
       \/ RunStep \/ Configure \/ ChannelStep
       \/ \E i \in Ids \cup {0} : ClaimStep(i) \/ CompleteStep(i)
       \/ \E i \in Ids : Serve(i)

\* As in FE310Plic, with a handler that also serves; the devices need not act.
PlatformFairness ==
    /\ WF_platformVars(RunStep)
    /\ WF_platformVars(\E i \in Ids \cup {0} : ClaimStep(i))
    /\ WF_platformVars(\E i \in Ids : Serve(i))
    /\ WF_platformVars(\E i \in Ids \cup {0} : CompleteStep(i))
    /\ GpioServerFairness

PlatformSpec == PlatformInit /\ [][PlatformNext]_platformVars /\ PlatformFairness
-----------------------------------------------------------------------------
(* When the DMA controller reports a copy, the memory holds what was asked
   for (dma.h:68). *)
CopyIsExact == Copier!CopyIsExact

NoDeafPin ==
    \A p \in GpioPins :
        p \in reg.rise_intr_pending \cap reg.fall_intr_pending
            \/ p \in pending \/ p \in claimed \ served

(* What happens on a pin reaches the guest.  The value register and the pins differ
   only while a change is on its way (gpio.cpp:109), for a client that does not set a
   pin to the level it has; and no pin is left deaf: an edge that took a pin's flag
   (gpio.cpp:275) has its interrupt at the PLIC, or the handler is about to arm the
   pin again. *)
PinsReachTheGuest == Pins!ValueFollowsPins /\ NoDeafPin

(* What the guest does to a pin reaches the program that asked for it, and the answer
   returns: no update meets another pin's handler or none (gpio-client.cpp:245), no push takes
   another's answer, and a program that goes away does not take the simulation with it. *)
PinsReachTheirWatchers ==
    UpdatesHaveHandlers /\ AnswersMatch /\ SurvivesClients

PinsAreShared == PinsReachTheGuest /\ PinsReachTheirWatchers

(* Whoever waits is served: the hart an interrupt (fe310_plic.h:185), the SystemC thread
   the answer to a push (gpio-server.cpp:391) and the platform's destructor the end of
   the server (gpio.cpp:89). *)
WaitsEnd == FirstIsServed /\ PushesReturn /\ ServerStops
-----------------------------------------------------------------------------
\* One pin with four sets of registers; copies of less than a block, of a block and a
\* rest, and of whole blocks; and the pins of a display, with one for bytes only.
MCRegisterSets ==
    {{"input_en", "rise_intr_en", "fall_intr_en"}, {"input_en", "output_en", "port", "fall_intr_en"},
     {"input_en", "pullup_en", "rise_intr_en"}, {"input_en", "iof_en", "fall_intr_en"}}
MCCommands ==
    {[op |-> "MEMCPY", src |-> s, dst |-> d, len |-> n] : s \in {0, 1}, d \in {4, 5}, n \in 0 .. 3}
      \cup {[op |-> "MEMCPY", src |-> 4, dst |-> 0, len |-> 4], [op |-> "NOP", src |-> 0, dst |-> 4, len |-> 1]}
MCFunctional == <<"SPI", "BITSYNC", "SPI_NORESPONSE">>
=============================================================================
