-------------------------------- MODULE Gpio --------------------------------
(***************************************************************************)
(* The pins of the HiFive platform (vp/src/platform/hifive/gpio.cpp).  Two *)
(* threads change them without a lock: the thread of the GPIO server, in   *)
(* which a client sets a pin, and the SystemC thread, in which the guest   *)
(* writes registers and synchronousChange turns changed pins into the      *)
(* value register and into interrupts, on a snapshot that it writes back.  *)
(* Pins do not depend on each other but through asyncEvent.                *)
(*                                                                         *)
(* A register is the set of the pins whose bit is 1; the pending registers *)
(* are inverted, so that rise_intr_pending holds the pins that are armed.  *)
(***************************************************************************)
EXTENDS Integers

CONSTANTS GpioPins,
          IofPins,        \* those for which getIOF knows a function
          RegisterSets,   \* the registers a guest writes: one of these sets
          Repeats         \* a client sets a pin to the level it has

VARIABLES registers,      \* those of this guest
          pins,           \* server.state: "UNSET", "LOW", "HIGH" or "IOF"
          reg,            \* the registers
          asyncEvent,     \* synchronousChange is to run
          snapshot,       \* serverSnapshot while synchronousChange runs, else NoPins
          client,         \* the request the server's thread is working on
          followed        \* pins whose value follows their input (history)

gpioVars == <<registers, pins, reg, asyncEvent, snapshot, client, followed>>

Levels == {"UNSET", "LOW", "HIGH"}
NoPins == [p \in {} |-> "UNSET"]
NoRequest == [at |-> "read", pin |-> 0, val |-> "UNSET", prev |-> "UNSET"]

Flip(A, B) == (A \ B) \cup (B \ A)               \* exclusive or
DriveTo(changed, high) ==
    pins' = [p \in GpioPins |-> IF p \notin changed THEN pins[p]
                                ELSE IF p \in high THEN "HIGH" ELSE "LOW"]

GpioInit ==
    /\ registers \in RegisterSets
    /\ pins = [p \in GpioPins |-> "UNSET"]
    /\ reg = [value |-> {}, input_en |-> {}, output_en |-> {}, port |-> {}, pullup_en |-> {},
              rise_intr_en |-> {}, rise_intr_pending |-> GpioPins,
              fall_intr_en |-> {}, fall_intr_pending |-> GpioPins, iof_en |-> {}]
    /\ asyncEvent = FALSE
    /\ snapshot = NoPins
    /\ client = NoRequest
    /\ followed = {}

-----------------------------------------------------------------------------
\* The server's thread: SET_BIT up to the read of state_prev.
SetBit(p, val) ==
    /\ client.at = "read"
    /\ pins[p] # "IOF"
    /\ Repeats \/ pins[p] # val
    /\ client' = [at |-> "write", pin |-> p, val |-> val, prev |-> pins[p]]
    /\ UNCHANGED <<registers, pins, reg, asyncEvent, snapshot, followed>>

AsyncOnchangeWrite ==
    /\ client.at = "write"
    /\ pins' = [pins EXCEPT ![client.pin] = client.val]
    /\ client' = [client EXCEPT !.at = "compare"]
    /\ UNCHANGED <<registers, reg, asyncEvent, snapshot, followed>>

\* Mutant: the event is notified for rising pins only.
AsyncOnchangeCompareRising ==
    /\ client.at = "compare"
    /\ asyncEvent' = (asyncEvent \/ client.prev = "LOW")
    /\ client' = NoRequest
    /\ UNCHANGED <<registers, pins, reg, snapshot, followed>>

\* The comparison reads the pin again.
AsyncOnchangeCompare ==
    /\ client.at = "compare"
    /\ asyncEvent' = (asyncEvent \/ client.prev # pins[client.pin])
    /\ client' = NoRequest
    /\ UNCHANGED <<registers, pins, reg, snapshot, followed>>

-----------------------------------------------------------------------------
\* synchronousChange: an input that nobody drives is what its pull-up says.
Pulled(p) ==
    IF pins[p] = "UNSET" /\ p \in reg.input_en
    THEN IF p \in reg.pullup_en THEN "HIGH" ELSE "LOW"
    ELSE pins[p]

Risen == {p \in reg.input_en : p \notin reg.value /\ Pulled(p) = "HIGH"}
Fallen == {p \in reg.input_en : p \in reg.value /\ Pulled(p) = "LOW"}
FiresRise == Risen \cap reg.rise_intr_en \cap reg.rise_intr_pending
FiresFall == Fallen \cap reg.fall_intr_en \cap reg.fall_intr_pending
Fires == FiresRise \cup FiresFall                 \* gateway_trigger_interrupt

\* Mutant: an edge takes the flag whether or not its interrupt is enabled.
SnapshotTakesFlags ==
    /\ asyncEvent /\ snapshot = NoPins
    /\ asyncEvent' = FALSE
    /\ snapshot' = [p \in GpioPins |-> Pulled(p)]
    /\ reg' = [reg EXCEPT !.value = (@ \cup Risen) \ Fallen,
                          !.rise_intr_pending = @ \ Risen,
                          !.fall_intr_pending = @ \ Fallen]
    /\ followed' = {p \in reg.input_en : Pulled(p) # "IOF"}
    /\ UNCHANGED <<registers, pins, client>>

Snapshot ==
    /\ asyncEvent /\ snapshot = NoPins
    /\ asyncEvent' = FALSE
    /\ snapshot' = [p \in GpioPins |-> Pulled(p)]
    /\ reg' = [reg EXCEPT !.value = (@ \cup Risen) \ Fallen,
                          !.rise_intr_pending = @ \ FiresRise,
                          !.fall_intr_pending = @ \ FiresFall]
    /\ followed' = {p \in reg.input_en : Pulled(p) # "IOF"}
    /\ UNCHANGED <<registers, pins, client>>

WriteBack ==
    /\ snapshot # NoPins
    /\ pins' = snapshot
    /\ snapshot' = NoPins
    /\ UNCHANGED <<registers, reg, asyncEvent, client, followed>>

-----------------------------------------------------------------------------
\* register_access_callback, between two runs of the SC_METHOD.

Write(register, nv) == register \in registers /\ snapshot = NoPins /\ nv # reg[register]
Unattended == UNCHANGED <<registers, asyncEvent, snapshot, client>>

WritePort(nv) ==
    LET new == (nv \cap reg.output_en) \ reg.iof_en
        changed == Flip((reg.port \cap reg.output_en) \ reg.iof_en, new)
    IN  /\ Write("port", nv)
        /\ reg' = [reg EXCEPT !.port = nv,
                              !.value = IF changed = {} THEN @ ELSE (@ \ reg.output_en) \cup new]
        /\ DriveTo(changed, new)
        /\ followed' = IF changed = {} THEN followed ELSE followed \ (reg.output_en \ changed)
        /\ Unattended

WritePullupEn(nv) ==
    LET newly == nv \ reg.pullup_en
    IN  /\ Write("pullup_en", nv)
        /\ reg' = [reg EXCEPT !.pullup_en = nv, !.value = @ \cup newly]
        /\ DriveTo(newly, newly)
        /\ UNCHANGED followed
        /\ Unattended

WriteOutputEn(nv) ==
    LET disabled == reg.output_en \ nv
        enabled == nv \ reg.output_en
        value == (reg.value \ reg.output_en) \cup (reg.port \cap nv)
    IN  /\ Write("output_en", nv)
        /\ reg' = [reg EXCEPT !.output_en = nv, !.value = value]
        /\ pins' = [p \in GpioPins |-> IF p \in disabled THEN "UNSET"
                                       ELSE IF p \notin enabled THEN pins[p]
                                       ELSE IF p \in value THEN "HIGH" ELSE "LOW"]
        /\ followed' = followed \ (reg.output_en \cap nv)
        /\ Unattended

WriteIofEn(nv) ==
    /\ Write("iof_en", nv)
    /\ reg' = [reg EXCEPT !.iof_en = nv]
    /\ pins' = [p \in GpioPins |-> IF p \in nv \cap IofPins THEN "IOF" ELSE pins[p]]
    /\ followed' = followed \ (nv \cap IofPins)
    /\ Unattended

\* Registers without a handler.
WritePlain(register, nv) ==
    /\ register \in {"rise_intr_en", "rise_intr_pending", "fall_intr_en", "fall_intr_pending", "input_en"}
    /\ Write(register, nv)
    /\ reg' = [reg EXCEPT ![register] = nv]
    /\ followed' = IF register = "input_en" THEN followed \cap nv ELSE followed
    /\ UNCHANGED pins
    /\ Unattended

\* A handler arms the pins' flags again by setting their bits.
Rearm(ps) ==
    /\ snapshot = NoPins
    /\ reg' = [reg EXCEPT !.rise_intr_pending = @ \cup ps, !.fall_intr_pending = @ \cup ps]
    /\ UNCHANGED <<pins, followed>>
    /\ Unattended

ClientStep ==
    \/ \E p \in GpioPins, val \in Levels : SetBit(p, val)
    \/ AsyncOnchangeWrite
    \/ AsyncOnchangeCompare

RegisterWrite ==
    \E nv \in SUBSET GpioPins :
        \/ WritePort(nv) \/ WritePullupEn(nv) \/ WriteOutputEn(nv) \/ WriteIofEn(nv)
        \/ \E register \in registers : WritePlain(register, nv)

-----------------------------------------------------------------------------
(* The value register and the pins differ only while a change is on its way
   (gpio.cpp:109): a client's write, the event it notifies, or the snapshot
   that is to be written back.  Inputs only, since they were last looked at. *)
ValueFollowsPins ==
    (client.at = "read" /\ ~asyncEvent /\ snapshot = NoPins) =>
        \A p \in followed : p \in reg.value <=> pins[p] = "HIGH"
=============================================================================
