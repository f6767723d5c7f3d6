------------------------------- MODULE DS1820B --------------------------------
(***************************************************************************)
(* Temperature sensors that share a one-wire bus (interfaces.cpp), read by *)
(* the inputs of the main loop without waiting (inputs.cpp): one visit     *)
(* asks for a conversion, a later one takes the reading.                   *)
(*                                                                         *)
(* The bus and its library are external.  A sensor that was told to        *)
(* convert answers the read slots of the bus until the bus is reset:       *)
(* "busy" while it converts.  A bus where nobody answers reads as "done".  *)
(* Reading a scratchpad resets the bus, and so does a search.  The         *)
(* scratchpad keeps its reading until the next one is complete; after      *)
(* power on it holds 85 degrees, which Read refuses (TEMP_C_HIGH).         *)
(* An interface is identified with the sensor it was assigned.             *)
(***************************************************************************)
EXTENDS Integers

CONSTANTS
    Sensor,      \* interfaces of type IF_DS1820B
    Bus, BusOf,  \* BusOf[s] is the bus that sensor s is on
    None,        \* nobody answers
    N, If,       \* inputs 1 .. N; If[n] is the interface of input n
    CONV,        \* ticks a conversion takes
    LOG,         \* ticks from one reading of an input to the next: log_rate
    MaxUnplugs,  \* bound on the sensors taken off the bus
    MaxCmds      \* bound on the console's commands

Input == 1 .. N

ASSUME WiringAssumption == BusOf \in [Sensor -> Bus] /\ None \notin Sensor
ASSUME InputAssumption == N \in Nat \ {0} /\ If \in [Input -> Sensor]
ASSUME TimeAssumption == CONV \in Nat \ {0} /\ LOG \in Nat \ {0}
ASSUME BoundsAssumption == MaxUnplugs \in Nat /\ MaxCmds \in Nat

VARIABLES
    in_progress, status,  \* of the interfaces
    wait,       \* ticks until an input is due
    taken,      \* auxiliary: what an input's last visit took for a reading
    cur,        \* input visited next; N + 1: the console is polled
    answering,  \* who answers the read slots of a bus
    conv,       \* ticks a sensor still converts
    scratch,    \* what its scratchpad holds: a reading asked for last
                \* ("own"), an older one, or none since power on
    plugged,
    disturbed,  \* auxiliary: the bus was reset for nothing, or the sensor
                \* was off, while it converted
    unplugs, cmds

interface == <<in_progress, status>>
inputs == <<wait, taken>>
bus == <<answering, conv, scratch, disturbed>>
vars == <<interface, inputs, cur, bus, plugged, unplugs, cmds>>

Min0(a) == IF a > 0 THEN a ELSE 0
----------------------------------------------------------------------------
(* The bus.                                                                *)

(* t ticks go by.                                                          *)
ConvAfter(t) == [s \in Sensor |-> Min0(conv[s] - t)]
ScratchAfter(t) ==
    [s \in Sensor |-> IF conv[s] \in 1 .. t THEN "own" ELSE scratch[s]]
WaitAfter(t) == [n \in Input |-> Min0(wait[n] - t)]

(* Defective variant: nobody looks whether the conversion is complete.     *)
CompleteAtOnce(b) == TRUE

isConversionComplete(b) ==
    \/ answering[b] = None
    \/ answering[b] \in Sensor /\ conv[answering[b]] = 0

Silence(b) == answering' = [answering EXCEPT ![b] = None]

(* A reset that no conversion follows.                                     *)
Disturb(b) ==
    /\ Silence(b)
    /\ disturbed' = [s \in Sensor |-> disturbed[s] \/ (BusOf[s] = b /\ conv[s] > 0)]
    /\ UNCHANGED <<conv, scratch>>

(* requestTemperaturesByAddress of a sensor that is there, no waiting.     *)
Request(i) ==
    /\ answering' = [answering EXCEPT ![BusOf[i]] = i]
    /\ conv' = [conv EXCEPT ![i] = CONV]
    /\ scratch' = [scratch EXCEPT ![i] = IF @ = "own" THEN "earlier" ELSE @]
    /\ disturbed' = [disturbed EXCEPT ![i] = FALSE]

(* A conversion that is waited for, of the sensors in S, all on bus b.     *)
Converse(S, b) ==
    /\ Silence(b)
    /\ conv' = [s \in Sensor |-> IF s \in S THEN 0 ELSE ConvAfter(CONV)[s]]
    /\ scratch' = [s \in Sensor |-> IF s \in S THEN "own" ELSE ScratchAfter(CONV)[s]]
    /\ wait' = WaitAfter(CONV)
    /\ UNCHANGED disturbed
----------------------------------------------------------------------------
(* InterfaceDS1820B_Read and its caller InputOperate.                      *)

Leave(n) == cur = n /\ cur' = n + 1

Due(n) == wait[n] = 0

(* Defective variant: the period after the current one is waited for.      *)
LoggedLate(n) == \E w \in 1 .. LOG : wait' = [wait EXCEPT ![n] = w + 1]

(* last_logged is put back to the start of the current period.             *)
Logged(n) == \E w \in 1 .. LOG : wait' = [wait EXCEPT ![n] = w]

NotDue(n) ==
    /\ Leave(n) /\ ~Due(n)
    /\ UNCHANGED <<interface, inputs, bus, plugged, unplugs, cmds>>

TakeReading(n) ==
    LET i == If[n] IN
    /\ Leave(n) /\ Due(n) /\ in_progress[i] /\ isConversionComplete(BusOf[i])
    /\ in_progress' = [in_progress EXCEPT ![i] = FALSE]
    /\ Silence(BusOf[i])
    /\ IF plugged[i] /\ scratch[i] # "power_on"
       THEN /\ status' = [status EXCEPT ![i] = "ENABLED_RUN"]
            /\ taken' = [taken EXCEPT ![n] = scratch[i]]
       ELSE /\ status' = [status EXCEPT ![i] = "ENABLED_INVALID_DATA"]
            /\ taken' = [taken EXCEPT ![n] = "none"]
    /\ Logged(n)
    /\ UNCHANGED <<conv, scratch, disturbed, plugged, unplugs, cmds>>

StillConverting(n) ==
    LET i == If[n] IN
    /\ Leave(n) /\ Due(n) /\ in_progress[i] /\ ~isConversionComplete(BusOf[i])
    /\ status' = [status EXCEPT ![i] = "ENABLED_BUSY"]
    /\ taken' = [taken EXCEPT ![n] = "none"]
    /\ UNCHANGED <<in_progress, wait, bus, plugged, unplugs, cmds>>

StartConversion(n) ==
    LET i == If[n] IN
    /\ Leave(n) /\ Due(n) /\ ~in_progress[i] /\ plugged[i]
    /\ Request(i)
    /\ in_progress' = [in_progress EXCEPT ![i] = TRUE]
    /\ status' = [status EXCEPT ![i] = "ENABLED_BUSY"]
    /\ taken' = [taken EXCEPT ![n] = "none"]
    /\ UNCHANGED <<wait, plugged, unplugs, cmds>>

(* Defective variant: an input whose sensor is gone tries again at once.   *)
SensorGoneUnlogged(n) ==
    LET i == If[n] IN
    /\ Leave(n) /\ Due(n) /\ ~in_progress[i] /\ ~plugged[i]
    /\ Disturb(BusOf[i])
    /\ status' = [status EXCEPT ![i] = "DISABLED_ERROR"]
    /\ taken' = [taken EXCEPT ![n] = "none"]
    /\ UNCHANGED <<in_progress, wait, plugged, unplugs, cmds>>

SensorGone(n) ==
    LET i == If[n] IN
    /\ Leave(n) /\ Due(n) /\ ~in_progress[i] /\ ~plugged[i]
    /\ Disturb(BusOf[i])
    /\ status' = [status EXCEPT ![i] = "DISABLED_ERROR"]
    /\ taken' = [taken EXCEPT ![n] = "none"]
    /\ Logged(n)
    /\ UNCHANGED <<in_progress, plugged, unplugs, cmds>>

InputOperate(n) ==
    \/ NotDue(n) \/ TakeReading(n) \/ StillConverting(n)
    \/ StartConversion(n) \/ SensorGone(n)
----------------------------------------------------------------------------
(* The console, after a pass.                                              *)

Command == cur = N + 1 /\ cur' = 1 /\ cmds < MaxCmds /\ cmds' = cmds + 1

NoCommand ==
    /\ cur = N + 1 /\ cur' = 1
    /\ UNCHANGED <<interface, inputs, bus, plugged, unplugs, cmds>>

(* A read that waits, by the console or by the set up of an input.         *)
ReadAndWait(i) ==
    /\ in_progress' = [in_progress EXCEPT ![i] = FALSE]
    /\ IF plugged[i]
       THEN /\ Converse({i}, BusOf[i])
            /\ status' = [status EXCEPT ![i] = "ENABLED_RUN"]
       ELSE /\ Disturb(BusOf[i]) /\ UNCHANGED wait
            /\ status' = [status EXCEPT ![i] = "DISABLED_ERROR"]

RegIFDS1820BRead(i) ==
    /\ Command /\ ReadAndWait(i)
    /\ UNCHANGED <<taken, plugged, unplugs>>

(* Disabled by the operator, and set up again.                             *)
InterfaceDS1820B_Setup(i) ==
    /\ Command
    /\ status' = [status EXCEPT ![i] = "DISABLED_INIT"]
    /\ in_progress' = [in_progress EXCEPT ![i] = FALSE]
    /\ IF plugged[i] THEN Converse({i}, BusOf[i])
       ELSE Disturb(BusOf[i]) /\ UNCHANGED wait
    /\ UNCHANGED <<taken, plugged, unplugs>>

(* What a search of the bus finds; each matches an interface.              *)
Found(b) == {s \in Sensor : BusOf[s] = b /\ plugged[s]}

(* Each sensor that is found converts in turn.                             *)
ScanAndMatchDallasSensors(b) ==
    IF Found(b) # {} THEN Converse(Found(b), b) ELSE Disturb(b) /\ UNCHANGED wait

RegIFOneWireScan(b) ==
    /\ Command /\ ScanAndMatchDallasSensors(b)
    /\ UNCHANGED <<interface, taken, plugged, unplugs>>

(* The search looks for a sensor that matches no interface: there is none. *)
AssignDallasSensor(b) == Disturb(b) /\ UNCHANGED wait

RegIFOneWireAssignBID(b) ==
    /\ Command /\ AssignDallasSensor(b)
    /\ UNCHANGED <<interface, taken, plugged, unplugs>>

MainLoop == NoCommand \/ \E n \in Input : InputOperate(n)

Console ==
    \/ \E i \in Sensor : RegIFDS1820BRead(i) \/ InterfaceDS1820B_Setup(i)
    \/ \E b \in Bus : RegIFOneWireScan(b) \/ RegIFOneWireAssignBID(b)
----------------------------------------------------------------------------
(* The world.                                                              *)

Tick ==
    /\ conv' = ConvAfter(1) /\ scratch' = ScratchAfter(1) /\ wait' = WaitAfter(1)
    /\ UNCHANGED <<interface, taken, cur, answering, disturbed, plugged, unplugs, cmds>>

Unplug(s) ==
    /\ plugged[s] /\ unplugs < MaxUnplugs
    /\ plugged' = [plugged EXCEPT ![s] = FALSE]
    /\ unplugs' = unplugs + 1
    /\ conv' = [conv EXCEPT ![s] = 0]
    /\ scratch' = [scratch EXCEPT ![s] = "power_on"]
    /\ IF answering[BusOf[s]] = s
       THEN /\ Silence(BusOf[s])
            /\ disturbed' = [r \in Sensor |->
                   disturbed[r] \/ r = s \/ (BusOf[r] = BusOf[s] /\ conv[r] > 0)]
       ELSE /\ disturbed' = [disturbed EXCEPT ![s] = TRUE]
            /\ UNCHANGED answering
    /\ UNCHANGED <<interface, inputs, cur, cmds>>

Plug(s) ==
    /\ ~plugged[s] /\ plugged' = [plugged EXCEPT ![s] = TRUE]
    /\ UNCHANGED <<interface, inputs, cur, bus, unplugs, cmds>>

(* After set up: every sensor has converted once.                          *)
Init ==
    /\ in_progress = [i \in Sensor |-> FALSE]
    /\ status = [i \in Sensor |-> "ENABLED_RUN"]
    /\ wait = [n \in Input |-> LOG] /\ taken = [n \in Input |-> "none"]
    /\ cur = 1
    /\ answering = [b \in Bus |-> None] /\ conv = [s \in Sensor |-> 0]
    /\ scratch = [s \in Sensor |-> "own"] /\ plugged = [s \in Sensor |-> TRUE]
    /\ disturbed = [s \in Sensor |-> FALSE] /\ unplugs = 0 /\ cmds = 0

Next ==
    \/ MainLoop \/ Console \/ Tick
    \/ \E s \in Sensor : Unplug(s) \/ Plug(s)

Spec == Init /\ [][Next]_vars

(* The main loop goes on, and so does time.  Nobody need plug a sensor in. *)
FairSpec == Spec /\ WF_vars(MainLoop) /\ WF_vars(Tick)
----------------------------------------------------------------------------
(* Properties.                                                             *)

(* Every variable keeps its type.                                          *)
TypeOK ==
    /\ in_progress \in [Sensor -> BOOLEAN]
    /\ status \in [Sensor -> {"DISABLED_INIT", "DISABLED_ERROR", "ENABLED_RUN",
                              "ENABLED_BUSY", "ENABLED_INVALID_DATA"}]
    /\ wait \in [Input -> 0 .. LOG]
    /\ taken \in [Input -> {"none", "own", "earlier"}]
    /\ cur \in 1 .. N + 1
    /\ answering \in [Bus -> Sensor \cup {None}]
    /\ conv \in [Sensor -> 0 .. CONV]
    /\ scratch \in [Sensor -> {"own", "earlier", "power_on"}]
    /\ plugged \in [Sensor -> BOOLEAN] /\ disturbed \in [Sensor -> BOOLEAN]
    /\ unplugs \in 0 .. MaxUnplugs /\ cmds \in 0 .. MaxCmds

(* Although InterfaceDS1820B_Read asks the bus, and not the sensor,        *)
(* whether the conversion is complete, and every reading silences the bus, *)
(* an input takes no reading older than its request: whoever answers has   *)
(* been converting for the shortest time.  Except when the bus was         *)
(* disturbed under the conversion.                                         *)
ReadingIsOwn ==
    [][\A n \in Input : taken[n] # "earlier" /\ taken'[n] = "earlier"
           => disturbed[If[n]]]_vars

(* Although the conversions of others keep the bus busy, an input that is  *)
(* due gets a reading, or an error, in the end, if no two inputs share an  *)
(* interface: of two that do, one may ask again as soon as the other has   *)
(* taken a reading, and the bus is busy whenever others look.              *)
DueIsServed ==
    (\A n, m \in Input : If[n] = If[m] => n = m) =>
        \A n \in Input : Due(n) ~> ~Due(n)
=============================================================================
