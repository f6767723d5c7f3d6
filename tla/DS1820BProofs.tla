---------------------------- MODULE DS1820BProofs -----------------------------
(***************************************************************************)
(* Theorems about DS1820B, for any number of buses, sensors and inputs,    *)
(* however wired, and any length of a conversion.                          *)
(***************************************************************************)
EXTENDS DS1820B, TLAPS

Bounds == /\ N \in Nat \ {0} /\ If \in [Input -> Sensor] /\ BusOf \in [Sensor -> Bus]
          /\ CONV \in Nat \ {0} /\ LOG \in Nat \ {0}
          /\ MaxUnplugs \in Nat /\ MaxCmds \in Nat /\ None \notin Sensor

LEMMA BoundsHold == Bounds
BY WiringAssumption, InputAssumption, TimeAssumption, BoundsAssumption DEF Bounds

LEMMA Min0Type == \A a, m \in Nat : \A k \in 0 .. m : Min0(k - a) \in 0 .. m
BY DEF Min0

LEMMA AfterType ==
    ASSUME TypeOK, NEW t \in Nat
    PROVE  /\ ConvAfter(t) \in [Sensor -> 0 .. CONV]
           /\ ScratchAfter(t) \in [Sensor -> {"own", "earlier", "power_on"}]
           /\ WaitAfter(t) \in [Input -> 0 .. LOG]
<1>1. ASSUME NEW s \in Sensor PROVE Min0(conv[s] - t) \in 0 .. CONV
  BY BoundsHold, Min0Type DEF Bounds, TypeOK
<1>2. ASSUME NEW n \in Input PROVE Min0(wait[n] - t) \in 0 .. LOG
  BY BoundsHold, Min0Type DEF Bounds, TypeOK
<1>3. \A s \in Sensor : scratch[s] \in {"own", "earlier", "power_on"}
  BY DEF TypeOK
<1> QED
  BY <1>1, <1>2, <1>3 DEF ConvAfter, ScratchAfter, WaitAfter

LEMMA DisturbType ==
    ASSUME TypeOK, NEW b \in Bus, Disturb(b)
    PROVE  /\ (answering \in [Bus -> Sensor \cup {None}])'
           /\ (disturbed \in [Sensor -> BOOLEAN])'
BY DEF TypeOK, Disturb, Silence

LEMMA ConverseType ==
    ASSUME TypeOK, NEW b \in Bus, NEW S \in SUBSET Sensor, Converse(S, b)
    PROVE  /\ (answering \in [Bus -> Sensor \cup {None}])'
           /\ (conv \in [Sensor -> 0 .. CONV])'
           /\ (scratch \in [Sensor -> {"own", "earlier", "power_on"}])'
           /\ (wait \in [Input -> 0 .. LOG])' /\ UNCHANGED disturbed
<1>1. CONV \in Nat /\ 0 \in 0 .. CONV
  BY BoundsHold DEF Bounds
<1>2. \A s \in Sensor : ConvAfter(CONV)[s] \in 0 .. CONV
                        /\ ScratchAfter(CONV)[s] \in {"own", "earlier", "power_on"}
  BY <1>1, AfterType
<1>3. WaitAfter(CONV) \in [Input -> 0 .. LOG]
  BY <1>1, AfterType
<1> QED
  BY <1>1, <1>2, <1>3 DEF TypeOK, Converse, Silence

LEMMA TypeInit == Init => TypeOK
<1> SUFFICES ASSUME Init PROVE TypeOK
  OBVIOUS
<1>1. LOG \in 0 .. LOG /\ 0 \in 0 .. CONV /\ 1 \in 1 .. N + 1
      /\ 0 \in 0 .. MaxUnplugs /\ 0 \in 0 .. MaxCmds
  BY BoundsHold DEF Bounds
<1> QED
  BY <1>1 DEF Init, TypeOK

LEMMA OperateType ==
    ASSUME TypeOK, NEW n \in Input, InputOperate(n)
    PROVE  TypeOK'
<1> DEFINE i == If[n]  b == BusOf[i]
<1>1. i \in Sensor /\ b \in Bus
  BY BoundsHold DEF Bounds
<1>2. cur' \in 1 .. N + 1
  BY BoundsHold DEF Bounds, TypeOK, InputOperate, NotDue, TakeReading, StillConverting,
                    StartConversion, SensorGone, Leave, Input
<1>3. ASSUME Logged(n) PROVE wait' \in [Input -> 0 .. LOG]
  <2>1. PICK w \in 1 .. LOG : wait' = [wait EXCEPT ![n] = w]
    BY <1>3 DEF Logged
  <2>2. w \in 0 .. LOG
    BY BoundsHold DEF Bounds
  <2> QED BY <2>1, <2>2 DEF TypeOK
<1>4. CASE NotDue(n)
  BY <1>2, <1>4 DEF TypeOK, NotDue, interface, inputs, bus
<1>5. CASE TakeReading(n)
  <2>1. answering' \in [Bus -> Sensor \cup {None}]
    BY <1>1, <1>5 DEF TypeOK, TakeReading, Silence
  <2>2. /\ status' \in [Sensor -> {"DISABLED_INIT", "DISABLED_ERROR", "ENABLED_RUN",
                                   "ENABLED_BUSY", "ENABLED_INVALID_DATA"}]
        /\ taken' \in [Input -> {"none", "own", "earlier"}]
    BY <1>1, <1>5 DEF TypeOK, TakeReading
  <2> QED BY <1>1, <1>2, <1>3, <1>5, <2>1, <2>2 DEF TypeOK, TakeReading
<1>6. CASE StillConverting(n)
  BY <1>1, <1>2, <1>6 DEF TypeOK, StillConverting, bus
<1>7. CASE StartConversion(n)
  <2>1. CONV \in 0 .. CONV
    BY BoundsHold DEF Bounds
  <2>2. /\ answering' \in [Bus -> Sensor \cup {None}] /\ conv' \in [Sensor -> 0 .. CONV]
        /\ scratch' \in [Sensor -> {"own", "earlier", "power_on"}]
        /\ disturbed' \in [Sensor -> BOOLEAN]
    BY <1>1, <1>7, <2>1 DEF TypeOK, StartConversion, Request
  <2> QED BY <1>1, <1>2, <1>7, <2>2 DEF TypeOK, StartConversion
<1>8. CASE SensorGone(n)
  <2>1. Disturb(b)
    BY <1>8 DEF SensorGone
  <2>2. conv' = conv /\ scratch' = scratch
    BY <2>1 DEF Disturb
  <2> QED BY <1>1, <1>2, <1>3, <1>8, <2>1, <2>2, DisturbType DEF TypeOK, SensorGone
<1> QED
  BY <1>4, <1>5, <1>6, <1>7, <1>8 DEF InputOperate

LEMMA ConsoleType == TypeOK /\ (NoCommand \/ Console) => TypeOK'
<1> SUFFICES ASSUME TypeOK, NoCommand \/ Console PROVE TypeOK'
  OBVIOUS
<1>1. cur' \in 1 .. N + 1 /\ cmds' \in 0 .. MaxCmds
  <2>1. cur' = 1 /\ (cmds' = cmds \/ (cmds < MaxCmds /\ cmds' = cmds + 1))
    <3>1. CASE NoCommand
      <4>1. cur' = 1 /\ cmds' = cmds
        BY <3>1 DEF NoCommand
      <4> QED BY <4>1
    <3>2. CASE Console
      <4>1. Command
        BY <3>2 DEF Console, RegIFDS1820BRead, InterfaceDS1820B_Setup,
                    RegIFOneWireScan, RegIFOneWireAssignBID
      <4> QED BY <4>1 DEF Command
    <3> QED BY <3>1, <3>2
  <2>2. N \in Nat \ {0} /\ MaxCmds \in Nat /\ cmds \in 0 .. MaxCmds
    BY BoundsHold DEF Bounds, TypeOK
  <2> QED BY <2>1, <2>2
<1>2. ASSUME NEW b \in Bus, Disturb(b) PROVE UNCHANGED <<conv, scratch>>
  BY <1>2 DEF Disturb
<1>3. \A i \in Sensor : BusOf[i] \in Bus /\ {i} \in SUBSET Sensor
  BY BoundsHold DEF Bounds
<1>4. CASE NoCommand
  BY <1>1, <1>4 DEF TypeOK, NoCommand, interface, inputs, bus
<1>5. ASSUME NEW i \in Sensor, RegIFDS1820BRead(i) PROVE TypeOK'
  <2>1. CASE plugged[i]
    <3>1. Converse({i}, BusOf[i])
      BY <1>5, <2>1 DEF RegIFDS1820BRead, ReadAndWait
    <3> QED BY <1>1, <1>3, <1>5, <2>1, <3>1, ConverseType
            DEF TypeOK, RegIFDS1820BRead, ReadAndWait
  <2>2. CASE ~plugged[i]
    <3>1. Disturb(BusOf[i])
      BY <1>5, <2>2 DEF RegIFDS1820BRead, ReadAndWait
    <3> QED BY <1>1, <1>2, <1>3, <1>5, <2>2, <3>1, DisturbType
            DEF TypeOK, RegIFDS1820BRead, ReadAndWait
  <2> QED BY <2>1, <2>2
<1>6. ASSUME NEW i \in Sensor, InterfaceDS1820B_Setup(i) PROVE TypeOK'
  <2>1. CASE plugged[i]
    <3>1. Converse({i}, BusOf[i])
      BY <1>6, <2>1 DEF InterfaceDS1820B_Setup
    <3> QED BY <1>1, <1>3, <1>6, <2>1, <3>1, ConverseType DEF TypeOK, InterfaceDS1820B_Setup
  <2>2. CASE ~plugged[i]
    <3>1. Disturb(BusOf[i])
      BY <1>6, <2>2 DEF InterfaceDS1820B_Setup
    <3> QED BY <1>1, <1>2, <1>3, <1>6, <2>2, <3>1, DisturbType
            DEF TypeOK, InterfaceDS1820B_Setup
  <2> QED BY <2>1, <2>2
<1>7. ASSUME NEW b \in Bus, RegIFOneWireScan(b) PROVE TypeOK'
  <2>1. Found(b) \in SUBSET Sensor
    BY DEF Found
  <2>2. CASE Converse(Found(b), b)
    BY <1>1, <1>7, <2>1, <2>2, ConverseType
       DEF TypeOK, RegIFOneWireScan, interface
  <2>3. CASE Disturb(b) /\ UNCHANGED wait
    BY <1>1, <1>2, <1>7, <2>3, DisturbType DEF TypeOK, RegIFOneWireScan, interface
  <2> QED BY <1>7, <2>2, <2>3 DEF RegIFOneWireScan, ScanAndMatchDallasSensors
<1>8. ASSUME NEW b \in Bus, RegIFOneWireAssignBID(b) PROVE TypeOK'
  BY <1>1, <1>2, <1>8, DisturbType DEF TypeOK, RegIFOneWireAssignBID,
     AssignDallasSensor, interface
<1> QED
  BY <1>4, <1>5, <1>6, <1>7, <1>8 DEF Console

LEMMA WorldType ==
    TypeOK /\ (Tick \/ \E s \in Sensor : Unplug(s) \/ Plug(s)) => TypeOK'
<1> SUFFICES ASSUME TypeOK, Tick \/ \E s \in Sensor : Unplug(s) \/ Plug(s) PROVE TypeOK'
  OBVIOUS
<1>1. CASE Tick
  BY <1>1, AfterType DEF TypeOK, Tick, interface
<1>2. ASSUME NEW s \in Sensor, Unplug(s) PROVE TypeOK'
  <2>4. unplugs < MaxUnplugs /\ unplugs' = unplugs + 1
    BY <1>2 DEF Unplug
  <2>5. unplugs \in 0 .. MaxUnplugs /\ MaxUnplugs \in Nat
    BY BoundsHold DEF Bounds, TypeOK
  <2>6. unplugs' \in 0 .. MaxUnplugs
    BY <2>4, <2>5
  <2>1. 0 \in 0 .. CONV /\ BusOf[s] \in Bus /\ unplugs' \in 0 .. MaxUnplugs
    BY <2>6, BoundsHold DEF Bounds
  <2>2. /\ answering' \in [Bus -> Sensor \cup {None}]
        /\ disturbed' \in [Sensor -> BOOLEAN]
    <3>1. CASE answering[BusOf[s]] = s
      <4>1. answering' = [answering EXCEPT ![BusOf[s]] = None]
        BY <1>2, <3>1 DEF Unplug, Silence
      <4>2. disturbed' = [r \in Sensor |->
                 disturbed[r] \/ r = s \/ (BusOf[r] = BusOf[s] /\ conv[r] > 0)]
        BY <1>2, <3>1, Zenon DEF Unplug
      <4>3. answering' \in [Bus -> Sensor \cup {None}]
        BY <4>1, <2>1 DEF TypeOK
      <4>4. disturbed' \in [Sensor -> BOOLEAN]
        BY <4>2, Zenon
      <4> QED BY <4>3, <4>4
    <3>2. CASE answering[BusOf[s]] # s
      BY <1>2, <3>2 DEF TypeOK, Unplug
    <3> QED BY <3>1, <3>2
  <2> QED BY <1>2, <2>1, <2>2 DEF TypeOK, Unplug, interface, inputs
<1>3. ASSUME NEW s \in Sensor, Plug(s) PROVE TypeOK'
  BY <1>3 DEF TypeOK, Plug, interface, inputs, bus
<1> QED
  BY <1>1, <1>2, <1>3

LEMMA TypeNext == TypeOK /\ [Next]_vars => TypeOK'
<1>1. TypeOK /\ UNCHANGED vars => TypeOK'
  BY DEF TypeOK, vars, interface, inputs, bus
<1> QED
  BY <1>1, OperateType, ConsoleType, WorldType DEF Next, MainLoop

(* Every variable of the sensors, their bus and their inputs keeps its     *)
(* type.                                                                   *)
THEOREM DallasTypeCorrect == Spec => []TypeOK
BY TypeInit, TypeNext, PTL DEF Spec
----------------------------------------------------------------------------
(* Whose reading it is.  A sensor whose reading somebody waits for has     *)
(* finished, or the one that answers on its bus has no less time to go.    *)

Waiting(i) == in_progress[i] /\ ~disturbed[i]
Finished(i) == conv[i] = 0 /\ scratch[i] = "own"
Covered(i) == /\ conv[i] > 0
              /\ answering[BusOf[i]] \in Sensor
              /\ conv[answering[BusOf[i]]] >= conv[i]

Answers == \A b \in Bus :
    answering[b] # None => answering[b] \in Sensor /\ BusOf[answering[b]] = b

Honest == \A i \in Sensor : Waiting(i) => Finished(i) \/ Covered(i)

LEMMA HonestInit == Init => Honest
BY DEF Init, Honest, Waiting

(* Who finds the bus done finds his own reading.                           *)
LEMMA CompleteIsOwn ==
    ASSUME TypeOK, Honest, NEW i \in Sensor, Waiting(i), isConversionComplete(BusOf[i])
    PROVE  Finished(i)
BY BoundsHold DEF Bounds, TypeOK, Honest, Covered, isConversionComplete

LEMMA HonestKept ==
    ASSUME Honest, UNCHANGED bus,
           \A i \in Sensor : in_progress'[i] => in_progress[i]
    PROVE  Honest'
BY DEF Honest, Waiting, Finished, Covered, bus

LEMMA HonestDisturbed ==
    ASSUME TypeOK, Honest, NEW b \in Bus, Disturb(b),
           \A i \in Sensor : in_progress'[i] => in_progress[i]
    PROVE  Honest'
<1> SUFFICES ASSUME NEW i \in Sensor, Waiting(i)'
             PROVE  Finished(i)' \/ Covered(i)'
  BY DEF Honest
<1>1. disturbed' = [s \in Sensor |-> disturbed[s] \/ (BusOf[s] = b /\ conv[s] > 0)]
      /\ conv' = conv /\ scratch' = scratch /\ answering' = [answering EXCEPT ![b] = None]
  BY DEF Disturb, Silence
<1>2. Waiting(i) /\ ~(BusOf[i] = b /\ conv[i] > 0)
  <2>1. ~disturbed'[i] /\ in_progress[i]
    BY DEF Waiting
  <2>2. disturbed'[i] = (disturbed[i] \/ (BusOf[i] = b /\ conv[i] > 0))
    BY <1>1, Zenon
  <2> QED BY <2>1, <2>2, Zenon DEF Waiting
<1>3. CASE Finished(i)
  BY <1>1, <1>3 DEF Finished
<1>4. CASE Covered(i)
  <2>1. BusOf[i] # b /\ BusOf[i] \in Bus
    BY <1>2, <1>4, BoundsHold DEF Covered, Bounds
  <2>2. answering'[BusOf[i]] = answering[BusOf[i]]
    BY <1>1, <2>1 DEF TypeOK
  <2> QED BY <1>1, <1>4, <2>2 DEF Covered
<1> QED
  BY <1>2, <1>3, <1>4 DEF Honest

(* When CONV ticks have gone by, every conversion is complete.             *)
LEMMA HonestConversed ==
    ASSUME TypeOK, Honest, NEW b \in Bus, NEW S \in SUBSET Sensor, Converse(S, b),
           \A i \in Sensor : in_progress'[i] => in_progress[i]
    PROVE  Honest'
<1> SUFFICES ASSUME NEW i \in Sensor, Waiting(i)' PROVE Finished(i)'
  BY DEF Honest
<1>1. Waiting(i)
  BY DEF Converse, Waiting
<1>2. conv'[i] = (IF i \in S THEN 0 ELSE ConvAfter(CONV)[i])
      /\ scratch'[i] = (IF i \in S THEN "own" ELSE ScratchAfter(CONV)[i])
  BY DEF Converse
<1>3. CASE i \in S
  BY <1>2, <1>3 DEF Finished
<1>4. CASE i \notin S
  <2>1. conv[i] \in 0 .. CONV /\ CONV \in Nat
    BY BoundsHold DEF Bounds, TypeOK
  <2>2. conv'[i] = Min0(conv[i] - CONV)
    BY <1>2, <1>4 DEF ConvAfter
  <2>3. conv'[i] = 0
    BY <2>1, <2>2 DEF Min0
  <2>4. scratch'[i] = IF conv[i] \in 1 .. CONV THEN "own" ELSE scratch[i]
    BY <1>2, <1>4 DEF ScratchAfter
  <2>5. CASE conv[i] = 0
    <3>1. scratch[i] = "own"
      BY <1>1, <2>5 DEF Honest, Finished, Covered
    <3> QED BY <2>3, <2>4, <3>1 DEF Finished
  <2>6. CASE conv[i] # 0
    <3>1. conv[i] \in 1 .. CONV
      BY <2>1, <2>6
    <3> QED BY <2>3, <2>4, <3>1 DEF Finished
  <2> QED BY <2>5, <2>6
<1> QED
  BY <1>3, <1>4

LEMMA HonestTick == TypeOK /\ Honest /\ Tick => Honest'
<1> SUFFICES ASSUME TypeOK, Honest, Tick, NEW i \in Sensor, Waiting(i)'
             PROVE  Finished(i)' \/ Covered(i)'
  BY DEF Honest
<1>1. Waiting(i) /\ answering' = answering
  BY DEF Tick, Waiting, interface
<1>2. /\ \A s \in Sensor : conv'[s] = Min0(conv[s] - 1)
      /\ scratch'[i] = IF conv[i] \in 1 .. 1 THEN "own" ELSE scratch[i]
  BY DEF Tick, ConvAfter, ScratchAfter
<1>3. \A s \in Sensor : conv[s] \in Nat
  BY BoundsHold DEF Bounds, TypeOK
<1>4. CASE Finished(i)
  <2>1. conv'[i] = 0 /\ scratch'[i] = "own"
    BY <1>2, <1>4 DEF Finished, Min0
  <2> QED BY <2>1 DEF Finished
<1>5. CASE Covered(i) /\ conv[i] = 1
  <2>1. conv'[i] = 0 /\ scratch'[i] = "own"
    BY <1>2, <1>5 DEF Min0
  <2> QED BY <2>1 DEF Finished
<1>6. CASE Covered(i) /\ conv[i] # 1
  <2> DEFINE a == answering[BusOf[i]]
  <2>1. a \in Sensor /\ conv[a] >= conv[i] /\ conv[i] > 1
    BY <1>3, <1>6 DEF Covered
  <2>2. conv'[i] = conv[i] - 1 /\ conv'[a] = conv[a] - 1
    BY <1>2, <1>3, <2>1 DEF Min0
  <2> QED BY <1>1, <1>3, <2>1, <2>2 DEF Covered
<1> QED
  BY <1>1, <1>4, <1>5, <1>6 DEF Honest

LEMMA HonestUnplug ==
    ASSUME TypeOK, Answers, Honest, NEW s \in Sensor, Unplug(s)
    PROVE  Honest'
<1> SUFFICES ASSUME NEW i \in Sensor, Waiting(i)' PROVE Finished(i)' \/ Covered(i)'
  BY DEF Honest
<1>1. conv' = [conv EXCEPT ![s] = 0] /\ scratch' = [scratch EXCEPT ![s] = "power_on"]
      /\ in_progress' = in_progress
  BY DEF Unplug, interface
<1>2. BusOf[i] \in Bus /\ BusOf[s] \in Bus
  BY BoundsHold DEF Bounds
<1>3. CASE answering[BusOf[s]] = s
  <2>1. disturbed' = [r \in Sensor |->
            disturbed[r] \/ r = s \/ (BusOf[r] = BusOf[s] /\ conv[r] > 0)]
    BY <1>3, Zenon DEF Unplug
  <2>2. disturbed'[i] = (disturbed[i] \/ i = s \/ (BusOf[i] = BusOf[s] /\ conv[i] > 0))
    BY <2>1, Zenon
  <2>3. ~disturbed[i] /\ i # s /\ ~(BusOf[i] = BusOf[s] /\ conv[i] > 0)
    BY <2>2, Zenon DEF Waiting
  <2>4. Waiting(i) /\ conv'[i] = conv[i] /\ scratch'[i] = scratch[i]
    BY <1>1, <2>3 DEF Waiting, TypeOK
  <2>5. CASE Finished(i)
    BY <2>4, <2>5 DEF Finished
  <2>6. CASE Covered(i)
    <3>1. BusOf[i] # BusOf[s]
      BY <2>3, <2>6 DEF Covered
    <3>2. answering'[BusOf[i]] = answering[BusOf[i]]
      BY <1>2, <1>3, <3>1 DEF Unplug, Silence, TypeOK
    <3>3. answering[BusOf[i]] \in Sensor \ {s}
      BY <1>2, <2>6, <3>1, BoundsHold DEF Answers, Covered, Bounds
    <3>4. conv'[answering[BusOf[i]]] = conv[answering[BusOf[i]]]
      BY <1>1, <3>3 DEF TypeOK
    <3> QED BY <2>4, <2>6, <3>2, <3>3, <3>4 DEF Covered
  <2> QED BY <2>4, <2>5, <2>6 DEF Honest
<1>4. CASE answering[BusOf[s]] # s
  <2>1. disturbed' = [disturbed EXCEPT ![s] = TRUE] /\ answering' = answering
    BY <1>4 DEF Unplug
  <2>2. i # s /\ disturbed'[i] = disturbed[i]
    BY <2>1 DEF Waiting, TypeOK
  <2>3. Waiting(i) /\ conv'[i] = conv[i] /\ scratch'[i] = scratch[i]
    BY <1>1, <2>2 DEF Waiting, TypeOK
  <2>4. CASE Finished(i)
    BY <2>3, <2>4 DEF Finished
  <2>5. CASE Covered(i)
    <3>1. answering[BusOf[i]] \in Sensor \ {s}
      BY <1>2, <1>4, <2>5, BoundsHold DEF Answers, Covered, Bounds
    <3>2. conv'[answering[BusOf[i]]] = conv[answering[BusOf[i]]]
      BY <1>1, <3>1 DEF TypeOK
    <3> QED BY <2>1, <2>3, <2>5, <3>1, <3>2 DEF Covered
  <2> QED BY <2>3, <2>4, <2>5 DEF Honest
<1> QED
  BY <1>3, <1>4

LEMMA HonestTakeReading ==
    ASSUME TypeOK, Honest, NEW n \in Input, TakeReading(n)
    PROVE  Honest'
<1> DEFINE b == BusOf[If[n]]
<1> SUFFICES ASSUME NEW i \in Sensor, Waiting(i)' PROVE Finished(i)' \/ Covered(i)'
  BY DEF Honest
<1>1. If[n] \in Sensor /\ b \in Bus /\ BusOf[i] \in Bus
  BY BoundsHold DEF Bounds
<1>2. UNCHANGED <<conv, scratch, disturbed>> /\ answering' = [answering EXCEPT ![b] = None]
      /\ isConversionComplete(b) /\ in_progress' = [in_progress EXCEPT ![If[n]] = FALSE]
  BY DEF TakeReading, Silence
<1>3. Waiting(i)
  BY <1>1, <1>2 DEF Waiting, TypeOK
<1>4. CASE BusOf[i] = b
  BY <1>2, <1>3, <1>4, CompleteIsOwn DEF Finished
<1>5. CASE BusOf[i] # b
  <2>1. answering'[BusOf[i]] = answering[BusOf[i]]
    BY <1>1, <1>2, <1>5 DEF TypeOK
  <2> QED BY <1>2, <1>3, <2>1 DEF Honest, Finished, Covered
<1> QED
  BY <1>4, <1>5

(* The sensor asked last takes longest, so it may answer for all others.   *)
LEMMA HonestStartConversion ==
    ASSUME TypeOK, Honest, NEW n \in Input, StartConversion(n)
    PROVE  Honest'
<1> DEFINE s == If[n]
<1> SUFFICES ASSUME NEW i \in Sensor, Waiting(i)' PROVE Finished(i)' \/ Covered(i)'
  BY DEF Honest
<1>1. s \in Sensor /\ BusOf[s] \in Bus /\ BusOf[i] \in Bus /\ CONV \in Nat \ {0}
  BY BoundsHold DEF Bounds
<1>2. /\ answering' = [answering EXCEPT ![BusOf[s]] = s]
      /\ conv' = [conv EXCEPT ![s] = CONV]
      /\ scratch' = [scratch EXCEPT ![s] = IF @ = "own" THEN "earlier" ELSE @]
      /\ disturbed' = [disturbed EXCEPT ![s] = FALSE]
      /\ in_progress' = [in_progress EXCEPT ![s] = TRUE]
  BY DEF StartConversion, Request
<1>3. \A r \in Sensor : conv[r] \in Nat /\ conv[r] <= CONV
  BY <1>1 DEF TypeOK
<1>4. CASE i = s
  <2>1. conv'[i] = CONV /\ answering'[BusOf[i]] = i
    BY <1>1, <1>2, <1>4 DEF TypeOK
  <2> QED BY <1>1, <2>1 DEF Covered
<1>5. CASE i # s
  <2>1. Waiting(i) /\ conv'[i] = conv[i] /\ scratch'[i] = scratch[i]
    BY <1>1, <1>2, <1>5 DEF Waiting, TypeOK
  <2>2. CASE Finished(i)
    BY <2>1, <2>2 DEF Finished
  <2>3. CASE Covered(i) /\ BusOf[i] = BusOf[s]
    <3>1. answering'[BusOf[i]] = s /\ conv'[s] = CONV
      BY <1>1, <1>2, <2>3 DEF TypeOK
    <3> QED BY <1>1, <1>3, <2>1, <2>3, <3>1 DEF Covered
  <2>4. CASE Covered(i) /\ BusOf[i] # BusOf[s]
    <3> DEFINE a == answering[BusOf[i]]
    <3>1. answering'[BusOf[i]] = a /\ a \in Sensor /\ conv[a] >= conv[i]
      BY <1>1, <1>2, <2>4 DEF TypeOK, Covered
    <3>2. conv'[a] = conv[a] \/ conv'[a] = CONV
      BY <1>1, <1>2, <3>1 DEF TypeOK
    <3> QED BY <1>1, <1>3, <2>1, <2>4, <3>1, <3>2 DEF Covered
  <2> QED BY <2>1, <2>2, <2>3, <2>4 DEF Honest
<1> QED
  BY <1>4, <1>5

LEMMA HonestOperate ==
    ASSUME TypeOK, Honest, NEW n \in Input, InputOperate(n)
    PROVE  Honest'
<1>1. CASE NotDue(n)
  BY <1>1, HonestKept DEF NotDue, interface
<1>2. CASE StillConverting(n)
  BY <1>2, HonestKept DEF StillConverting
<1>3. CASE SensorGone(n)
  <2>1. BusOf[If[n]] \in Bus
    BY BoundsHold DEF Bounds
  <2>2. Disturb(BusOf[If[n]]) /\ in_progress' = in_progress
    BY <1>3 DEF SensorGone
  <2> QED BY <2>1, <2>2, HonestDisturbed
<1> QED
  BY <1>1, <1>2, <1>3, HonestTakeReading, HonestStartConversion DEF InputOperate

LEMMA HonestConsole == TypeOK /\ Honest /\ Console => Honest'
<1> SUFFICES ASSUME TypeOK, Honest, Console PROVE Honest'
  OBVIOUS
<1>1. \A i \in Sensor : BusOf[i] \in Bus /\ {i} \in SUBSET Sensor
  BY BoundsHold DEF Bounds
<1>2. ASSUME NEW s \in Sensor, in_progress' = [in_progress EXCEPT ![s] = FALSE]
      PROVE  \A i \in Sensor : in_progress'[i] => in_progress[i]
  BY <1>2 DEF TypeOK
<1>3. ASSUME NEW i \in Sensor, RegIFDS1820BRead(i) \/ InterfaceDS1820B_Setup(i)
      PROVE  Honest'
  <2>1. in_progress' = [in_progress EXCEPT ![i] = FALSE]
    BY <1>3 DEF RegIFDS1820BRead, ReadAndWait, InterfaceDS1820B_Setup
  <2>2. Converse({i}, BusOf[i]) \/ Disturb(BusOf[i])
    BY <1>3 DEF RegIFDS1820BRead, ReadAndWait, InterfaceDS1820B_Setup
  <2>3. \A r \in Sensor : in_progress'[r] => in_progress[r]
    BY <1>2, <2>1
  <2> QED BY <1>1, <2>2, <2>3, HonestConversed, HonestDisturbed
<1>4. ASSUME NEW b \in Bus, RegIFOneWireScan(b) PROVE Honest'
  <2>1. Found(b) \in SUBSET Sensor
    BY DEF Found
  <2>2. in_progress' = in_progress /\ (Converse(Found(b), b) \/ Disturb(b))
    BY <1>4 DEF RegIFOneWireScan, ScanAndMatchDallasSensors, interface
  <2> QED BY <2>1, <2>2, HonestConversed, HonestDisturbed
<1>5. ASSUME NEW b \in Bus, RegIFOneWireAssignBID(b) PROVE Honest'
  <2>1. in_progress' = in_progress /\ Disturb(b)
    BY <1>5 DEF RegIFOneWireAssignBID, AssignDallasSensor, interface
  <2> QED BY <2>1, HonestDisturbed
<1> QED
  BY <1>3, <1>4, <1>5 DEF Console

(* Who answers on a bus is on it.                                          *)
LEMMA AnswersNext == TypeOK /\ Answers /\ [Next]_vars => Answers'
<1> SUFFICES ASSUME TypeOK, Answers, [Next]_vars PROVE Answers'
  OBVIOUS
<1>1. \A s \in Sensor : BusOf[s] \in Bus
  BY BoundsHold DEF Bounds
<1>2. ASSUME answering' = answering PROVE Answers'
  BY <1>2 DEF Answers
<1>3. ASSUME NEW b \in Bus, Silence(b) PROVE Answers'
  BY <1>3 DEF TypeOK, Answers, Silence
<1>4. ASSUME NEW s \in Sensor, Request(s) PROVE Answers'
  BY <1>1, <1>4 DEF TypeOK, Answers, Request
<1>5. ASSUME NEW n \in Input, InputOperate(n) PROVE Answers'
  <2>1. If[n] \in Sensor
    BY BoundsHold DEF Bounds
  <2>2. answering' = answering \/ Silence(BusOf[If[n]]) \/ Request(If[n])
    BY <1>5 DEF InputOperate, NotDue, TakeReading, StillConverting, StartConversion,
                SensorGone, Disturb, bus
  <2> QED BY <1>1, <1>2, <1>3, <1>4, <2>1, <2>2
<1>6. CASE Console
  <2>1. \E b \in Bus : Silence(b)
    <3>1. ASSUME NEW i \in Sensor, RegIFDS1820BRead(i) \/ InterfaceDS1820B_Setup(i)
          PROVE  Silence(BusOf[i])
      BY <3>1 DEF RegIFDS1820BRead, ReadAndWait, InterfaceDS1820B_Setup, Converse, Disturb
    <3>2. ASSUME NEW b \in Bus, RegIFOneWireScan(b) \/ RegIFOneWireAssignBID(b)
          PROVE  Silence(b)
      BY <3>2 DEF RegIFOneWireScan, ScanAndMatchDallasSensors,
         RegIFOneWireAssignBID, AssignDallasSensor, Converse, Disturb
    <3> QED BY <1>1, <1>6, <3>1, <3>2 DEF Console
  <2> QED BY <1>3, <2>1
<1>7. CASE NoCommand \/ Tick \/ UNCHANGED vars
  BY <1>2, <1>7 DEF NoCommand, Tick, vars, bus
<1>8. ASSUME NEW s \in Sensor, Unplug(s) \/ Plug(s) PROVE Answers'
  <2>1. answering' = answering \/ Silence(BusOf[s])
    BY <1>8 DEF Unplug, Plug, bus
  <2> QED BY <1>1, <1>2, <1>3, <2>1
<1> QED
  BY <1>5, <1>6, <1>7, <1>8 DEF Next, MainLoop

LEMMA HonestNext == TypeOK /\ Answers /\ Honest /\ [Next]_vars => Honest'
<1> SUFFICES ASSUME TypeOK, Answers, Honest, [Next]_vars PROVE Honest'
  OBVIOUS
<1>1. CASE NoCommand \/ UNCHANGED vars
  BY <1>1, HonestKept DEF NoCommand, vars, interface
<1>2. ASSUME NEW s \in Sensor, Plug(s) PROVE Honest'
  BY <1>2, HonestKept DEF Plug, interface
<1> QED
  BY <1>1, <1>2, HonestOperate, HonestConsole, HonestTick, HonestUnplug DEF Next, MainLoop

(* An input takes a reading older than its request only if the bus was     *)
(* disturbed under the conversion.                                         *)
THEOREM DallasReadingIsOwn == Spec => ReadingIsOwn
<1> DEFINE OwnStep == \A n \in Input :
        taken[n] # "earlier" /\ taken'[n] = "earlier" => disturbed[If[n]]
<1>1. Init => Answers /\ Honest
  BY HonestInit DEF Init, Answers
<1>2. ASSUME TypeOK, Honest, Next, NEW n \in Input,
             taken[n] # "earlier", taken'[n] = "earlier"
      PROVE  disturbed[If[n]]
  <2>1. TakeReading(n)
    <3>1. \A m \in Input : NotDue(m) => taken' = taken
      BY DEF NotDue, inputs
    <3>2. \A m \in Input : StillConverting(m) \/ StartConversion(m) \/ SensorGone(m)
                               => taken' = [taken EXCEPT ![m] = "none"]
      BY DEF StillConverting, StartConversion, SensorGone
    <3>3. \A m \in Input : TakeReading(m) => \E r : taken' = [taken EXCEPT ![m] = r]
      BY DEF TakeReading
    <3>4. NoCommand \/ Console \/ Tick \/ (\E s \in Sensor : Unplug(s) \/ Plug(s))
            => taken' = taken
      BY DEF NoCommand, Console, RegIFDS1820BRead, InterfaceDS1820B_Setup,
             RegIFOneWireScan, RegIFOneWireAssignBID, Tick, Unplug, Plug, inputs
    <3>5. PICK m \in Input : InputOperate(m)
      BY <1>2, <3>4 DEF Next, MainLoop
    <3> QED BY <1>2, <3>1, <3>2, <3>3, <3>5 DEF InputOperate, TypeOK
  <2>2. in_progress[If[n]] /\ isConversionComplete(BusOf[If[n]]) /\ If[n] \in Sensor
    BY <2>1, BoundsHold DEF TakeReading, Bounds
  <2>3. scratch[If[n]] = "earlier"
    BY <1>2, <2>1 DEF TakeReading, TypeOK
  <2> QED BY <1>2, <2>2, <2>3, CompleteIsOwn DEF Waiting, Finished
<1>3. TypeOK /\ Honest /\ [Next]_vars => [OwnStep]_vars
  BY <1>2
<1>4. TypeOK /\ Answers /\ Honest /\ [Next]_vars => (Answers /\ Honest)'
  BY AnswersNext, HonestNext
<1> QED
  BY <1>1, <1>3, <1>4, DallasTypeCorrect, PTL DEF Spec, ReadingIsOwn
=============================================================================
