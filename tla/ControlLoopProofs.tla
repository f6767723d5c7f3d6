------------------------- MODULE ControlLoopProofs -------------------------
(***************************************************************************)
(* Theorems about ControlLoop, for every list length, every set of         *)
(* readings, pins and configurations.                                      *)
(***************************************************************************)
EXTENDS ControlLoop, TLAPS

(* The blocks whose set up clears the active flag.                         *)
Flagged(b) == ~IsType(b, InputType \cup {"CON_SYSTEM", "OUT_SYSTEM_CALL"})

LEMMA ClearedAre ==
    ASSUME TypeOK, NEW ready \in SUBSET Block
    PROVE  Cleared(ready) = {b \in ready : Flagged(b)}
BY DEF Cleared, MonitorSetup, RuleSetup, ControllerSetup, OfType, IsType,
       Flagged, TypeOK, Setting, BlockType, InputType, MonitorType, LowType,
       HighType, RuleType

(* Registry look-ups answer with values of the right type.                 *)
LEMMA LookupTypes ==
    ASSUME TypeOK, NEW id \in Ref
    PROVE  IsActive(id) \in {0, 1}
BY DEF TypeOK, IsActive, M_FF_ERROR

LEMMA SetCommandType ==
    ASSUME TypeOK, NEW id \in Ref, NEW cmd \in Command, NEW by \in Ref,
           SetCommand(id, cmd, by)
    PROVE  /\ command' \in [Block -> Command]
           /\ writer' \in [Block -> Ref]
BY DEF TypeOK, SetCommand

(* Setup keeps types, whatever set of blocks takes it.                     *)
LEMMA SetupType ==
    ASSUME TypeOK, NEW ready \in SUBSET Block, SetupReady(ready),
           conf' = conf, present' = present,
           phase' \in {"loaded", "validated", "operate", "settled", "polling"},
           cur' \in Block, cmds' \in Nat
    PROVE  TypeOK'
<1>1. PICK reading \in [OfType(ready, InputType) -> Temp \cup {0, 1, FLOAT_INIT}] :
         /\ \A b \in DOMAIN reading : reading[b] \in Readings(b)
         /\ status' = [b \in Block |->
                IF b \notin ready THEN status[b]
                ELSE StatusAfterSetup(b, IF b \in DOMAIN reading
                                         THEN reading[b] ELSE 0)]
         /\ fVal' = [b \in Block |->
                IF b \in OfType(ready, {"IN_ONEWIRE"}) /\ reading[b] # FLOAT_INIT
                THEN reading[b] ELSE fVal[b]]
         /\ bVal' = [b \in Block |->
                IF b \in ready /\ ReadsPin(b) THEN reading[b] ELSE bVal[b]]
         /\ touched' = touched \cup
                {b \in DOMAIN reading :
                    \/ IsType(b, {"IN_ONEWIRE"})
                    \/ ReadsPin(b)
                    \/ IsType(b, {"IN_VEDIRECT"}) /\ reading[b] # FLOAT_INIT}
  BY DEF SetupReady
<1>2. \A b \in Block : \A r : StatusAfterSetup(b, r) \in Status
  BY DEF StatusAfterSetup, Status, Enabled, Disabled
<1>3. status' \in [Block -> Status]
  BY <1>1, <1>2 DEF TypeOK
<1>4. ASSUME NEW b \in OfType(ready, {"IN_ONEWIRE"})
      PROVE  b \in DOMAIN reading /\ reading[b] \in Temp \cup {FLOAT_INIT}
  BY <1>1, <1>4 DEF OfType, IsType, InputType, Readings, HALDigitalRead
<1>5. fVal' \in [Block -> Temp \cup {FLOAT_INIT}]
  BY <1>1, <1>4 DEF TypeOK
<1>6. ASSUME NEW b \in ready, ReadsPin(b)
      PROVE  reading[b] \in {0, 1}
  BY <1>1, <1>6 DEF OfType, IsType, InputType, Readings, HALDigitalRead, ReadsPin
<1>7. bVal' \in [Block -> {0, 1}]
  BY <1>1, <1>6 DEF TypeOK
<1>8. touched' \subseteq Block
  BY <1>1 DEF TypeOK, OfType
<1>9. active' \in [Block -> {0, 1}]
  BY DEF SetupReady, TypeOK
<1>10. command' \in [Block -> Command]
  BY DEF SetupReady, TypeOK, Command
<1>11. pin' \in [Pins -> {"UNSET", "LOW", "HIGH"}]
  BY DEF SetupReady, TypeOK, PinAfterSetup
<1>12. writer' \in [Block -> Ref]
  BY NAssumption DEF SetupReady, TypeOK, WriterAfterSetup, Ref
<1> QED BY <1>3, <1>5, <1>7, <1>8, <1>9, <1>10, <1>11, <1>12 DEF TypeOK

(* One visit of a running block keeps types.                               *)
LEMMA OperateType ==
    ASSUME TypeOK, NEW b \in Block, OperateBlock(b)
    PROVE  /\ status' \in [Block -> Status]
           /\ active' \in [Block -> {0, 1}]
           /\ fVal' \in [Block -> Temp \cup {FLOAT_INIT}]
           /\ bVal' \in [Block -> {0, 1}]
           /\ touched' \subseteq Block
           /\ command' \in [Block -> Command]
           /\ pin' \in [Pins -> {"UNSET", "LOW", "HIGH"}]
           /\ writer' \in [Block -> Ref]
<1> DEFINE P == /\ status' \in [Block -> Status]
                /\ active' \in [Block -> {0, 1}]
                /\ fVal' \in [Block -> Temp \cup {FLOAT_INIT}]
                /\ bVal' \in [Block -> {0, 1}]
                /\ touched' \subseteq Block
                /\ command' \in [Block -> Command]
                /\ pin' \in [Pins -> {"UNSET", "LOW", "HIGH"}]
                /\ writer' \in [Block -> Ref]
<1>0. /\ conf[b] \in Setting
      /\ b \in Ref
  BY DEF TypeOK, Block, Ref
<1>1. CASE InputOperate(b)
  <2>1. /\ active' = active /\ command' = command /\ pin' = pin
        /\ writer' = writer
    BY <1>1 DEF InputOperate, HALDigitalRead
  <2>2. status' \in [Block -> Status]
    BY <1>1 DEF InputOperate, HALDigitalRead, TypeOK, Status, Enabled, Disabled
  <2>3. fVal' \in [Block -> Temp \cup {FLOAT_INIT}]
    BY <1>1 DEF InputOperate, HALDigitalRead, TypeOK
  <2>4. bVal' \in [Block -> {0, 1}] /\ touched' \subseteq Block
    BY <1>1 DEF InputOperate, HALDigitalRead, TypeOK
  <2> QED BY <2>1, <2>2, <2>3, <2>4 DEF TypeOK
<1>2. CASE MonitorOperate(b)
  <2>1. Latch(b) \in {0, 1}
    BY DEF Latch, TypeOK
  <2> QED BY <1>2, <2>1 DEF MonitorOperate, TypeOK, Status, Enabled
<1>3. CASE ScheduleOperate(b)
  BY <1>3 DEF ScheduleOperate, TypeOK, UINT8_INIT
<1>4. CASE RuleOperate(b)
  BY <1>4 DEF RuleOperate, TypeOK
<1>5. CASE ControllerOperate(b)
  <2>1. CASE IsType(b, {"CON_ONOFF"}) /\ IsActive(conf[b].ref1) # active[b]
    <3>1. active' \in [Block -> {0, 1}]
      BY <1>5, <2>1 DEF ControllerOperate, TypeOK
    <3>2. PICK cmd \in Command : SetCommand(conf[b].ref2, cmd, b)
      BY <1>0, <1>5, <2>1 DEF ControllerOperate, Setting
    <3>3. conf[b].ref2 \in Ref
      BY <1>0 DEF Setting
    <3>4. command' \in [Block -> Command] /\ writer' \in [Block -> Ref]
      BY <1>0, <3>2, <3>3, SetCommandType
    <3> QED BY <1>5, <3>1, <3>4 DEF ControllerOperate, TypeOK
  <2>2. CASE ~(IsType(b, {"CON_ONOFF"}) /\ IsActive(conf[b].ref1) # active[b])
    BY <1>5, <2>2 DEF ControllerOperate, TypeOK
  <2> QED BY <2>1, <2>2
<1>6. CASE OutputOperate(b)
  BY <1>6 DEF OutputOperate, HALDigitalWrite, TypeOK
<1> QED BY <1>1, <1>2, <1>3, <1>4, <1>5, <1>6 DEF OperateBlock

LEMMA AdvanceType ==
    ASSUME TypeOK, Advance
    PROVE  /\ cur' \in Block
           /\ phase' \in {"loaded", "validated", "operate", "settled", "polling"}
           /\ conf' = conf /\ present' = present /\ cmds' = cmds
BY NAssumption DEF TypeOK, Advance, Block

LEMMA PollType ==
    ASSUME TypeOK, Poll
    PROVE  /\ conf' = conf /\ cur' \in Block /\ cmds' \in Nat
           /\ phase' = "polling"
BY DEF TypeOK, Poll

LEMMA StatusType ==
    ASSUME TypeOK, NEW S, NEW s \in Status
    PROVE  /\ Validate(S) => status' \in [Block -> Status]
           /\ SetStatus(S, s) => status' \in [Block -> Status]
BY DEF TypeOK, Validate, SetStatus, Status, Disabled

(* The initial states, and every step, keep every variable in its type.    *)
LEMMA TypeInit == Init => TypeOK
BY NAssumption, NetworksAssumption
   DEF Init, TypeOK, Block, Ref, Status, Enabled, Disabled, Command

LEMMA TypeStep == TypeOK /\ [Next]_vars => TypeOK'
<1> SUFFICES ASSUME TypeOK, [Next]_vars PROVE TypeOK'
  OBVIOUS
<1>1. CASE ValidateAtBoot
  <2>1. status' \in [Block -> Status]
    BY <1>1, StatusType DEF ValidateAtBoot, Status, Disabled
  <2> QED BY <1>1, <2>1 DEF ValidateAtBoot, TypeOK
<1>2. CASE SetupAtBoot
  BY <1>2, SetupType, AwaitingSetup(Block) \in SUBSET Block
     DEF SetupAtBoot, Setup, TypeOK, AwaitingSetup
<1>3. CASE Operate
  <2>1. cur \in Block
    BY DEF TypeOK
  <2> QED BY <1>3, <2>1, OperateType, AdvanceType DEF Operate, TypeOK
<1>4. CASE PassOver
  BY <1>4, AdvanceType DEF PassOver, TypeOK
<1>5. CASE Loop
  BY <1>5 DEF Loop, TypeOK
<1>6. CASE RegSetCommandOnBlockID
  <2>1. PICK b \in present, cmd \in {"CMD_OUTPUT_ON", "CMD_OUTPUT_OFF"} :
            SetCommand(b, cmd, 0)
    BY <1>6 DEF RegSetCommandOnBlockID
  <2>2. b \in Ref /\ cmd \in Command /\ 0 \in Ref
    BY NAssumption DEF TypeOK, Block, Ref, Command
  <2>3. command' \in [Block -> Command] /\ writer' \in [Block -> Ref]
    BY <2>1, <2>2, SetCommandType
  <2> QED BY <1>6, <2>3, PollType DEF RegSetCommandOnBlockID, TypeOK
<1>7. CASE RegInitSetup
  <2>1. PICK S \in Targets : SetupReady(AwaitingSetup(S))
    BY <1>7 DEF RegInitSetup, Setup
  <2>2. AwaitingSetup(S) \in SUBSET Block
    BY DEF AwaitingSetup, TypeOK
  <2>3. /\ conf' = conf /\ present' = present /\ cur' \in Block
        /\ cmds' \in Nat /\ phase' = "polling"
    BY <1>7, PollType DEF RegInitSetup
  <2> QED BY <2>1, <2>2, <2>3, SetupType
<1>8. CASE RegInitValidate
  <2>1. status' \in [Block -> Status]
    BY <1>8, StatusType DEF RegInitValidate, Status, Disabled
  <2> QED BY <1>8, <2>1, PollType DEF RegInitValidate, TypeOK
<1>9. CASE RegInitDisable
  <2>1. status' \in [Block -> Status]
    BY <1>9, StatusType DEF RegInitDisable, Status, Disabled
  <2> QED BY <1>9, <2>1, PollType DEF RegInitDisable, TypeOK
<1>10. CASE RegAdminDisableBID
  <2>1. status' \in [Block -> Status]
    BY <1>10, StatusType DEF RegAdminDisableBID, Status, Disabled
  <2> QED BY <1>10, <2>1, PollType DEF RegAdminDisableBID, TypeOK
<1>11. CASE RegAdminEnableBID
  <2>1. status' \in [Block -> Status]
    BY <1>11, StatusType DEF RegAdminEnableBID, Status, Disabled
  <2> QED BY <1>11, <2>1, PollType DEF RegAdminEnableBID, TypeOK
<1>12. CASE RegConfigDeleteBID
  BY <1>12, PollType DEF RegConfigDeleteBID, TypeOK
<1>13. CASE UNCHANGED vars
  BY <1>13 DEF vars, TypeOK
<1> QED
  BY <1>1, <1>2, <1>3, <1>4, <1>5, <1>6, <1>7, <1>8, <1>9, <1>10, <1>11,
     <1>12, <1>13 DEF Next, MainLoop, Console

(* Every variable keeps its type.                                          *)
THEOREM TypeCorrect == Spec => []TypeOK
BY TypeInit, TypeStep, PTL DEF Spec
----------------------------------------------------------------------------
(* What one step may disturb.                                              *)

(* Settings never change.                                                  *)
LEMMA ConfConstant == [Next]_vars => conf' = conf
BY DEF Next, MainLoop, Console, vars, ValidateAtBoot, SetupAtBoot, Operate,
       PassOver, Advance, Loop, Poll, RegSetCommandOnBlockID, RegInitSetup,
       RegInitValidate, RegInitDisable, RegAdminDisableBID,
       RegAdminEnableBID, RegConfigDeleteBID

(* Of the flags and pins, a visit touches those of the block visited only, *)
(* and the pin only if the block is a digital output.                      *)
LEMMA OperateFrame ==
    ASSUME TypeOK, NEW b \in Block, OperateBlock(b)
    PROVE  /\ \A o \in Block \ {b} :
                  /\ status'[o] = status[o] /\ active'[o] = active[o]
                  /\ fVal'[o] = fVal[o] /\ bVal'[o] = bVal[o]
           /\ \A p \in Pins : pin'[p] # pin[p]
                  => IsType(b, {"OUT_DIGITAL"}) /\ p = conf[b].pin
<1>1. CASE InputOperate(b)
  BY <1>1 DEF InputOperate, HALDigitalRead, TypeOK
<1>2. CASE MonitorOperate(b)
  BY <1>2 DEF MonitorOperate, TypeOK
<1>3. CASE ScheduleOperate(b)
  BY <1>3 DEF ScheduleOperate, TypeOK
<1>4. CASE RuleOperate(b)
  BY <1>4 DEF RuleOperate, TypeOK
<1>5. CASE ControllerOperate(b)
  BY <1>5 DEF ControllerOperate, TypeOK
<1>6. CASE OutputOperate(b)
  BY <1>6 DEF OutputOperate, HALDigitalWrite, TypeOK
<1> QED BY <1>1, <1>2, <1>3, <1>4, <1>5, <1>6 DEF OperateBlock
----------------------------------------------------------------------------
(* An output alone on its pin: the flag and the pin agree.                 *)

(* Two outputs that have their pins to themselves share none.              *)
LEMMA ExclusivePin ==
    ASSUME NEW o \in Block, NEW q \in Block, Exclusive(o),
           IsType(q, {"OUT_DIGITAL"}), conf[q].pin = conf[o].pin
    PROVE  q = o
BY DEF Exclusive

LEMMA PinAfterSetupAgrees ==
    ASSUME TypeOK, PinMatchesActive, NEW ready \in SUBSET Block,
           SetupReady(ready), conf' = conf
    PROVE  PinMatchesActive'
<1> SUFFICES ASSUME NEW o \in Block, IsType(o, {"OUT_DIGITAL"}), Exclusive(o)
             PROVE  (pin'[conf[o].pin] = "HIGH") <=> (active'[o] = 1)
  BY DEF PinMatchesActive, IsType, Exclusive
<1>1. conf[o].pin \in Pins /\ conf[o].type = "OUT_DIGITAL"
  BY DEF TypeOK, Setting, IsType
<1>2. CASE o \in ready
  <2>1. pin'[conf[o].pin] = "LOW"
    BY <1>1, <1>2 DEF SetupReady, PinAfterSetup, OfType
  <2>2. active'[o] = 0
    BY <1>1, <1>2, ClearedAre DEF SetupReady, Flagged, IsType, InputType
  <2> QED BY <2>1, <2>2
<1>3. CASE o \notin ready
  <2>1. ~\E q \in OfType(ready, {"OUT_DIGITAL"}) : conf[q].pin = conf[o].pin
    BY <1>3, ExclusivePin DEF OfType
  <2>2. pin'[conf[o].pin] = pin[conf[o].pin]
    BY <1>1, <2>1 DEF SetupReady, PinAfterSetup
  <2>3. active'[o] = active[o]
    BY <1>3, ClearedAre DEF SetupReady
  <2> QED BY <2>2, <2>3 DEF PinMatchesActive
<1> QED BY <1>2, <1>3

LEMMA PinAfterOperateAgrees ==
    ASSUME TypeOK, PinMatchesActive, NEW b \in Block, OperateBlock(b),
           conf' = conf
    PROVE  PinMatchesActive'
<1> SUFFICES ASSUME NEW o \in Block, IsType(o, {"OUT_DIGITAL"}), Exclusive(o)
             PROVE  (pin'[conf[o].pin] = "HIGH") <=> (active'[o] = 1)
  BY DEF PinMatchesActive, IsType, Exclusive
<1>1. conf[o].pin \in Pins
  BY DEF TypeOK, Setting
<1>2. CASE o = b
  <2>1. OutputOperate(o)
    BY <1>2 DEF OperateBlock, IsType, InputType, MonitorType, LowType,
                HighType, RuleType
  <2> QED BY <1>1, <2>1 DEF OutputOperate, HALDigitalWrite, TypeOK, PinMatchesActive
<1>3. CASE o # b
  <2>1. active'[o] = active[o]
    BY <1>3, OperateFrame
  <2>2. pin'[conf[o].pin] = pin[conf[o].pin]
    BY <1>1, <1>3, OperateFrame, ExclusivePin
  <2> QED BY <2>1, <2>2 DEF PinMatchesActive
<1> QED BY <1>2, <1>3

LEMMA PinStep == TypeOK /\ PinMatchesActive /\ [Next]_vars => PinMatchesActive'
<1> SUFFICES ASSUME TypeOK, PinMatchesActive, [Next]_vars
             PROVE  PinMatchesActive'
  OBVIOUS
<1>1. conf' = conf
  BY ConfConstant
<1>2. CASE UNCHANGED <<active, pin>>
  BY <1>1, <1>2 DEF PinMatchesActive, Exclusive, IsType
<1>3. CASE SetupAtBoot \/ RegInitSetup
  <2>1. PICK S : SetupReady(AwaitingSetup(S))
    BY <1>3 DEF SetupAtBoot, RegInitSetup, Setup
  <2>2. AwaitingSetup(S) \in SUBSET Block
    BY DEF AwaitingSetup, TypeOK
  <2> QED BY <1>1, <2>1, <2>2, PinAfterSetupAgrees
<1>4. CASE Operate
  BY <1>1, <1>4, PinAfterOperateAgrees DEF Operate, TypeOK
<1> QED
  BY <1>2, <1>3, <1>4
     DEF Next, MainLoop, Console, vars, ValidateAtBoot, PassOver, Loop, Poll,
         RegSetCommandOnBlockID, RegInitValidate, RegInitDisable,
         RegAdminDisableBID, RegAdminEnableBID, RegConfigDeleteBID

LEMMA PinInit == Init => PinMatchesActive
BY NetworksAssumption DEF Init, PinMatchesActive, Setting

(* An output that has its pin to itself drives it high exactly while its   *)
(* active flag is set (OutputSetup, OutputOperate).                        *)
THEOREM PinAgrees == Spec => []PinMatchesActive
<1>1. Init => TypeOK /\ PinMatchesActive
  BY TypeInit, PinInit
<1>2. TypeOK /\ PinMatchesActive /\ [Next]_vars => (TypeOK /\ PinMatchesActive)'
  BY TypeStep, PinStep
<1> QED BY <1>1, <1>2, PTL DEF Spec----------------------------------------------------------------------------
(* An output holds the command of its controller's present state.          *)

(* CommandMatchesController is not inductive: an output that was deleted   *)
(* keeps its writer but no longer hears of it, and a step of some block    *)
(* other than a controller could change the flag of a writer if a writer   *)
(* were not known to be a controller of just this output.                  *)
WriterInv ==
    \A o \in Block : writer[o] # 0 =>
        LET c == conf[writer[o]] IN
        /\ c.type = "CON_ONOFF" /\ c.ref2 = o
        /\ IsType(o, {"OUT_DIGITAL", "OUT_SYSTEM_CALL"})
        /\ o \in present =>
              command[o] = IF active[writer[o]] = 1 THEN c.act_cmd ELSE c.deact_cmd

LEMMA WriterInvImplies == TypeOK /\ WriterInv => CommandMatchesController
BY DEF TypeOK, WriterInv, CommandMatchesController

LEMMA WriterIsBlock ==
    ASSUME TypeOK, NEW o \in Block, writer[o] # 0
    PROVE  writer[o] \in Block
BY NAssumption DEF TypeOK, Ref, Block

LEMMA WriterAfterSetupInv ==
    ASSUME TypeOK, WriterInv, NEW ready \in SUBSET Block,
           SetupReady(ready), conf' = conf, present' = present
    PROVE  WriterInv'
<1> SUFFICES ASSUME NEW o \in Block, writer'[o] # 0
             PROVE  LET c == conf[writer'[o]] IN
                    /\ c.type = "CON_ONOFF" /\ c.ref2 = o
                    /\ IsType(o, {"OUT_DIGITAL", "OUT_SYSTEM_CALL"})
                    /\ o \in present => command'[o] =
                          IF active'[writer'[o]] = 1 THEN c.act_cmd ELSE c.deact_cmd
  BY DEF WriterInv, IsType
<1>1. /\ writer'[o] = writer[o]
      /\ o \notin OfType(ready, {"OUT_DIGITAL"})
      /\ writer[o] \notin OfType(ready, {"CON_ONOFF"})
  BY DEF SetupReady, WriterAfterSetup
<1>2. writer[o] \in Block /\ conf[writer[o]].type = "CON_ONOFF"
  BY <1>1, WriterIsBlock DEF WriterInv
<1>3. writer[o] \notin ready
  BY <1>1, <1>2 DEF OfType, IsType
<1>4. active'[writer[o]] = active[writer[o]]
  BY <1>2, <1>3, ClearedAre DEF SetupReady
<1>5. command'[o] = command[o]
  BY <1>1 DEF SetupReady
<1> QED BY <1>1, <1>4, <1>5 DEF WriterInv

LEMMA WriterAfterOperateInv ==
    ASSUME TypeOK, WriterInv, NEW b \in Block, OperateBlock(b),
           conf' = conf, present' = present
    PROVE  WriterInv'
<1> DEFINE r == conf[b].ref2
           cmd == IF IsActive(conf[b].ref1) = 1 THEN conf[b].act_cmd
                                                ELSE conf[b].deact_cmd
           Heard == r \in present /\ IsType(r, {"OUT_DIGITAL", "OUT_SYSTEM_CALL"})
<1>0. conf[b].type = "CON_ONOFF" => ControllerOperate(b)
  BY DEF OperateBlock, IsType, InputType, MonitorType, LowType, HighType,
         RuleType
<1> SUFFICES ASSUME NEW o \in Block, writer'[o] # 0
             PROVE  LET c == conf[writer'[o]] IN
                    /\ c.type = "CON_ONOFF" /\ c.ref2 = o
                    /\ IsType(o, {"OUT_DIGITAL", "OUT_SYSTEM_CALL"})
                    /\ o \in present => command'[o] =
                          IF active'[writer'[o]] = 1 THEN c.act_cmd ELSE c.deact_cmd
  BY DEF WriterInv, IsType
<1>1. CASE conf[b].type = "CON_ONOFF" /\ IsActive(conf[b].ref1) # active[b]
  <2>1. /\ active' = [active EXCEPT ![b] = 1 - @]
        /\ SetCommand(r, cmd, b)
    BY <1>0, <1>1 DEF ControllerOperate, IsType
  <2>2. active'[b] = IsActive(conf[b].ref1)
    BY <1>1, <2>1, LookupTypes DEF TypeOK, Setting
  <2>3. CASE Heard /\ o = r
    <3>1. command'[o] = cmd /\ writer'[o] = b
      BY <2>1, <2>3 DEF SetCommand, TypeOK
    <3> QED BY <1>1, <2>2, <2>3, <3>1
  <2>4. CASE ~(Heard /\ o = r)
    <3>1. writer'[o] = writer[o] /\ command'[o] = command[o]
      BY <2>1, <2>4 DEF SetCommand, TypeOK
    <3>2. o \in present => writer[o] # b
      BY <2>4, <3>1 DEF WriterInv
    <3>3. o \in present => active'[writer[o]] = active[writer[o]]
      BY <2>1, <3>1, <3>2, WriterIsBlock DEF TypeOK
    <3> QED BY <3>1, <3>3 DEF WriterInv
  <2> QED BY <2>3, <2>4
<1>2. CASE ~(conf[b].type = "CON_ONOFF" /\ IsActive(conf[b].ref1) # active[b])
  <2>1. writer' = writer /\ command' = command
    BY <1>2 DEF OperateBlock, HALDigitalRead, InputOperate, MonitorOperate, ScheduleOperate,
                RuleOperate, ControllerOperate, OutputOperate, HALDigitalWrite, IsType
  <2>2. writer[o] \in Block /\ conf[writer[o]].type = "CON_ONOFF"
    BY <2>1, WriterIsBlock DEF WriterInv
  <2>3. CASE writer[o] = b
    BY <1>0, <1>2, <2>1, <2>2, <2>3 DEF ControllerOperate, IsType, WriterInv
  <2>4. CASE writer[o] # b
    <3>1. active'[writer[o]] = active[writer[o]]
      BY <2>2, <2>4, OperateFrame
    <3> QED BY <2>1, <3>1 DEF WriterInv
  <2> QED BY <2>3, <2>4
<1> QED BY <1>1, <1>2

LEMMA WriterStep == TypeOK /\ WriterInv /\ [Next]_vars => WriterInv'
<1> SUFFICES ASSUME TypeOK, WriterInv, [Next]_vars
             PROVE  WriterInv'
  OBVIOUS
<1>1. conf' = conf
  BY ConfConstant
<1>2. CASE UNCHANGED <<present, active, command, writer>>
  BY <1>1, <1>2 DEF WriterInv, IsType
<1>3. CASE SetupAtBoot \/ RegInitSetup
  <2>1. PICK S : SetupReady(AwaitingSetup(S))
    BY <1>3 DEF SetupAtBoot, RegInitSetup, Setup
  <2>2. AwaitingSetup(S) \in SUBSET Block
    BY DEF AwaitingSetup, TypeOK
  <2>3. present' = present
    BY <1>3 DEF SetupAtBoot, RegInitSetup
  <2> QED BY <1>1, <2>1, <2>2, <2>3, WriterAfterSetupInv
<1>4. CASE Operate
  <2>1. cur \in Block /\ OperateBlock(cur) /\ present' = present
    BY <1>4 DEF Operate, Advance, TypeOK
  <2> QED BY <1>1, <2>1, WriterAfterOperateInv
<1>5. CASE RegSetCommandOnBlockID
  <2>1. PICK b \in present : \E cmd : SetCommand(b, cmd, 0)
    BY <1>5 DEF RegSetCommandOnBlockID
  <2>2. active' = active /\ present' = present
    BY <1>5 DEF RegSetCommandOnBlockID
  <2>3. \A o \in Block : writer'[o] # 0
           => writer'[o] = writer[o] /\ command'[o] = command[o]
    BY <2>1 DEF SetCommand, TypeOK
  <2> QED BY <1>1, <2>2, <2>3 DEF WriterInv, IsType
<1>6. CASE RegConfigDeleteBID
  BY <1>1, <1>6 DEF RegConfigDeleteBID, WriterInv, IsType, TypeOK
<1> QED
  BY <1>2, <1>3, <1>4, <1>5, <1>6
     DEF Next, MainLoop, Console, vars, ValidateAtBoot, PassOver, Advance, Loop,
         RegInitValidate, RegInitDisable, RegAdminDisableBID, RegAdminEnableBID

LEMMA WriterInit == Init => WriterInv
BY DEF Init, WriterInv

LEMMA WriterCorrect == Spec => []WriterInv
<1>1. Init => TypeOK /\ WriterInv
  BY TypeInit, WriterInit
<1>2. TypeOK /\ WriterInv /\ [Next]_vars => (TypeOK /\ WriterInv)'
  BY TypeStep, WriterStep
<1> QED BY <1>1, <1>2, PTL DEF Spec

(* The output a controller wrote to last holds the command of the          *)
(* controller's present state (ControllerOperate, SetCommand).             *)
THEOREM CommandMatches == Spec => []CommandMatchesController
BY TypeCorrect, WriterCorrect, WriterInvImplies, PTL
----------------------------------------------------------------------------
(* A complete pass leaves every decision in agreement with its inputs.     *)

(* A pass starts at the head of the list.                                  *)
PassInv == (phase # "operate" => cur = 1) /\ PassSettles

(* What the registry says of a block other than the one visited stays.     *)
LEMMA LookupFrame ==
    ASSUME TypeOK, NEW b \in Block, OperateBlock(b), present' = present,
           NEW id \in Ref, id # b
    PROVE  /\ IsActive(id)' = IsActive(id)
           /\ GetFVal(id)' = GetFVal(id)
           /\ GetBVal(id)' = GetBVal(id)
BY OperateFrame DEF IsActive, GetFVal, GetBVal, TypeOK

(* A visit settles the block visited.                                      *)
LEMMA SettledAtVisit ==
    ASSUME TypeOK, NEW b \in Block, OperateBlock(b), conf' = conf,
           present' = present
    PROVE  DecisionSettled(b)'
<1>0. /\ conf[b].ref1 \in Ref /\ conf[b].ref2 \in Ref /\ conf[b].refnot \in Ref
      /\ b \in Int
  BY NAssumption DEF TypeOK, Setting, Block
<1>1. CASE IsType(b, MonitorType)
  <2>1. MonitorOperate(b)
    BY <1>1 DEF OperateBlock, IsType, InputType, MonitorType, LowType,
                HighType, RuleType
  <2>2. ASSUME RefsBefore(b) PROVE MonitorSettled(b)'
    <3>1. /\ MonitorBadInput(b)' = MonitorBadInput(b)
          /\ MonitorActs(b)' = MonitorActs(b)
          /\ MonitorDeacts(b)' = MonitorDeacts(b)
      BY <2>1 DEF MonitorOperate, MonitorBadInput, MonitorActs, MonitorDeacts,
                  Reaches, Passes, TwiceValue, GetFVal, GetBVal, IsType
    <3>2. CASE MonitorBadInput(b)
      BY <2>1, <3>1, <3>2 DEF MonitorOperate, MonitorSettled, TypeOK
    <3>3. CASE ~MonitorBadInput(b)
      BY <2>1, <3>1, <3>3 DEF MonitorOperate, MonitorSettled, Latch, TypeOK
    <3> QED BY <3>2, <3>3
  <2> QED
    BY <1>1, <2>2 DEF DecisionSettled, RefsBefore, IsType, MonitorType,
                      LowType, HighType, RuleType
<1>2. CASE IsType(b, RuleType)
  <2>1. RuleOperate(b)
    BY <1>2 DEF OperateBlock, IsType, InputType, MonitorType, LowType,
                HighType, RuleType
  <2>2. ASSUME RefsBefore(b) PROVE RuleHolds(b)' = RuleHolds(b)
    BY <1>0, <2>2, LookupFrame DEF RuleHolds, RefsBefore
  <2>3. active'[b] = 1 <=> RuleHolds(b)
    BY <2>1 DEF RuleOperate, TypeOK
  <2> QED
    BY <1>2, <2>2, <2>3 DEF DecisionSettled, RefsBefore, IsType, MonitorType,
                            LowType, HighType, RuleType
<1>3. CASE IsType(b, {"CON_ONOFF"})
  <2>1. ControllerOperate(b)
    BY <1>3 DEF OperateBlock, IsType, InputType, MonitorType, LowType,
                HighType, RuleType
  <2>2. active'[b] = IsActive(conf[b].ref1)
    BY <1>0, <1>3, <2>1, LookupTypes DEF ControllerOperate, TypeOK
  <2>3. conf[b].ref1 < b => IsActive(conf[b].ref1)' = IsActive(conf[b].ref1)
    BY <1>0, LookupFrame
  <2> QED
    BY <1>3, <2>2, <2>3 DEF DecisionSettled, IsType, MonitorType, LowType,
                            HighType, RuleType
<1>4. CASE IsType(b, {"OUT_DIGITAL"})
  <2>1. OutputOperate(b)
    BY <1>4 DEF OperateBlock, IsType, InputType, MonitorType, LowType,
                HighType, RuleType
  <2>2. active'[b] = 1 <=> command'[b] = "CMD_OUTPUT_ON"
    BY <1>4, <2>1 DEF OutputOperate, HALDigitalWrite, TypeOK
  <2> QED
    BY <1>4, <2>2 DEF DecisionSettled, IsType, MonitorType, LowType,
                      HighType, RuleType
<1> QED BY <1>1, <1>2, <1>3, <1>4 DEF DecisionSettled, IsType
(* A visit does not unsettle a block that came before it in the pass.      *)
LEMMA SettledBefore ==
    ASSUME TypeOK, NEW b \in Block, OperateBlock(b), conf' = conf,
           present' = present, NEW a \in Block, a < b, DecisionSettled(a)
    PROVE  DecisionSettled(a)'
<1>0. /\ conf[a].ref1 \in Ref /\ conf[a].ref2 \in Ref /\ conf[a].refnot \in Ref
      /\ a \in Int /\ b \in Int
  BY NAssumption DEF TypeOK, Setting, Block
<1>1. status'[a] = status[a] /\ active'[a] = active[a]
  BY <1>0, OperateFrame
<1>2. \A id \in Ref : id < a => /\ IsActive(id)' = IsActive(id)
                               /\ GetFVal(id)' = GetFVal(id)
                               /\ GetBVal(id)' = GetBVal(id)
  <2> SUFFICES ASSUME NEW id \in Ref, id < a
               PROVE  /\ IsActive(id)' = IsActive(id)
                      /\ GetFVal(id)' = GetFVal(id)
                      /\ GetBVal(id)' = GetBVal(id)
    OBVIOUS
  <2>1. id # b
    BY <1>0, NAssumption DEF Ref
  <2> QED BY <2>1, LookupFrame
<1>3. CASE IsType(a, MonitorType) /\ RefsBefore(a)
  <2>1. /\ MonitorBadInput(a)' = MonitorBadInput(a)
        /\ MonitorActs(a)' = MonitorActs(a)
        /\ MonitorDeacts(a)' = MonitorDeacts(a)
    BY <1>0, <1>2, <1>3 DEF RefsBefore, MonitorBadInput, MonitorActs,
       MonitorDeacts, Reaches, Passes, TwiceValue, IsType
  <2>2. MonitorSettled(a)'
    BY <1>1, <1>3, <2>1 DEF DecisionSettled, MonitorSettled
  <2> QED
    BY <1>3, <2>2 DEF DecisionSettled, IsType, MonitorType, LowType, HighType,
                      RuleType
<1>4. CASE IsType(a, RuleType) /\ RefsBefore(a)
  <2>1. RuleHolds(a)' = RuleHolds(a)
    BY <1>0, <1>2, <1>4 DEF RefsBefore, RuleHolds
  <2> QED
    BY <1>1, <1>4, <2>1 DEF DecisionSettled, IsType, MonitorType, LowType,
                            HighType, RuleType
<1>5. CASE IsType(a, {"CON_ONOFF"})
  BY <1>0, <1>1, <1>2, <1>5 DEF DecisionSettled, IsType, MonitorType, LowType,
                                HighType, RuleType
<1>6. CASE /\ IsType(a, {"OUT_DIGITAL"})
           /\ \A c \in Block : IsType(c, {"CON_ONOFF"}) /\ conf[c].ref2 = a => c < a
  <2>1. command'[a] = command[a]
    <3>1. CASE ControllerOperate(b) /\ IsType(b, {"CON_ONOFF"})
      <4>1. conf[b].ref2 # a
        BY <1>0, <1>6, <3>1
      <4> QED BY <3>1, <4>1 DEF ControllerOperate, SetCommand, TypeOK
    <3>2. CASE ~(ControllerOperate(b) /\ IsType(b, {"CON_ONOFF"}))
      BY <3>2 DEF OperateBlock, HALDigitalRead, InputOperate, MonitorOperate, ScheduleOperate,
                  RuleOperate, ControllerOperate, OutputOperate, HALDigitalWrite
    <3> QED BY <3>1, <3>2
  <2> QED
    BY <1>1, <1>6, <2>1 DEF DecisionSettled, IsType, MonitorType, LowType,
                            HighType, RuleType
<1> QED
  BY <1>3, <1>4, <1>5, <1>6 DEF DecisionSettled, RefsBefore, IsType

LEMMA PassStep == TypeOK /\ PassInv /\ [Next]_vars => PassInv'
<1> SUFFICES ASSUME TypeOK, PassInv, [Next]_vars
             PROVE  PassInv'
  OBVIOUS
<1>1. conf' = conf
  BY ConfConstant
<1>2. CASE Operate
  <2>1. /\ cur \in Block /\ OperateBlock(cur) /\ present' = present
        /\ Running(cur) /\ phase = "operate"
    BY <1>2 DEF Operate, Advance, TypeOK
  <2>2. phase' # "operate" => cur' = 1
    BY <1>2, <2>1 DEF Operate, Advance
  <2>3. ASSUME NEW a \in Block, Visited(a)', Running(a)'
        PROVE  DecisionSettled(a)'
    <3>1. a <= cur
      BY <1>2, <2>1, <2>3, NAssumption DEF Operate, Advance, Visited, Block
    <3>2. CASE a = cur
      BY <1>1, <2>1, <3>2, SettledAtVisit
    <3>3. CASE a # cur
      <4>1. a < cur
        BY <2>1, <3>1, <3>3 DEF Block
      <4>2. Visited(a) /\ Running(a)
        BY <2>1, <2>3, <3>3, <4>1, OperateFrame DEF Visited, Running
      <4> QED BY <1>1, <2>1, <4>1, <4>2, SettledBefore DEF PassInv, PassSettles
    <3> QED BY <3>2, <3>3
  <2> QED BY <2>2, <2>3 DEF PassInv, PassSettles
<1>3. CASE PassOver
  <2>1. /\ cur \in Block /\ phase = "operate" /\ ~Running(cur)
        /\ UNCHANGED <<present, status, active, fVal, bVal, command>>
    BY <1>3 DEF PassOver, Advance, TypeOK
  <2>2. phase' # "operate" => cur' = 1
    BY <1>3, <2>1 DEF PassOver, Advance
  <2>3. ASSUME NEW a \in Block, Visited(a)', Running(a)'
        PROVE  DecisionSettled(a)'
    <3>1. Running(a) /\ a # cur
      BY <2>1, <2>3 DEF Running
    <3>2. a < cur
      BY <1>3, <2>1, <2>3, <3>1, NAssumption
         DEF PassOver, Advance, Visited, Block
    <3>3. DecisionSettled(a)
      BY <2>1, <3>1, <3>2 DEF PassInv, PassSettles, Visited
    <3> QED
      BY <1>1, <2>1, <3>3 DEF DecisionSettled, RefsBefore, MonitorSettled,
         MonitorBadInput, MonitorActs, MonitorDeacts, Reaches, Passes,
         TwiceValue, RuleHolds, IsActive, GetFVal, GetBVal, IsType
  <2> QED BY <2>2, <2>3 DEF PassInv, PassSettles
<1>4. CASE UNCHANGED vars
  BY <1>4 DEF vars, PassInv, PassSettles, Visited, Running, DecisionSettled,
     RefsBefore, MonitorSettled, MonitorBadInput, MonitorActs, MonitorDeacts,
     Reaches, Passes, TwiceValue, RuleHolds, IsActive, GetFVal, GetBVal, IsType
<1>5. CASE ValidateAtBoot \/ SetupAtBoot \/ Loop \/ Console
  <2>1. /\ phase' \in {"validated", "operate", "polling"}
        /\ cur' = 1
    BY <1>5 DEF ValidateAtBoot, SetupAtBoot, Loop, Console, Poll, PassInv,
       RegSetCommandOnBlockID, RegInitSetup, RegInitValidate, RegInitDisable,
       RegAdminDisableBID, RegAdminEnableBID, RegConfigDeleteBID
  <2>2. \A a \in Block : ~Visited(a)'
    BY <2>1 DEF Visited, Block
  <2> QED BY <2>1, <2>2 DEF PassInv, PassSettles
<1> QED BY <1>2, <1>3, <1>4, <1>5 DEF Next, MainLoop

LEMMA PassInit == Init => PassInv
BY DEF Init, PassInv, PassSettles, Visited

(* When a pass is over, every running block that comes after the blocks it *)
(* refers to agrees with them (MonitorOperate, RuleOperate,                *)
(* ControllerOperate, OutputOperate).                                      *)
THEOREM PassesSettle == Spec => []PassSettles
<1>1. Init => TypeOK /\ PassInv
  BY TypeInit, PassInit
<1>2. TypeOK /\ PassInv /\ [Next]_vars => (TypeOK /\ PassInv)'
  BY TypeStep, PassStep
<1>3. PassInv => PassSettles
  BY DEF PassInv
<1> QED BY <1>1, <1>2, <1>3, PTL DEF Spec

(* The loop from end to end: the pin of a running output is what the       *)
(* controller that wrote to it sends for its rule's present state.         *)
THEOREM DecisionsReachPins == Spec => []DecisionReachesPin
<1>1. TypeOK /\ PinMatchesActive /\ WriterInv /\ PassSettles
        => DecisionReachesPin
  <2> SUFFICES ASSUME TypeOK, PinMatchesActive, WriterInv,
                      PassSettles, phase = "settled", NEW o \in Block,
                      Running(o), IsType(o, {"OUT_DIGITAL"}), Exclusive(o),
                      \A q \in Block : IsType(q, {"CON_ONOFF"})
                           /\ conf[q].ref2 = o => q < o,
                      writer[o] # 0, Running(writer[o]),
                      conf[writer[o]].ref1 < writer[o]
               PROVE  LET c == writer[o] IN
                      pin[conf[o].pin] = "HIGH" <=>
                        "CMD_OUTPUT_ON" = IF IsActive(conf[c].ref1) = 1
                                          THEN conf[c].act_cmd
                                          ELSE conf[c].deact_cmd
    BY DEF DecisionReachesPin
  <2>1. pin[conf[o].pin] = "HIGH" <=> active[o] = 1
    BY DEF PinMatchesActive
  <2>2. active[o] = 1 <=> command[o] = "CMD_OUTPUT_ON"
    BY DEF PassSettles, Visited, DecisionSettled
  <2>3. active[writer[o]] = IsActive(conf[writer[o]].ref1)
    BY WriterIsBlock DEF WriterInv, PassSettles, Visited, DecisionSettled, IsType
  <2>4. command[o] = IF active[writer[o]] = 1 THEN conf[writer[o]].act_cmd
                                              ELSE conf[writer[o]].deact_cmd
    BY DEF WriterInv, Running
  <2> QED BY <2>1, <2>2, <2>3, <2>4
<1> QED BY <1>1, TypeCorrect, PinAgrees, WriterCorrect, PassesSettle, PTL----------------------------------------------------------------------------
(* What enables a block, and what a pass does to a disabled one.           *)

(* Nothing ever sets the flag of the others.                               *)
PassiveInv == \A b \in Block : ~Flagged(b) => active[b] = 0

LEMMA PassiveStep == TypeOK /\ PassiveInv /\ [Next]_vars => PassiveInv'
<1> SUFFICES ASSUME TypeOK, PassiveInv, [Next]_vars, NEW b \in Block, ~Flagged(b)
             PROVE  active'[b] = active[b]
  BY ConfConstant DEF PassiveInv, Flagged, IsType
<1>1. CASE SetupAtBoot \/ RegInitSetup
  <2>1. PICK S : SetupReady(AwaitingSetup(S))
    BY <1>1 DEF SetupAtBoot, RegInitSetup, Setup
  <2>2. AwaitingSetup(S) \in SUBSET Block
    BY DEF AwaitingSetup, TypeOK
  <2> QED BY <2>1, <2>2, ClearedAre DEF SetupReady
<1>2. CASE Operate
  <2>1. cur \in Block /\ OperateBlock(cur)
    BY <1>2 DEF Operate, TypeOK
  <2>2. CASE cur # b
    BY <2>1, <2>2, OperateFrame
  <2>3. CASE cur = b
    BY <2>1, <2>3 DEF OperateBlock, HALDigitalRead, InputOperate, ControllerOperate,
       OutputOperate, HALDigitalWrite, Flagged, IsType, InputType, MonitorType, LowType,
       HighType, RuleType
  <2> QED BY <2>2, <2>3
<1>3. CASE UNCHANGED active
  BY <1>3
<1> QED
  BY <1>1, <1>2, <1>3
     DEF Next, MainLoop, Console, vars, ValidateAtBoot, PassOver, Loop,
         RegSetCommandOnBlockID, RegInitValidate, RegInitDisable,
         RegAdminDisableBID, RegAdminEnableBID, RegConfigDeleteBID

LEMMA PassiveCorrect == Spec => []PassiveInv
<1>1. Init => TypeOK /\ PassiveInv
  BY TypeInit DEF Init, PassiveInv
<1>2. TypeOK /\ PassiveInv /\ [Next]_vars => (TypeOK /\ PassiveInv)'
  BY TypeStep, PassiveStep
<1> QED BY <1>1, <1>2, PTL DEF Spec

(* A block becomes enabled only out of DISABLED_INIT, only by being set    *)
(* up, and with its flag clear (Setup's and Operate's comments).           *)
THEOREM EnabledBySetup == Spec => EnabledOnlyBySetup
<1>1. ASSUME TypeOK, PassiveInv, [Next]_vars, NEW b \in Block,
             status[b] \in Disabled, status'[b] \in Enabled
      PROVE  status[b] = "DISABLED_INIT" /\ phase # "operate" /\ active'[b] = 0
  <2>1. status'[b] # status[b]
    BY <1>1 DEF Enabled, Disabled
  <2>2. CASE SetupAtBoot \/ RegInitSetup
    <3>1. PICK S : SetupReady(AwaitingSetup(S))
      BY <2>2 DEF SetupAtBoot, RegInitSetup, Setup
    <3>2. b \in AwaitingSetup(S)
      BY <1>1, <2>1, <3>1 DEF SetupReady
    <3>3. active'[b] = 0
      <4>1. CASE Flagged(b)
        <5>1. AwaitingSetup(S) \in SUBSET Block
          BY <1>1 DEF AwaitingSetup, TypeOK
        <5> QED BY <1>1, <3>1, <3>2, <4>1, <5>1, ClearedAre DEF SetupReady
      <4>2. CASE ~Flagged(b)
        BY <1>1, <4>2, PassiveStep, ConfConstant DEF PassiveInv, Flagged, IsType
      <4> QED BY <4>1, <4>2
    <3>4. phase # "operate"
      BY <2>2 DEF SetupAtBoot, RegInitSetup, Poll
    <3> QED BY <3>2, <3>3, <3>4 DEF AwaitingSetup
  <2>3. CASE Operate
    <3>1. cur \in Block /\ OperateBlock(cur) /\ status[cur] \in Enabled
      BY <1>1, <2>3 DEF Operate, Running, TypeOK
    <3>2. cur # b
      BY <1>1, <3>1 DEF Enabled, Disabled
    <3> QED BY <1>1, <2>1, <3>1, <3>2, OperateFrame
  <2>4. CASE ValidateAtBoot \/ RegInitValidate
    BY <1>1, <2>4 DEF ValidateAtBoot, RegInitValidate, Validate, Enabled, Disabled
  <2>5. CASE RegInitDisable \/ RegAdminDisableBID \/ RegAdminEnableBID
    BY <1>1, <2>5 DEF RegInitDisable, RegAdminDisableBID, RegAdminEnableBID,
       SetStatus, Enabled, Disabled
  <2>6. CASE UNCHANGED status
    BY <2>1, <2>6
  <2> QED
    BY <1>1, <2>2, <2>3, <2>4, <2>5, <2>6
       DEF Next, MainLoop, Console, vars, PassOver, Loop,
           RegSetCommandOnBlockID, RegConfigDeleteBID
<1>2. TypeOK /\ PassiveInv /\ [Next]_vars =>
        [\A b \in Block :
            status[b] \in Disabled /\ status'[b] \in Enabled
              => status[b] = "DISABLED_INIT" /\ phase # "operate"
                 /\ active'[b] = 0]_vars
  BY <1>1
<1> QED BY <1>2, TypeCorrect, PassiveCorrect, PTL DEF Spec, EnabledOnlyBySetup

(* A pass leaves a disabled block, and the pin it alone drives, as they    *)
(* were (Operate's status test, at every category).                        *)
THEOREM DisabledFrozen == Spec => DisabledIsFrozen
<1>1. ASSUME TypeOK, [Next]_vars, phase = "operate", NEW b \in Block, ~Running(b)
      PROVE  /\ status'[b] = status[b] /\ active'[b] = active[b]
             /\ fVal'[b] = fVal[b] /\ bVal'[b] = bVal[b]
             /\ IsType(b, {"OUT_DIGITAL"}) /\ Exclusive(b)
                  => pin'[conf[b].pin] = pin[conf[b].pin]
  <2>1. CASE Operate
    <3>1. cur \in Block /\ OperateBlock(cur) /\ cur # b
      BY <1>1, <2>1 DEF Operate, TypeOK
    <3>2. conf[b].pin \in Pins
      BY <1>1 DEF TypeOK, Setting
    <3> QED BY <1>1, <3>1, <3>2, OperateFrame, ExclusivePin
  <2>2. CASE PassOver \/ UNCHANGED vars
    BY <2>2 DEF PassOver, vars
  <2> QED
    BY <1>1, <2>1, <2>2 DEF Next, MainLoop, Console, ValidateAtBoot,
       SetupAtBoot, Loop, Poll, RegSetCommandOnBlockID, RegInitSetup,
       RegInitValidate, RegInitDisable, RegAdminDisableBID,
       RegAdminEnableBID, RegConfigDeleteBID
<1>2. TypeOK /\ [Next]_vars =>
        [phase = "operate" =>
           \A b \in Block : ~Running(b) =>
             /\ status'[b] = status[b] /\ active'[b] = active[b]
             /\ fVal'[b] = fVal[b] /\ bVal'[b] = bVal[b]
             /\ IsType(b, {"OUT_DIGITAL"}) /\ Exclusive(b)
                  => pin'[conf[b].pin] = pin[conf[b].pin]]_vars
  BY <1>1
<1> QED BY <1>2, TypeCorrect, PTL DEF Spec, DisabledIsFrozen
=============================================================================
