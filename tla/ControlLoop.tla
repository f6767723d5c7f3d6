---------------------------- MODULE ControlLoop ----------------------------
(***************************************************************************)
(* The control loop of FodderFactory: a list of blocks (inputs, monitors,  *)
(* schedules, rules, controllers, outputs) that the main loop visits in    *)
(* list order, and the administrative commands that the operator's console *)
(* runs between two passes.                                                *)
(*                                                                         *)
(* Blocks are named by their position in the list: ids are handed out in   *)
(* the order in which blocks are appended, so a block's id and its place   *)
(* agree.  0 is the reference of a setting that was never made             *)
(* (BLOCK_ID_INIT), which no block bears.                                  *)
(*                                                                         *)
(* Time is abstracted: whether an input is due, and what a schedule makes  *)
(* of the time of day, are choices.  The sensor is a choice too: a reading *)
(* or a failure.                                                           *)
(***************************************************************************)
EXTENDS Integers, FiniteSets

CONSTANTS
    N,         \* length of the block list
    Temp,      \* the values a temperature sensor can report
    Pins,      \* the digital output pins
    Networks,  \* the configurations to start from
    MaxCmds    \* bound on the console commands of a behaviour

FLOAT_INIT == 255
UINT8_INIT == 255
M_FF_ERROR == 0

Block == 1 .. N
Ref   == 0 .. N

InputType == {"IN_ONEWIRE", "IN_DIGITAL", "IN_VEDIRECT"}
AverageType == {"MON_AVERAGE_CONDITION_LOW", "MON_AVERAGE_CONDITION_HIGH"}
LowType  == {"MON_CONDITION_LOW", "MON_AVERAGE_CONDITION_LOW"}
HighType == {"MON_CONDITION_HIGH", "MON_AVERAGE_CONDITION_HIGH"}
MonitorType == LowType \cup HighType \cup {"MON_TRIGGER"}
RuleType == {"RL_LOGIC_ANDNOT", "RL_LOGIC_SINGLE", "RL_LOGIC_AND",
             "RL_LOGIC_SINGLENOT"}
BlockType == InputType \cup MonitorType \cup {"SCHEDULE"} \cup RuleType
             \cup {"CON_ONOFF", "CON_SYSTEM", "OUT_DIGITAL", "OUT_SYSTEM_CALL"}

Command == {"CMD_ERROR", "CMD_INIT", "CMD_OUTPUT_OFF", "CMD_OUTPUT_ON",
            "UINT8_INIT"}

Enabled == {"ENABLED_RUN", "ENABLED_BUSY", "ENABLED_INIT",
            "ENABLED_VALID_DATA", "ENABLED_INVALID_DATA"}
Disabled == {"DISABLED_INIT", "DISABLED_ERROR", "DISABLED_ASSERT",
             "DISABLED_ADMIN"}
Status == Enabled \cup Disabled

(***************************************************************************)
(* The settings of a block.  The source keeps one member of a union per    *)
(* category; here ref1 is in.interface, mon.input1, rl.param1 or con.rule, *)
(* ref2 is mon.input2, rl.param2 or con.output, refnot is rl.param_not,    *)
(* and pin is out.if_num.                                                  *)
(***************************************************************************)
Setting == [type : BlockType, ref1 : Ref, ref2 : Ref, refnot : Ref,
            act_val : Int, deact_val : Int,
            act_cmd : Command, deact_cmd : Command, pin : Pins]

ASSUME NAssumption == N \in Nat \ {0}
ASSUME TempAssumption == Temp \subseteq Int /\ FLOAT_INIT \notin Temp
ASSUME NetworksAssumption == Networks \subseteq [Block -> Setting]
ASSUME MaxCmdsAssumption == MaxCmds \in Nat

VARIABLES
    conf,     \* the settings of each block
    present,  \* the blocks on the list (deletion takes one off)
    status,   \* status of each block
    active,   \* active flag of each block, 0 or 1
    fVal,     \* f_val of each block
    bVal,     \* bool_val of each block
    touched,  \* blocks whose last_polled, last_logged or int_val left INIT
    command,  \* the pending command of each output
    pin,      \* the level of each output pin
    writer,   \* auxiliary: the controller whose command each output holds,
              \* 0 when none has been sent since the output or that
              \* controller was set up, or the operator's was sent last
    phase,    \* what the main program is doing
    cur,      \* the block the pass has reached
    cmds      \* console commands so far

vars == <<conf, present, status, active, fVal, bVal, touched, command, pin,
          writer, phase, cur, cmds>>

IsType(b, T) == conf[b].type \in T
Running(b) == b \in present /\ status[b] \in Enabled
----------------------------------------------------------------------------
(* What blocks ask of one another through the registry.  An id that is not *)
(* on the list is answered with M_FF_ERROR.                                *)

IsActive(id) == IF id \in present THEN active[id] ELSE M_FF_ERROR
GetFVal(id)  == IF id \in present THEN fVal[id] ELSE M_FF_ERROR
GetBVal(id)  == IF id \in present THEN bVal[id] ELSE M_FF_ERROR

(* SetCommand: writes the command slot of an output on the list; by is the *)
(* controller that sends it, 0 for the operator.                           *)
SetCommand(id, cmd, by) ==
    IF id \in present /\ IsType(id, {"OUT_DIGITAL", "OUT_SYSTEM_CALL"})
    THEN /\ command' = [command EXCEPT ![id] = cmd]
         /\ writer' = [writer EXCEPT ![id] = by]
    ELSE UNCHANGED <<command, writer>>
----------------------------------------------------------------------------
(* Decisions.                                                              *)

MonitorBadInput(b) ==
    LET c == conf[b] IN
    \/ c.type \notin AverageType \cup {"MON_TRIGGER"}
         /\ GetFVal(c.ref1) = FLOAT_INIT
    \/ c.type \in AverageType
         /\ FLOAT_INIT \in {GetFVal(c.ref1), GetFVal(c.ref2)}
    \/ c.type = "MON_TRIGGER" /\ GetBVal(c.ref1) = UINT8_INIT

(* Twice the value that is compared: (fval1 + fval2) / 2 for an average.   *)
TwiceValue(b) ==
    GetFVal(conf[b].ref1)
      + GetFVal(IF conf[b].type \in AverageType THEN conf[b].ref2
                                                ELSE conf[b].ref1)

Reaches(b, limit) ==
    \/ IsType(b, LowType) /\ TwiceValue(b) <= 2 * limit
    \/ IsType(b, HighType) /\ TwiceValue(b) >= 2 * limit
    \/ IsType(b, {"MON_TRIGGER"}) /\ GetBVal(conf[b].ref1) = limit

Passes(b, limit) ==
    \/ IsType(b, LowType) /\ TwiceValue(b) >= 2 * limit
    \/ IsType(b, HighType) /\ TwiceValue(b) <= 2 * limit
    \/ IsType(b, {"MON_TRIGGER"}) /\ GetBVal(conf[b].ref1) = limit

MonitorActs(b)   == Reaches(b, conf[b].act_val)
MonitorDeacts(b) == Passes(b, conf[b].deact_val)

(* Defective variant: between the thresholds and beyond, the flag is held. *)
LatchNoRelease(b) == IF MonitorActs(b) THEN 1 ELSE active[b]

(* The monitor's two tests in their order; the flag is held between them.  *)
Latch(b) ==
    IF MonitorDeacts(b) THEN 0 ELSE IF MonitorActs(b) THEN 1 ELSE active[b]

RuleHolds(b) ==
    LET c == conf[b] IN
    /\ IsActive(c.ref1) = 1
    /\ c.type \in {"RL_LOGIC_ANDNOT", "RL_LOGIC_AND"} => IsActive(c.ref2) = 1
    /\ c.type \in {"RL_LOGIC_ANDNOT", "RL_LOGIC_SINGLENOT"}
         => IsActive(c.refnot) = 0
----------------------------------------------------------------------------
(* The pins: what one may read, and a level written to one.                *)
HALDigitalRead == {0, 1}
HALDigitalWrite(p, level) == pin' = [pin EXCEPT ![p] = level]
----------------------------------------------------------------------------
(* Operate, per category.                                                  *)

InputOperate(b) ==
    /\ \/ UNCHANGED <<status, fVal, bVal, touched>>     \* not due
       \/ /\ IsType(b, {"IN_ONEWIRE"})
          /\ \/ /\ conf[b].ref1 # 0
                /\ status' = [status EXCEPT ![b] = "ENABLED_BUSY"]
                /\ UNCHANGED <<fVal, touched>>
             \/ /\ conf[b].ref1 # 0
                /\ \E t \in Temp : fVal' = [fVal EXCEPT ![b] = t]
                /\ status' = [status EXCEPT ![b] = "ENABLED_RUN"]
                /\ touched' = touched \cup {b}
             \/ /\ status' = [status EXCEPT ![b] = "ENABLED_INVALID_DATA"]
                /\ touched' = touched \cup {b}
                /\ UNCHANGED fVal
          /\ UNCHANGED bVal
       \/ /\ IsType(b, {"IN_DIGITAL"})
          /\ \E reading \in HALDigitalRead :
                 reading # bVal[b] /\ bVal' = [bVal EXCEPT ![b] = reading]
          /\ touched' = touched \cup {b}
          /\ UNCHANGED <<status, fVal>>
       \/ /\ IsType(b, {"IN_VEDIRECT"})
          /\ \E s \in {"ENABLED_VALID_DATA", "DISABLED_ERROR"} :
                 status' = [status EXCEPT ![b] = s]
          /\ touched' = touched \cup {b}
          /\ UNCHANGED <<fVal, bVal>>
    /\ UNCHANGED <<active, command, pin, writer>>

MonitorOperate(b) ==
    /\ IF MonitorBadInput(b)
       THEN /\ status' = [status EXCEPT ![b] = "ENABLED_INVALID_DATA"]
            /\ UNCHANGED active
       ELSE /\ status' = [status EXCEPT ![b] = "ENABLED_VALID_DATA"]
            /\ active' = [active EXCEPT ![b] = Latch(b)]
    /\ UNCHANGED <<fVal, bVal, touched, command, pin, writer>>

(* What the time of day asks for: on, off, or nothing (UINT8_INIT).        *)
ScheduleOperate(b) ==
    /\ \E target \in {0, 1, UINT8_INIT} :
           active' = IF target = UINT8_INIT THEN active
                     ELSE [active EXCEPT ![b] = target]
    /\ UNCHANGED <<status, fVal, bVal, touched, command, pin, writer>>

RuleOperate(b) ==
    /\ active' = [active EXCEPT ![b] = IF RuleHolds(b) THEN 1 ELSE 0]
    /\ UNCHANGED <<status, fVal, bVal, touched, command, pin, writer>>

(* Defective variant: the command is chosen by the old flag.               *)
ControllerOperateSwapped(b) ==
    /\ IF IsType(b, {"CON_ONOFF"}) /\ IsActive(conf[b].ref1) # active[b]
       THEN /\ active' = [active EXCEPT ![b] = 1 - @]
            /\ SetCommand(conf[b].ref2,
                   IF active[b] = 1 THEN conf[b].act_cmd
                                    ELSE conf[b].deact_cmd, b)
       ELSE UNCHANGED <<active, command, writer>>
    /\ UNCHANGED <<status, fVal, bVal, touched, pin>>

(* A command is sent when the rule has changed since the last visit, and   *)
(* only then.                                                              *)
ControllerOperate(b) ==
    /\ IF IsType(b, {"CON_ONOFF"}) /\ IsActive(conf[b].ref1) # active[b]
       THEN /\ active' = [active EXCEPT ![b] = 1 - @]
            /\ SetCommand(conf[b].ref2,
                   IF IsActive(conf[b].ref1) = 1 THEN conf[b].act_cmd
                                                 ELSE conf[b].deact_cmd, b)
       ELSE UNCHANGED <<active, command, writer>>
    /\ UNCHANGED <<status, fVal, bVal, touched, pin>>

(* Defective variant: switching off leaves the pin alone.                  *)
OutputOperateNoLow(b) ==
    LET on == command[b] = "CMD_OUTPUT_ON" IN
    /\ IF IsType(b, {"OUT_DIGITAL"}) /\ on # (active[b] = 1)
       THEN /\ active' = [active EXCEPT ![b] = IF on THEN 1 ELSE 0]
            /\ IF on THEN HALDigitalWrite(conf[b].pin, "HIGH") ELSE UNCHANGED pin
       ELSE UNCHANGED <<active, pin>>
    /\ UNCHANGED <<status, fVal, bVal, touched, command, writer>>

(* The pin is written when the output changes, and only then.              *)
OutputOperate(b) ==
    LET on == command[b] = "CMD_OUTPUT_ON" IN
    /\ IF IsType(b, {"OUT_DIGITAL"}) /\ on # (active[b] = 1)
       THEN /\ active' = [active EXCEPT ![b] = IF on THEN 1 ELSE 0]
            /\ HALDigitalWrite(conf[b].pin, IF on THEN "HIGH" ELSE "LOW")
       ELSE UNCHANGED <<active, pin>>
    /\ UNCHANGED <<status, fVal, bVal, touched, command, writer>>

OperateBlock(b) ==
    \/ IsType(b, InputType) /\ InputOperate(b)
    \/ IsType(b, MonitorType) /\ MonitorOperate(b)
    \/ IsType(b, {"SCHEDULE"}) /\ ScheduleOperate(b)
    \/ IsType(b, RuleType) /\ RuleOperate(b)
    \/ IsType(b, {"CON_ONOFF", "CON_SYSTEM"}) /\ ControllerOperate(b)
    \/ IsType(b, {"OUT_DIGITAL", "OUT_SYSTEM_CALL"}) /\ OutputOperate(b)
----------------------------------------------------------------------------
(* Setup, on a set of blocks: only those in DISABLED_INIT take it.  reading *)
(* is what each input's hardware answers: FLOAT_INIT stands for a failure. *)

Readings(b) ==
    IF IsType(b, {"IN_ONEWIRE"}) /\ conf[b].ref1 # 0 THEN Temp \cup {FLOAT_INIT}
    ELSE IF IsType(b, {"IN_DIGITAL"}) THEN HALDigitalRead
    ELSE IF IsType(b, {"IN_VEDIRECT"}) THEN {1, FLOAT_INIT} ELSE {FLOAT_INIT}

StatusAfterSetup(b, reading) ==
    CASE IsType(b, {"IN_ONEWIRE"}) /\ reading = FLOAT_INIT -> "ENABLED_INVALID_DATA"
      [] IsType(b, {"IN_VEDIRECT"}) /\ reading = FLOAT_INIT -> "DISABLED_ERROR"
      [] IsType(b, {"IN_ONEWIRE", "IN_VEDIRECT"}) /\ reading # FLOAT_INIT -> "ENABLED_RUN"
      [] OTHER -> "ENABLED_INIT"

AwaitingSetup(S) == {b \in S \cap present : status[b] = "DISABLED_INIT"}
OfType(S, T)     == {b \in S : IsType(b, T)}

(* Only a digital input wired to a pin, not to an interface, is read.      *)
ReadsPin(b) == IsType(b, {"IN_DIGITAL"}) /\ conf[b].ref1 = 0

(* Defective variant: an output's pin is not driven low.                   *)
PinAfterSetupKept(ready) == pin

PinAfterSetup(ready) ==
    [p \in Pins |->
        IF \E b \in OfType(ready, {"OUT_DIGITAL"}) : conf[b].pin = p
        THEN "LOW" ELSE pin[p]]

WriterAfterSetup(ready) ==
    [o \in Block |->
        IF o \in OfType(ready, {"OUT_DIGITAL"})
           \/ writer[o] \in OfType(ready, {"CON_ONOFF"})
        THEN 0 ELSE writer[o]]

(* The blocks whose set up clears their active flag.                       *)
MonitorSetup(ready)    == OfType(ready, MonitorType)
RuleSetup(ready)       == OfType(ready, RuleType)
ControllerSetup(ready) == OfType(ready, {"CON_ONOFF"})
Cleared(ready) ==
    MonitorSetup(ready) \cup RuleSetup(ready) \cup ControllerSetup(ready)
    \cup OfType(ready, {"SCHEDULE", "OUT_DIGITAL"})

SetupReady(ready) ==
    /\ \E reading \in [OfType(ready, InputType) -> Temp \cup {0, 1, FLOAT_INIT}] :
         /\ \A b \in DOMAIN reading : reading[b] \in Readings(b)
         /\ status' = [b \in Block |->
                IF b \notin ready THEN status[b]
                ELSE StatusAfterSetup(b, IF b \in DOMAIN reading
                                         THEN reading[b] ELSE 0)]
         /\ fVal' = [b \in Block |->
                IF b \in OfType(ready, {"IN_ONEWIRE"}) /\ reading[b] # FLOAT_INIT
                THEN reading[b] ELSE fVal[b]]
         /\ bVal' = [b \in Block |->
                IF b \in ready /\ ReadsPin(b) THEN reading[b] ELSE bVal[b]]
         /\ touched' = touched \cup
                {b \in DOMAIN reading :
                    \/ IsType(b, {"IN_ONEWIRE"})
                    \/ ReadsPin(b)
                    \/ IsType(b, {"IN_VEDIRECT"}) /\ reading[b] # FLOAT_INIT}
    /\ active' = [b \in Block |-> IF b \in Cleared(ready) THEN 0 ELSE active[b]]
    /\ command' = [b \in Block |->
           IF b \in OfType(ready, {"OUT_DIGITAL"}) THEN "UINT8_INIT"
           ELSE command[b]]
    /\ pin' = PinAfterSetup(ready)
    /\ writer' = WriterAfterSetup(ready)

(* Defective variant: the status is not looked at.                         *)
SetupAnyStatus(S) == SetupReady(S \cap present)

Setup(S) == SetupReady(AwaitingSetup(S))
----------------------------------------------------------------------------
(* Validate: the settings' assertions, and that the block has not run.     *)

SettingsValid(b) ==
    LET c == conf[b] IN
    CASE c.type \in {"IN_ONEWIRE", "IN_DIGITAL"} -> c.ref1 # 0
      [] c.type \in LowType \cup HighType ->
            /\ c.ref1 # 0
            /\ (c.ref2 # 0) <=> (c.type \in AverageType)
            /\ {c.act_val, c.deact_val} \subseteq -49 .. 49
            /\ c.type \in LowType  => c.act_val < c.deact_val
            /\ c.type \in HighType => c.act_val > c.deact_val
      [] c.type = "MON_TRIGGER" ->
            /\ c.ref1 # 0 /\ c.ref2 = 0
            /\ {c.act_val, c.deact_val} \subseteq {0, 1}
      [] c.type \in RuleType ->
            /\ c.ref1 # 0
            /\ (c.ref2 # 0) <=> (c.type \in {"RL_LOGIC_AND", "RL_LOGIC_ANDNOT"})
            /\ (c.refnot # 0) <=>
                  (c.type \in {"RL_LOGIC_ANDNOT", "RL_LOGIC_SINGLENOT"})
      [] c.type \in {"CON_ONOFF", "CON_SYSTEM"} ->
            /\ c.ref1 # 0 /\ c.ref2 # 0
            /\ c.act_cmd \notin {"CMD_ERROR", "UINT8_INIT"}
            /\ c.type = "CON_ONOFF" => c.deact_cmd \notin {"CMD_ERROR", "UINT8_INIT"}
      [] OTHER -> TRUE

NeverRan(b) ==
    /\ active[b] = 0 /\ bVal[b] = 0 /\ fVal[b] = FLOAT_INIT
    /\ b \notin touched

Validate(S) ==
    status' = [b \in Block |->
        IF b \notin S \cap present THEN status[b]
        ELSE IF SettingsValid(b) /\ NeverRan(b) THEN "DISABLED_INIT"
        ELSE "DISABLED_ASSERT"]

SetStatus(S, s) ==
    status' = [b \in Block |-> IF b \in S \cap present THEN s ELSE status[b]]
----------------------------------------------------------------------------
(* The main program: load, validate, set up, then passes over the list     *)
(* with the console polled after each.                                     *)

Init ==
    /\ conf \in Networks
    /\ present = Block
    /\ status = [b \in Block |-> "DISABLED_INIT"]
    /\ active = [b \in Block |-> 0]
    /\ fVal = [b \in Block |-> FLOAT_INIT]
    /\ bVal = [b \in Block |-> 0]
    /\ touched = {}
    /\ command = [b \in Block |-> "CMD_INIT"]
    /\ pin = [p \in Pins |-> "UNSET"]
    /\ writer = [b \in Block |-> 0]
    /\ phase = "loaded" /\ cur = 1 /\ cmds = 0

ValidateAtBoot ==
    /\ phase = "loaded" /\ phase' = "validated"
    /\ Validate(Block)
    /\ UNCHANGED <<conf, present, active, fVal, bVal, touched, command, pin,
                   writer, cur, cmds>>

SetupAtBoot ==
    /\ phase = "validated" /\ phase' = "operate"
    /\ Setup(Block)
    /\ UNCHANGED <<conf, present, cur, cmds>>

(* Defective variant: the end of the list is not noticed.                  *)
AdvanceForever ==
    /\ cur' = cur + 1
    /\ UNCHANGED <<conf, present, phase, cmds>>

(* Defective variant: the pass ends one block early.                       *)
AdvanceShort ==
    /\ IF cur >= N - 1 THEN cur' = 1 /\ phase' = "settled"
                       ELSE cur' = cur + 1 /\ UNCHANGED phase
    /\ UNCHANGED <<conf, present, cmds>>

(* On to the next block, or the pass is complete.                          *)
Advance ==
    /\ IF cur = N THEN cur' = 1 /\ phase' = "settled"
                  ELSE cur' = cur + 1 /\ UNCHANGED phase
    /\ UNCHANGED <<conf, present, cmds>>

(* Defective variant: the status is not looked at.                         *)
OperateAnyStatus ==
    /\ phase = "operate" /\ cur \in present
    /\ OperateBlock(cur)
    /\ Advance

Operate ==
    /\ phase = "operate" /\ Running(cur)
    /\ OperateBlock(cur)
    /\ Advance

(* A block that is disabled, or no longer on the list.                     *)
PassOver ==
    /\ phase = "operate" /\ ~Running(cur)
    /\ Advance
    /\ UNCHANGED <<status, active, fVal, bVal, touched, command, pin, writer>>

Loop ==
    /\ phase \in {"settled", "polling"} /\ phase' = "operate"
    /\ UNCHANGED <<conf, present, status, active, fVal, bVal, touched, command,
                   pin, writer, cur, cmds>>
----------------------------------------------------------------------------
(* The console's commands.  Targets: one block on the list, or all.        *)

Poll ==
    /\ phase \in {"settled", "polling"} /\ phase' = "polling"
    /\ cmds < MaxCmds /\ cmds' = cmds + 1
    /\ UNCHANGED <<conf, cur>>

Targets == {{b} : b \in present} \cup {present}

RegSetCommandOnBlockID ==
    /\ Poll
    /\ \E b \in present, cmd \in {"CMD_OUTPUT_ON", "CMD_OUTPUT_OFF"} :
           SetCommand(b, cmd, 0)
    /\ UNCHANGED <<present, status, active, fVal, bVal, touched, pin>>

RegInitSetup ==
    /\ Poll
    /\ \E S \in Targets : Setup(S)
    /\ UNCHANGED present

RegInitValidate ==
    /\ Poll
    /\ \E S \in Targets : Validate(S)
    /\ UNCHANGED <<present, active, fVal, bVal, touched, command, pin, writer>>

RegInitDisable ==
    /\ Poll
    /\ \E S \in Targets : SetStatus(S, "DISABLED_INIT")
    /\ UNCHANGED <<present, active, fVal, bVal, touched, command, pin, writer>>

RegAdminDisableBID ==
    /\ Poll
    /\ \E b \in present : SetStatus({b}, "DISABLED_ADMIN")
    /\ UNCHANGED <<present, active, fVal, bVal, touched, command, pin, writer>>

RegAdminEnableBID ==
    /\ Poll
    /\ \E b \in present : SetStatus({b}, "DISABLED_INIT")
    /\ UNCHANGED <<present, active, fVal, bVal, touched, command, pin, writer>>

RegConfigDeleteBID ==
    /\ Poll
    /\ \E b \in present : present' = present \ {b}
    /\ UNCHANGED <<status, active, fVal, bVal, touched, command, pin, writer>>

Console ==
    \/ RegSetCommandOnBlockID \/ RegInitSetup \/ RegInitValidate
    \/ RegInitDisable \/ RegAdminDisableBID \/ RegAdminEnableBID
    \/ RegConfigDeleteBID

MainLoop == ValidateAtBoot \/ SetupAtBoot \/ Operate \/ PassOver \/ Loop

Next == MainLoop \/ Console

Spec == Init /\ [][Next]_vars

(* The main program never stops; the operator need not type anything.      *)
FairSpec == Spec /\ WF_vars(MainLoop)
----------------------------------------------------------------------------
(* Properties.                                                             *)

(* Every variable keeps its type.                                          *)
TypeOK ==
    /\ conf \in [Block -> Setting]
    /\ present \subseteq Block
    /\ status \in [Block -> Status]
    /\ active \in [Block -> {0, 1}]
    /\ fVal \in [Block -> Temp \cup {FLOAT_INIT}]
    /\ bVal \in [Block -> {0, 1}]
    /\ touched \subseteq Block
    /\ command \in [Block -> Command]
    /\ pin \in [Pins -> {"UNSET", "LOW", "HIGH"}]
    /\ writer \in [Block -> Ref]
    /\ phase \in {"loaded", "validated", "operate", "settled", "polling"}
    /\ cur \in Block
    /\ cmds \in Nat

Exclusive(o) ==
    \A q \in Block \ {o} : IsType(q, {"OUT_DIGITAL"}) => conf[q].pin # conf[o].pin

(* An output that has its pin to itself drives it high exactly while its   *)
(* active flag is set, whatever is done to it: disabling or deleting a     *)
(* running output leaves flag and pin as they were, setting it up again    *)
(* clears both (OutputSetup, OutputOperate).                               *)
PinMatchesActive ==
    \A o \in Block :
        IsType(o, {"OUT_DIGITAL"}) /\ Exclusive(o)
            => ((pin[conf[o].pin] = "HIGH") <=> (active[o] = 1))

(* ControllerOperate sends a command on a change only, so nothing repairs  *)
(* an output that has drifted.  As long as nobody else has written its     *)
(* slot and neither it nor the controller was set up again, the output     *)
(* holds the command of the controller's present state, across passes,     *)
(* disabling, deletion and the commands of other controllers.              *)
CommandMatchesController ==
    \A o \in present : writer[o] # 0 =>
        LET c == conf[writer[o]] IN
        /\ c.ref2 = o
        /\ command[o] = IF active[writer[o]] = 1 THEN c.act_cmd ELSE c.deact_cmd

(* The blocks this pass has already visited.                               *)
Visited(b) == phase = "settled" \/ (phase = "operate" /\ b < cur)

RefsBefore(b) == conf[b].ref1 < b /\ conf[b].ref2 < b /\ conf[b].refnot < b

MonitorSettled(b) ==
    IF MonitorBadInput(b) THEN status[b] = "ENABLED_INVALID_DATA"
    ELSE /\ status[b] = "ENABLED_VALID_DATA"
         /\ MonitorDeacts(b) => active[b] = 0
         /\ MonitorActs(b) /\ ~MonitorDeacts(b) => active[b] = 1

(* When a pass is over, every running monitor and rule whose references    *)
(* come earlier in the list agrees with what those blocks now hold, every  *)
(* such controller with its rule, and every output with its command if all *)
(* its controllers come earlier: no decision of this pass rests on a value *)
(* of the pass before, on a deleted block, or on a flag set by hand        *)
(* between the passes.                                                     *)
DecisionSettled(b) ==
    /\ IsType(b, MonitorType) /\ RefsBefore(b) => MonitorSettled(b)
    /\ IsType(b, RuleType) /\ RefsBefore(b) => (active[b] = 1 <=> RuleHolds(b))
    /\ IsType(b, {"CON_ONOFF"}) /\ conf[b].ref1 < b
         => active[b] = IsActive(conf[b].ref1)
    /\ IsType(b, {"OUT_DIGITAL"})
         /\ (\A c \in Block : IsType(c, {"CON_ONOFF"}) /\ conf[c].ref2 = b => c < b)
         => (active[b] = 1 <=> command[b] = "CMD_OUTPUT_ON")

PassSettles == \A b \in Block : Visited(b) /\ Running(b) => DecisionSettled(b)

(* The loop from end to end: after a complete pass over a list in order,   *)
(* the pin of a running output is high exactly if the command its running  *)
(* controller sends for the rule's present state is "on".                  *)
DecisionReachesPin ==
    phase = "settled" =>
        \A o \in Block :
            LET c == writer[o] IN
            /\ Running(o) /\ IsType(o, {"OUT_DIGITAL"}) /\ Exclusive(o)
            /\ \A q \in Block : IsType(q, {"CON_ONOFF"}) /\ conf[q].ref2 = o => q < o
            /\ c # 0
            /\ Running(c) /\ conf[c].ref1 < c
            => (pin[conf[o].pin] = "HIGH" <=>
                  "CMD_OUTPUT_ON" = IF IsActive(conf[c].ref1) = 1
                                    THEN conf[c].act_cmd ELSE conf[c].deact_cmd)

(* Operate's comment: a block becomes enabled only out of DISABLED_INIT,   *)
(* and only setting it up does that; a pass never enables anything.        *)
EnabledOnlyBySetup ==
    [][\A b \in Block :
          status[b] \in Disabled /\ status'[b] \in Enabled
            => status[b] = "DISABLED_INIT" /\ phase # "operate"
               /\ active'[b] = 0]_vars

(* A pass leaves a disabled block, and the pin that it alone drives, alone *)
(* but for the command slot: it neither decides nor acts.                  *)
DisabledIsFrozen ==
    [][phase = "operate" =>
         \A b \in Block : ~Running(b) =>
             /\ status'[b] = status[b] /\ active'[b] = active[b]
             /\ fVal'[b] = fVal[b] /\ bVal'[b] = bVal[b]
             /\ IsType(b, {"OUT_DIGITAL"}) /\ Exclusive(b)
                  => pin'[conf[b].pin] = pin[conf[b].pin]]_vars

Output(c) == conf[c].ref2

Wired(c) ==
    /\ IsType(c, {"CON_ONOFF"}) /\ Running(c)
    /\ Output(c) \in Block
    /\ IsType(Output(c), {"OUT_DIGITAL"}) /\ Exclusive(Output(c))
    /\ Running(Output(c))
    /\ \A q \in Block :
          IsType(q, {"CON_ONOFF"}) /\ Output(q) = Output(c) => q = c

(* A rule that comes on reaches the pin, in whatever order the blocks are  *)
(* listed, unless it goes off again, a block of the chain is disabled or   *)
(* deleted, or the operator overrides the controller.                      *)
RuleReachesPin ==
    \A c \in {b \in Block : \E w \in Networks : w[b].type = "CON_ONOFF"} :
        (Wired(c) /\ active[c] = 0 /\ IsActive(conf[c].ref1) = 1
            /\ conf[c].act_cmd = "CMD_OUTPUT_ON")
        ~> (\/ ~Wired(c)
            \/ pin[conf[Output(c)].pin] = "HIGH"
            \/ IsActive(conf[c].ref1) = 0
            \/ active[c] = 1 /\ writer[Output(c)] # c)
=============================================================================
