----------------------------- MODULE InitConfig ------------------------------
(***************************************************************************)
(* The configuration of FodderFactory: the list of interfaces and the list *)
(* of blocks, the CONFIG lines that build and change them, the text file   *)
(* they are saved to and loaded from, and the boot that loads, validates   *)
(* and sets up what the file says.  Blocks refer to one another by id;     *)
(* files and the console refer to them by label.                           *)
(*                                                                         *)
(* A CONFIG line is [cat, label, key, val].  The text of a value is        *)
(* abstracted to what its parser tells apart: a label, the name of a type, *)
(* "True" or "False", "set" (a text that parses to a usable value),        *)
(* "24:00:00" (a time of a day or more), "unset" (a text that parses to    *)
(* the value a new block starts with) and "garbage".  A line without a     *)
(* value has val = NoValue.                                                *)
(*                                                                         *)
(* The power can fail in any state.  Saving and loading run to completion  *)
(* within one console command, so only a loss of power comes between two   *)
(* of their steps.                                                         *)
(***************************************************************************)
EXTENDS Integers, Sequences, SequencesExt

CONSTANTS
    Label,         \* the labels of blocks and interfaces
    Files,         \* the files to start from
    ConsoleLines,  \* the CONFIG lines the operator may enter
    Shorter,       \* pairs of texts: the second is the first one cut short
    Down, Torn,    \* see ConfigStore
    MaxNodes,      \* bound on the ids handed out in one run
    MaxEdits,      \* bound on the changes made from the console
    MaxLosses      \* bound on the losses of power

SSS == 500
BLOCK_ID_BASE == 1000
UINT16_INIT == 65535
M_FF_ERROR == 0
SET == 1                \* every usable value of a setting that is no id
NO_DAY == 2             \* days of a schedule when no day was recognised
A_DAY == 3              \* a time of day that is no time of day: 24:00:00 or more

NoValue == "NULL"       \* what GetBlockLabelString returns of an unknown id
NoType == "UINT8_INIT"  \* the type of a block that was never given one

TypesOf ==
    [FF_INTERFACE  |-> {"IF_WIFI", "IF_ETHERNET", "IF_PWM_IN", "IF_PWM_OUT",
                        "IF_PPM_IN", "IF_PPM_OUT", "IF_DS1820B",
                        "IF_ONEWIRE_BUS", "IF_DIG_PIN_IN", "IF_DIG_PIN_OUT",
                        "IF_VED_VOLTAGE", "IF_VED_CURRENT", "IF_VED_POWER",
                        "IF_VED_SOC", "IF_HW_SERIAL"},
     FF_SYSTEM     |-> {"SYS_SYSTEM"},
     FF_INPUT      |-> {"IN_ONEWIRE", "IN_DIGITAL", "IN_VEDIRECT"},
     FF_MONITOR    |-> {"MON_CONDITION_LOW", "MON_CONDITION_HIGH",
                        "MON_AVERAGE_CONDITION_LOW",
                        "MON_AVERAGE_CONDITION_HIGH", "MON_TRIGGER"},
     FF_SCHEDULE   |-> {"SCH_START_STOP", "SCH_ONE_SHOT",
                        "SCH_START_DURATION_REPEAT"},
     FF_RULE       |-> {"RL_LOGIC_ANDNOT", "RL_LOGIC_SINGLE", "RL_LOGIC_AND",
                        "RL_LOGIC_SINGLENOT"},
     FF_CONTROLLER |-> {"CON_ONOFF", "CON_SYSTEM"},
     FF_OUTPUT     |-> {"OUT_DIGITAL", "OUT_SYSTEM_CALL"}]

Category == DOMAIN TypesOf
BlockType == (UNION {TypesOf[c] : c \in Category}) \cup {NoType, "BT_ERROR"}

(* The keys a line may name, without those that are refused for every type *)
(* or that bear a text nobody reads back.                                  *)
KeysOf ==
    [FF_INTERFACE  |-> {"bus_pin", "device_count", "dallas_address"},
     FF_SYSTEM     |-> {"temp_scale", "language", "week_start", "start_delay"},
     FF_INPUT      |-> {"interface", "if_num", "log_rate", "poll_rate",
                        "data_units"},
     FF_MONITOR    |-> {"input1", "input2", "input3", "input4", "act_val",
                        "deact_val"},
     FF_SCHEDULE   |-> {"days", "time_start", "time_end", "time_duration",
                        "time_repeat"},
     FF_RULE       |-> {"param1", "param2", "param3", "param_not"},
     FF_CONTROLLER |-> {"rule", "output", "act_cmd", "deact_cmd"},
     FF_OUTPUT     |-> {"interface", "if_num"}]

Key == UNION {KeysOf[c] : c \in Category}

(* The settings an interface of a type takes: the parsers of the other     *)
(* types refuse every key, but for one flag of IF_WIFI that nothing reads  *)
(* or saves and that is left out.                                          *)
IFKeys(type) ==
    CASE type = "IF_ONEWIRE_BUS" -> {"bus_pin", "device_count"}
      [] type = "IF_DS1820B" -> {"bus_pin", "dallas_address"}
      [] OTHER -> {}

(* The settings that hold the id of another block; an input's interface is *)
(* one for the OneWire type only, for the others it is a type name.        *)
RefKeys(cat, type) ==
    CASE cat = "FF_INPUT" -> IF type = "IN_ONEWIRE" THEN {"interface"} ELSE {}
      [] cat = "FF_MONITOR" -> {"input1", "input2", "input3", "input4"}
      [] cat = "FF_RULE" -> {"param1", "param2", "param3", "param_not"}
      [] cat = "FF_CONTROLLER" -> {"rule", "output"}
      [] OTHER -> {}

(* Settings that a new block already has.                                  *)
PresetKeys == {"language", "week_start", "start_delay", "time_duration",
               "time_repeat"}

(* Settings that name a member of a table, and those that are times.       *)
NameKeys == {"temp_scale", "language", "week_start", "interface",
             "data_units", "act_cmd", "deact_cmd"}
TimeKeys == {"time_start", "time_end", "time_duration", "time_repeat",
             "log_rate", "poll_rate"}

(* What Validate asks of each type: references that must look like the id  *)
(* of a block (all the others must be unset), other settings that must be  *)
(* set.  The run-time fields it also looks at are as a boot leaves them.   *)
MustRefer(type) ==
    CASE type = "IN_ONEWIRE" -> {"interface"}
      [] type \in {"MON_CONDITION_LOW", "MON_CONDITION_HIGH", "MON_TRIGGER"} ->
           {"input1"}
      [] type \in {"MON_AVERAGE_CONDITION_LOW", "MON_AVERAGE_CONDITION_HIGH"} ->
           {"input1", "input2"}
      [] type = "RL_LOGIC_ANDNOT" -> {"param1", "param2", "param_not"}
      [] type = "RL_LOGIC_SINGLE" -> {"param1"}
      [] type = "RL_LOGIC_AND" -> {"param1", "param2"}
      [] type = "RL_LOGIC_SINGLENOT" -> {"param1", "param_not"}
      [] type \in {"CON_ONOFF", "CON_SYSTEM"} -> {"rule", "output"}
      [] OTHER -> {}

MustSet(type) ==
    CASE type \in TypesOf.FF_INTERFACE -> IFKeys(type)
      [] type = "SYS_SYSTEM" -> {"week_start"}
      [] type = "IN_ONEWIRE" -> {"log_rate", "data_units"}
      [] type = "IN_VEDIRECT" -> {"interface", "log_rate", "poll_rate",
                                  "data_units"}
      [] type \in TypesOf.FF_MONITOR -> {"act_val", "deact_val"}
      [] type \in TypesOf.FF_SCHEDULE -> {"days"}
      [] type = "CON_ONOFF" -> {"act_cmd", "deact_cmd"}
      [] type = "CON_SYSTEM" -> {"act_cmd"}
      [] type = "OUT_DIGITAL" -> {"interface", "if_num"}
      [] type = "OUT_SYSTEM_CALL" -> {"interface"}
      [] OTHER -> {}

Text == Label \cup BlockType
        \cup {NoValue, "set", "24:00:00", "unset", "garbage", "True", "False"}
Line == [cat : Category, label : Label, key : Key \cup {"type", "disable"},
         val : Text]

(* What is stored of a node: see Face.                                     *)
FaceText == Label \cup {NoValue, "unset", "set", "no day", "24:00:00", "garbage"}
FaceType == [label : Label, cat : Category, type : BlockType,
             settings : UNION {[KeysOf[c] -> FaceText] : c \in Category}]

Status == {"ENABLED", "DISABLED_INIT", "DISABLED_ERROR", "DISABLED_ASSERT",
           "DISABLED_ADMIN"}

ASSUME FilesAssumption == Files \subseteq Seq(Line)
ASSUME ConsoleAssumption == ConsoleLines \subseteq Line
(* No type of interface has a name that is the beginning of another type's. *)
ASSUME ShorterAssumption ==
    /\ Shorter \subseteq Text \X Text
    /\ \A p \in Shorter : p[1] \in BlockType => p[2] \notin TypesOf.FF_INTERFACE
(* The texts that stand for a reference to nothing are nobody's label.     *)
ASSUME LabelAssumption == {NoValue, "unset"} \cap Label = {}
(* Down and Torn are no configurations.                                    *)
ASSUME StoreAssumption ==
    Down \notin Seq(Seq(FaceType)) /\ Torn \notin Seq(Seq(FaceType))
(* The operator gives a label to blocks of one category only, a category   *)
(* the types that are its own, and an interface one type.                  *)
ASSUME CategoryAssumption ==
    LET Lines == ConsoleLines \cup UNION {{f[n] : n \in DOMAIN f} : f \in Files}
    IN \A k, l \in Lines :
         /\ k.key = "type" /\ k.val \in BlockType => k.val \in TypesOf[k.cat]
         /\ k.label = l.label /\ "FF_INTERFACE" \notin {k.cat, l.cat}
              => k.cat = l.cat
         /\ k.label = l.label /\ k.cat = l.cat /\ k.cat = "FF_INTERFACE"
              => (k.key = "type" /\ l.key = "type" => k.val = l.val)
(* Every id differs from the value that stands for none.                   *)
ASSUME BoundsAssumption ==
    /\ MaxNodes \in Nat /\ BLOCK_ID_BASE + MaxNodes <= UINT16_INIT
    /\ MaxEdits \in Nat
    /\ MaxLosses \in Nat

VARIABLES
    bll,          \* the block list
    ill,          \* the interface list
    block_count,  \* ids handed out since power came on
    file,         \* the lines of the configuration file
    mode,         \* "off", "load" (boot), "run", "save" or "reload"
    pos,          \* lines read, or nodes written, so far
    saved,        \* auxiliary: what the last completed save wrote, or Torn
    edits,        \* console changes so far
    losses        \* losses of power so far

lists == <<bll, ill, block_count>>
vars == <<bll, ill, block_count, file, mode, pos, saved, edits, losses>>
----------------------------------------------------------------------------
(* The registry: two lists of labelled nodes.                              *)

Node == [id : Nat, cat : Category, label : Label, type : BlockType,
         status : Status, settings : [Key -> Nat]]

(* Every node is given all the keys; those of another category, and of an  *)
(* interface those of another type, are never read.                        *)
NewBlockSettings ==
    [k \in Key |-> IF k \in PresetKeys THEN SET ELSE UINT16_INIT]
NewIFSettings == [k \in Key |-> UINT16_INIT]

NewNode(cat, label, type, id, settings) ==
    [id |-> id, cat |-> cat, label |-> label, type |-> type,
     status |-> "DISABLED_INIT", settings |-> settings]

(* Defective variant: the id is the place in the list.                     *)
NewBlockNodeAtPlace(cat, label) ==
    NewNode(cat, label, NoType,
            IF cat = "FF_SYSTEM" THEN SSS ELSE BLOCK_ID_BASE + Len(bll),
            NewBlockSettings)

NewBlockNode(cat, label) ==
    NewNode(cat, label, NoType,
            IF cat = "FF_SYSTEM" THEN SSS ELSE BLOCK_ID_BASE + block_count,
            NewBlockSettings)

NewInterfaceNode(type, label) ==
    NewNode("FF_INTERFACE", label, type, BLOCK_ID_BASE + block_count,
            NewIFSettings)

(* The place of the first node of a list that bears a label or an id, 0    *)
(* when none does.                                                         *)
First(S) == IF S = {} THEN 0 ELSE CHOOSE n \in S : \A m \in S : n <= m
ByLabel(list, label) == First({n \in DOMAIN list : list[n].label = label})
ById(list, id) == First({n \in DOMAIN list : list[n].id = id})

(* Defective variant: a label that is not found is no id at all.           *)
GetBlockIDByLabelNegative(blocks, interfaces, label) ==
    LET b == ByLabel(blocks, label)
        i == ByLabel(interfaces, label)
    IN IF b # 0 THEN blocks[b].id
       ELSE IF i # 0 THEN interfaces[i].id ELSE -1

GetBlockIDByLabel(blocks, interfaces, label) ==
    LET b == ByLabel(blocks, label)
        i == ByLabel(interfaces, label)
    IN IF b # 0 THEN blocks[b].id
       ELSE IF i # 0 THEN interfaces[i].id ELSE M_FF_ERROR

GetBlockLabelString(blocks, interfaces, id) ==
    LET b == ById(blocks, id)
        i == ById(interfaces, id)
    IN IF b # 0 THEN blocks[b].label
       ELSE IF i # 0 THEN interfaces[i].label ELSE NoValue
----------------------------------------------------------------------------
(* One CONFIG line, from the console or from a file.                       *)

(* A name that is not in its table is an error, but for the language,      *)
(* which is then English.                                                  *)
StringArrayIndex(key, val) ==
    IF val = "set" \/ key = "language" THEN SET ELSE UINT16_INIT
BlockTypeStringArrayIndex(cat, val) ==
    IF val \in TypesOf[cat] THEN val ELSE "BT_ERROR"

StringToTimeValue(val) ==
    CASE val = "24:00:00" -> A_DAY
      [] val = "set" -> SET
      [] OTHER -> UINT16_INIT
DayStrToFlag(val) == IF val = "set" THEN SET ELSE NO_DAY
DallasAddressStringToArray(val) == IF val = "set" THEN SET ELSE UINT16_INIT

(* atoi and atof make a number of any text, but 0 is no pin.               *)
Number(key, val) ==
    IF val = "set" \/ (val = "garbage" /\ key # "bus_pin") THEN SET ELSE UINT16_INIT

Parsed(key, val) ==
    CASE key \in NameKeys -> StringArrayIndex(key, val)
      [] key \in TimeKeys -> StringToTimeValue(val)
      [] key = "days" -> DayStrToFlag(val)
      [] key = "dallas_address" -> DallasAddressStringToArray(val)
      [] OTHER -> Number(key, val)

(* A node after the setting in a line: what cannot be parsed is refused,   *)
(* but only once the old value has been overwritten.                       *)
Configured(b, blocks, line) ==
    CASE line.key = "type" ->
           [b EXCEPT !.type = BlockTypeStringArrayIndex(b.cat, line.val)]
      [] line.key = "disable" ->
           [b EXCEPT !.status = CASE line.val = "True" -> "DISABLED_ADMIN"
                                  [] line.val = "False" -> "DISABLED_INIT"
                                  [] OTHER -> @]
      [] line.key \in RefKeys(b.cat, b.type) ->
           [b EXCEPT !.settings[line.key] =
               GetBlockIDByLabel(blocks, ill, line.val)]
      [] line.key \in KeysOf[b.cat] \ RefKeys(b.cat, b.type) ->
           [b EXCEPT !.settings[line.key] = Parsed(line.key, line.val)]
      [] OTHER -> b

(* ... of an interface, which takes the settings of its type.              *)
ConfigureIFSpecificSetting(b, line) ==
    IF line.key \in IFKeys(b.type) THEN Configured(b, bll, line) ELSE b

ConfigureIFSetting(b, line) ==
    IF line.key \in {"type", "disable"} THEN Configured(b, bll, line)
                                        ELSE ConfigureIFSpecificSetting(b, line)

(* Defective variant: the block list is not searched first.                *)
ConfigureBlockAnew(line) ==
    LET blocks == Append(bll, NewBlockNode(line.cat, line.label))
    IN /\ bll' = [blocks EXCEPT ![Len(blocks)] = Configured(@, blocks, line)]
       /\ block_count' = IF line.cat = "FF_SYSTEM"
                         THEN block_count ELSE block_count + 1
       /\ UNCHANGED ill

(* ConfigureBlock: a label not on the block list is added to it first, and *)
(* stays there when the setting is refused.                                *)
ConfigureBlock(line) ==
    LET known == ByLabel(bll, line.label) # 0
        blocks == IF known THEN bll
                  ELSE Append(bll, NewBlockNode(line.cat, line.label))
        n == ByLabel(blocks, line.label)
    IN /\ bll' = [blocks EXCEPT ![n] = Configured(@, blocks, line)]
       /\ block_count' = IF known \/ line.cat = "FF_SYSTEM"
                         THEN block_count ELSE block_count + 1
       /\ UNCHANGED ill

AddInterface(type, label) == Append(ill, NewInterfaceNode(type, label))

(* ConfigureInterface: only a line with a valid type adds an interface.    *)
ConfigureInterface(line) ==
    LET n == ByLabel(ill, line.label)
        added == /\ n = 0 /\ line.key = "type"
                 /\ line.val \in TypesOf.FF_INTERFACE
    IN /\ ill' = CASE added -> AddInterface(line.val, line.label)
                    [] n # 0 -> [ill EXCEPT ![n] = ConfigureIFSetting(@, line)]
                    [] OTHER -> ill
       /\ block_count' = IF added THEN block_count + 1 ELSE block_count
       /\ UNCHANGED bll

Configure(line) ==
    /\ block_count < MaxNodes
    /\ IF line.cat = "FF_INTERFACE" THEN ConfigureInterface(line)
                                    ELSE ConfigureBlock(line)

(* ConfigParse: a line of other than five words is passed over.            *)
ConfigParse(line) == IF line.val = NoValue THEN UNCHANGED lists ELSE Configure(line)
----------------------------------------------------------------------------
(* What InitConfigSave writes of a node: a line that registers it, and in  *)
(* the second pass all its settings.  garbled is what the text of an       *)
(* unknown label or type comes out as.                                     *)

(* No day at all comes out as no word.                                     *)
FlagToDayStr(days) == IF days = SET THEN "set" ELSE NoValue

ValueText(b, key, garbled) ==
    LET v == b.settings[key]
        label == GetBlockLabelString(bll, ill, v)
        isname == key = "week_start" \/ (key = "interface" /\ b.cat = "FF_INPUT")
    IN IF key \in RefKeys(b.cat, b.type)
            THEN IF label = NoValue THEN garbled ELSE label
       ELSE IF key = "days" THEN FlagToDayStr(v)
       \* indexes outside the tables of names
       ELSE IF isname /\ v # SET THEN garbled
       \* UINT32_INIT and A_DAY are printed as a time of day like any other,
       \* and an input's if_num as the number it happens to hold
       ELSE IF v # UINT16_INIT \/ key = "time_start" \/ (key = "if_num" /\ b.cat = "FF_INPUT")
            THEN "set" ELSE "unset"

Say(b, key, val) ==
    <<[cat |-> b.cat, label |-> b.label, key |-> key, val |-> val]>>
When(condition, lines) == IF condition THEN lines ELSE <<>>
Put(b, key, garbled) == Say(b, key, ValueText(b, key, garbled))
PutIfSet(b, key, garbled) ==
    When(b.settings[key] # UINT16_INIT, Put(b, key, garbled))

PutInterface(b, g) ==
    When(b.type \in {"IF_ONEWIRE_BUS", "IF_DS1820B"}, Put(b, "bus_pin", g))
    \o When(b.type = "IF_ONEWIRE_BUS", Put(b, "device_count", g))
    \o When(b.type = "IF_DS1820B", Put(b, "dallas_address", g))

PutBlock(b, g) ==
    CASE b.cat = "FF_SYSTEM" ->
           Put(b, "temp_scale", g) \o Put(b, "language", g)
           \o Put(b, "week_start", g) \o Put(b, "start_delay", g)
      [] b.cat = "FF_INPUT" ->
           Put(b, "interface", g)
           \o When(b.type # "IN_ONEWIRE", Put(b, "if_num", g))
           \o Put(b, "log_rate", g) \o Put(b, "poll_rate", g)
           \o Put(b, "data_units", g)
      [] b.cat = "FF_MONITOR" ->
           Put(b, "input1", g)
           \o PutIfSet(b, "input2", g) \o PutIfSet(b, "input3", g)
           \* input2 is what the source tests here
           \o When(b.settings["input2"] # UINT16_INIT, Put(b, "input4", g))
           \o Put(b, "act_val", g) \o Put(b, "deact_val", g)
      [] b.cat = "FF_SCHEDULE" ->
           Put(b, "days", g) \o Put(b, "time_start", g)
           \o PutIfSet(b, "time_end", g) \o PutIfSet(b, "time_duration", g)
           \o PutIfSet(b, "time_repeat", g)
      [] b.cat = "FF_RULE" ->
           Put(b, "param1", g) \o PutIfSet(b, "param2", g)
           \o PutIfSet(b, "param3", g) \o PutIfSet(b, "param_not", g)
      [] b.cat = "FF_CONTROLLER" ->
           Put(b, "rule", g) \o Put(b, "output", g)
           \o Put(b, "act_cmd", g) \o Put(b, "deact_cmd", g)
      [] b.cat = "FF_OUTPUT" -> Put(b, "interface", g) \o Put(b, "if_num", g)

(* WriteBlock and WriteInterface.                                          *)
WriteNode(b, reg_only, garbled) ==
    Say(b, "type", IF b.type = NoType THEN garbled ELSE b.type)
    \o When(~reg_only,
          When(b.status = "DISABLED_ADMIN", Say(b, "disable", "True"))
          \o IF b.cat = "FF_INTERFACE" THEN PutInterface(b, garbled)
                                       ELSE PutBlock(b, garbled))

Nodes == ill \o bll

(* The node that is written next: all of them once, then all of them again.*)
NextNode == Nodes[IF pos < Len(Nodes) THEN pos + 1 ELSE pos - Len(Nodes) + 1]
(* Defective variant: the settings come in the first pass.                 *)
WrittenSettingsFirst(garbled) == WriteNode(NextNode, pos >= Len(Nodes), garbled)

Written(garbled) == WriteNode(NextNode, pos < Len(Nodes), garbled)

(* What may be left of a file that was not closed: any number of its first *)
(* lines, and possibly the next one cut short in its value.                *)
Remains(lines) ==
    {SubSeq(lines, 1, n) : n \in 0 .. Len(lines)}
    \cup {Append(SubSeq(lines, 1, p[1] - 1), [lines[p[1]] EXCEPT !.val = p[2]]) :
            p \in {q \in (DOMAIN lines) \X Text : <<lines[q[1]].val, q[2]>> \in Shorter}}
----------------------------------------------------------------------------
(* Validate and Setup, as the boot runs them on every node.                *)

(* Defective variant: any id will do.                                      *)
ValidAnyId(b) ==
    /\ b.type \in BlockType \ {NoType, "BT_ERROR", "IN_DIGITAL"}
    /\ \A k \in RefKeys(b.cat, b.type) :
         (b.settings[k] # UINT16_INIT) <=> (k \in MustRefer(b.type))
    /\ \A k \in MustSet(b.type) : b.settings[k] \in {SET, NO_DAY, A_DAY}

Valid(b) ==
    /\ b.type \in BlockType \ {NoType, "BT_ERROR", "IN_DIGITAL"}
    /\ \A k \in RefKeys(b.cat, b.type) :
         IF k \in MustRefer(b.type)
         THEN b.settings[k] # UINT16_INIT /\ b.settings[k] >= BLOCK_ID_BASE
         ELSE b.settings[k] = UINT16_INIT
    /\ \A k \in MustSet(b.type) : b.settings[k] \in {SET, NO_DAY, A_DAY}

Validated(b) ==
    [b EXCEPT !.status = IF Valid(b) THEN "DISABLED_INIT" ELSE "DISABLED_ASSERT"]

(* Interfaces and the system block are not given another status.  answer   *)
(* is what becomes of an input of the VE.Direct monitor, which may fail to *)
(* answer and which some builds do not ask.                                *)
SetUp(b, answer) ==
    IF b.status # "DISABLED_INIT" \/ b.cat \in {"FF_INTERFACE", "FF_SYSTEM"} THEN b
    ELSE [b EXCEPT !.status = IF b.type = "IN_VEDIRECT" THEN answer ELSE "ENABLED"]
----------------------------------------------------------------------------
Init ==
    /\ bll = <<>> /\ ill = <<>> /\ block_count = 0
    /\ file \in Files
    /\ mode = "off" /\ pos = 0
    /\ saved = Torn
    /\ edits = 0 /\ losses = 0

NoMemory == bll' = <<>> /\ ill' = <<>> /\ block_count' = 0

(* The file is opened, and read line by line over the lists as they are.   *)
InitConfigLoad(how) ==
    /\ mode' = how
    /\ UNCHANGED <<lists, file, pos, saved, edits, losses>>

PowerOn == mode = "off" /\ InitConfigLoad("load")

LoadLine ==
    /\ mode \in {"load", "reload"} /\ pos < Len(file)
    /\ ConfigParse(file[pos + 1])
    /\ pos' = pos + 1
    /\ UNCHANGED <<file, mode, saved, edits, losses>>

(* The rest of setup(): validate everything, then set up what is valid.    *)
BootDone ==
    /\ mode = "load" /\ pos = Len(file)
    /\ \E answer \in [{n \in DOMAIN bll : bll[n].type = "IN_VEDIRECT"} ->
                       {"ENABLED", "DISABLED_ERROR", "DISABLED_INIT"}] :
         bll' = [n \in DOMAIN bll |-> SetUp(Validated(bll[n]), answer[n])]
    /\ ill' = [n \in DOMAIN ill |-> Validated(ill[n])]
    /\ mode' = "run" /\ pos' = 0
    /\ UNCHANGED <<block_count, file, saved, edits, losses>>

(* The configuration console, between two passes of the main loop.         *)
Console ==
    /\ mode = "run" /\ edits < MaxEdits
    /\ edits' = edits + 1
    /\ UNCHANGED <<file, pos, saved, losses>>

RegConfigLine ==
    /\ Console
    /\ \E line \in ConsoleLines : Configure(line)
    /\ UNCHANGED mode

(* Defective variant: the id of a deleted block is free again.             *)
RegConfigDeleteBIDFreed ==
    /\ Console
    /\ \E n \in DOMAIN bll :
         bll' = RemoveAt(bll, ById(bll, bll[n].id)) /\ block_count' = block_count - 1
    /\ UNCHANGED <<ill, mode>>

DeleteBlockByID(id) ==
    LET b == ById(bll, id)
        i == ById(ill, id)
    IN \/ b # 0 /\ bll' = RemoveAt(bll, b) /\ UNCHANGED ill
       \/ b = 0 /\ i # 0 /\ ill' = RemoveAt(ill, i) /\ UNCHANGED bll

RegConfigDeleteBID ==
    /\ Console
    /\ \E b \in Range(ill \o bll) : DeleteBlockByID(b.id)
    /\ UNCHANGED <<block_count, mode>>

(* An interface is looked for only while there is a block.                 *)
DeleteBlockByLabel(label) ==
    LET b == ByLabel(bll, label)
        i == ByLabel(ill, label)
    IN \/ b # 0 /\ bll' = RemoveAt(bll, b) /\ UNCHANGED ill
       \/ b = 0 /\ bll # <<>> /\ i # 0
            /\ ill' = RemoveAt(ill, i) /\ UNCHANGED bll

RegConfigDeleteBlockLabel ==
    /\ Console
    /\ \E label \in Label : DeleteBlockByLabel(label)
    /\ UNCHANGED <<block_count, mode>>

DropBlockList == bll' = <<>>
DropInterfaceList == ill' = <<>>

RegConfigClear ==
    /\ Console
    /\ DropBlockList /\ DropInterfaceList
    /\ UNCHANGED <<block_count, mode>>

(* RegAdminDisableBID and RegAdminEnableBID.                               *)
RegAdmin ==
    /\ Console
    /\ \E n \in DOMAIN bll, status \in {"DISABLED_ADMIN", "DISABLED_INIT"} :
         bll' = [bll EXCEPT ![n].status = status]
    /\ UNCHANGED <<ill, block_count, mode>>

(* ... of an interface: a write through the null pointer that the search   *)
(* of the block list returned.  Nothing happens, or the program dies.      *)
RegAdminInterface ==
    /\ Console
    /\ \E n \in DOMAIN ill : ById(bll, ill[n].id) = 0
    /\ \/ UNCHANGED <<lists, mode>>
       \/ NoMemory /\ mode' = "off"

(* A sensor no interface knows is found on the bus s, and given to t.      *)
RegIFOneWireAssign ==
    /\ Console
    /\ \E s, t \in DOMAIN ill :
         /\ ill[s].type = "IF_ONEWIRE_BUS" /\ ill[t].type = "IF_DS1820B"
         /\ ill' = [ill EXCEPT ![t].settings =
                      [@ EXCEPT !["bus_pin"] = ill[s].settings["bus_pin"],
                                !["dallas_address"] = SET]]
    /\ UNCHANGED <<bll, block_count, mode>>

(* What is left of a configuration when it has been saved and loaded: no   *)
(* ids, no status, references by label.                                    *)
Face(b) ==
    [label |-> b.label, cat |-> b.cat, type |-> b.type,
     settings |-> [k \in KeysOf[b.cat] |->
         LET v == b.settings[k]
         IN IF v = UINT16_INIT THEN "unset"
            ELSE IF k \in RefKeys(b.cat, b.type) THEN GetBlockLabelString(bll, ill, v)
            ELSE CASE
                 v = SET -> "set"
              [] v = NO_DAY -> "no day"
              [] v = A_DAY -> "24:00:00"
              [] OTHER -> "garbage"]]

View == <<[n \in DOMAIN ill |-> Face(ill[n])], [n \in DOMAIN bll |-> Face(bll[n])]>>

(* The configurations that a save is faithful to.                          *)
StorableFace(f) ==
    /\ f.type \in TypesOf[f.cat]
    /\ \A k \in RefKeys(f.cat, f.type) : f.settings[k] # NoValue
    /\ \A k \in {"input1", "param1", "rule", "output"} \cap KeysOf[f.cat] :
         f.settings[k] # "unset"
    /\ \A k \in DOMAIN f.settings : f.settings[k] \notin {"no day", "24:00:00", "garbage"}
    /\ f.cat = "FF_SYSTEM" => f.settings["week_start"] = "set"
    /\ f.cat = "FF_INPUT" =>
         /\ f.settings["interface"] # "unset"
         /\ (f.settings["if_num"] = "set") <=> (f.type # "IN_ONEWIRE")
    /\ f.cat = "FF_MONITOR" =>
         (f.settings["input2"] = "unset") <=> (f.settings["input4"] = "unset")
    /\ f.cat = "FF_SCHEDULE" =>
         \A k \in {"time_start", "time_duration", "time_repeat"} :
            f.settings[k] = "set"

Storable(v) ==
    /\ \A n \in DOMAIN v[1] : StorableFace(v[1][n])
    /\ \A n \in DOMAIN v[2] : StorableFace(v[2][n])
    /\ \A m \in DOMAIN v[1], n \in DOMAIN v[2] : v[1][m].label # v[2][n].label

(* InitConfigSave: the file is emptied when it is opened.                  *)
RegConfigSave ==
    /\ mode = "run" /\ mode' = "save"
    /\ file' = <<>> /\ saved' = Torn
    /\ UNCHANGED <<lists, pos, edits, losses>>

(* One node is written.  Where an index or a pointer of it leads nowhere,  *)
(* what is written is garbled, or the program dies while writing.          *)
SaveNode ==
    /\ mode = "save" /\ pos < 2 * Len(Nodes)
    /\ \E garbled \in {NoValue, "garbage"} :
         LET out == file \o Written(garbled)
         IN \/ /\ file' = out /\ pos' = pos + 1
               /\ UNCHANGED <<lists, mode>>
            \/ /\ Written(NoValue) # Written("garbage")
               /\ file' \in Remains(out) /\ pos' = 0
               /\ NoMemory /\ mode' = "off"
    /\ UNCHANGED <<saved, edits, losses>>

SaveDone ==
    /\ mode = "save" /\ pos = 2 * Len(Nodes)
    /\ mode' = "run" /\ pos' = 0
    /\ saved' = IF Storable(View) THEN View ELSE Torn
    /\ UNCHANGED <<lists, file, edits, losses>>

RegConfigLoad == mode = "run" /\ InitConfigLoad("reload")

ReloadDone ==
    /\ mode = "reload" /\ pos = Len(file)
    /\ mode' = "run" /\ pos' = 0
    /\ UNCHANGED <<lists, file, saved, edits, losses>>

RegSystemReboot ==
    /\ mode = "run" /\ mode' = "off"
    /\ NoMemory
    /\ UNCHANGED <<file, pos, saved, edits, losses>>

PowerLoss ==
    /\ mode # "off" /\ mode' = "off"
    /\ losses < MaxLosses /\ losses' = losses + 1
    /\ IF mode = "save" THEN file' \in Remains(file) ELSE UNCHANGED file
    /\ pos' = 0 /\ NoMemory
    /\ UNCHANGED <<saved, edits>>

Next ==
    \/ PowerOn \/ LoadLine \/ BootDone
    \/ RegConfigLine \/ RegConfigDeleteBID \/ RegConfigDeleteBlockLabel
    \/ RegConfigClear \/ RegAdmin \/ RegAdminInterface \/ RegIFOneWireAssign
    \/ RegConfigSave \/ SaveNode \/ SaveDone
    \/ RegConfigLoad \/ ReloadDone
    \/ RegSystemReboot \/ PowerLoss

Spec == Init /\ [][Next]_vars
----------------------------------------------------------------------------
TypeOK ==
    /\ bll \in Seq(Node) /\ ill \in Seq(Node)
    /\ block_count \in 0 .. MaxNodes
    /\ file \in Seq(Line)
    /\ mode \in {"off", "load", "run", "save", "reload"}
    /\ pos \in Nat
    /\ edits \in 0 .. MaxEdits /\ losses \in 0 .. MaxLosses

Resolves(blocks, interfaces, id) ==
    ById(blocks, id) # 0 \/ ById(interfaces, id) # 0

(* An id belongs to one node, and none is handed out twice.                *)
IdsInv ==
    LET All == ill \o bll
    IN \A m, n \in DOMAIN All :
         /\ All[n].id # SSS => All[n].id \in BLOCK_ID_BASE .. BLOCK_ID_BASE + block_count - 1
         /\ All[m].id = All[n].id => m = n \/ All[n].id = SSS

(* A boot enables no block that refers to one that does not exist: not     *)
(* from a file that was cut short, nor from one with lines that were       *)
(* refused, or that name blocks deleted before the save.                   *)
BootRefsResolve ==
    [][mode = "load" /\ mode' = "run" =>
         \A n \in DOMAIN bll' :
           LET b == bll'[n]
           IN b.status = "ENABLED" =>
                \A k \in RefKeys(b.cat, b.type) :
                  b.settings[k] # UINT16_INIT => Resolves(bll', ill', b.settings[k])
      ]_vars

(* While the power is on, a reference that was not itself changed leads to *)
(* the block it led to before or, once that has been deleted, to none:     *)
(* never to a block that was added in its place.                           *)
ReferenceKeepsItsTarget ==
    [][mode # "off" /\ mode' # "off" =>
         \A n \in DOMAIN bll, m \in DOMAIN bll' :
           bll'[m].id = bll[n].id =>
             \A k \in RefKeys(bll[n].cat, bll[n].type) :
               LET id == bll[n].settings[k]
               IN bll'[m].settings[k] = id /\ id >= BLOCK_ID_BASE
                  => GetBlockLabelString(bll', ill', id)
                       \in {GetBlockLabelString(bll, ill, id), NoValue}
      ]_vars

(* Loading a configuration over the one that was just saved leaves it as   *)
(* it is, although the load starts from the lists in memory and not, as    *)
(* its comment says, from an empty list.                                   *)
ReloadKeepsSaved ==
    [][mode = "reload" /\ mode' = "reload" /\ View = saved => View' = saved]_vars

(* A block that its file disables is not running after the boot.           *)
DisabledStaysDisabled ==
    [][mode = "load" /\ mode' = "run" =>
         \A n \in DOMAIN bll' :
           (\E i \in DOMAIN file : /\ file[i].cat = bll'[n].cat
                                   /\ file[i].label = bll'[n].label
                                   /\ file[i].key = "disable"
                                   /\ file[i].val = "True")
             => bll'[n].status # "ENABLED"
      ]_vars

(* A configuration whose save has completed is the one that runs after the *)
(* next boot.                                                              *)
Store == INSTANCE ConfigStore
           WITH running <- IF mode \in {"run", "save", "reload"} THEN View ELSE Down,
                store <- saved
StoreSpec == Store!Spec
=============================================================================
