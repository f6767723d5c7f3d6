---------------------------- MODULE MCInitConfig ----------------------------
(***************************************************************************)
(* Three small configurations of the kind the controller ships with, and   *)
(* the changes an operator may make to them.                               *)
(***************************************************************************)
EXTENDS InitConfig

L(cat, label, key, val) == [cat |-> cat, label |-> label, key |-> key, val |-> val]

MCLabel == {"OW", "IF", "IN", "BAT", "MON", "MON2", "SYS", "SCH", "RL",
            "CON", "OUT", "VED"}

(* A sensor on a bus, an input, a monitor; one line is refused.            *)
Sensing == <<
    L("FF_INTERFACE", "OW", "type", "IF_ONEWIRE_BUS"),
    L("FF_INTERFACE", "IF", "type", "IF_DS1820B"),
    L("FF_INTERFACE", "OW", "bus_pin", "set"),
    L("FF_INTERFACE", "OW", "device_count", "set"),
    L("FF_INTERFACE", "IF", "device_count", "set"),
    L("FF_INPUT", "IN", "type", "IN_ONEWIRE"),
    L("FF_MONITOR", "MON", "type", "MON_CONDITION_LOW"),
    L("FF_INPUT", "IN", "interface", "IF"),
    L("FF_INPUT", "IN", "log_rate", "set"),
    L("FF_INPUT", "IN", "data_units", "set"),
    L("FF_MONITOR", "MON", "input1", "IN"),
    L("FF_MONITOR", "MON", "act_val", "set"),
    L("FF_MONITOR", "MON", "deact_val", "set")>>

(* A schedule that switches an output; the controller comes before what it *)
(* refers to.                                                              *)
Switching == <<
    L("FF_CONTROLLER", "CON", "type", "CON_ONOFF"),
    L("FF_OUTPUT", "OUT", "type", "OUT_DIGITAL"),
    L("FF_RULE", "RL", "type", "RL_LOGIC_SINGLE"),
    L("FF_SCHEDULE", "SCH", "type", "SCH_START_STOP"),
    L("FF_CONTROLLER", "CON", "rule", "RL"),
    L("FF_CONTROLLER", "CON", "output", "OUT"),
    L("FF_CONTROLLER", "CON", "act_cmd", "set"),
    L("FF_CONTROLLER", "CON", "deact_cmd", "set"),
    L("FF_OUTPUT", "OUT", "interface", "set"),
    L("FF_OUTPUT", "OUT", "if_num", "set"),
    L("FF_RULE", "RL", "param1", "SCH"),
    L("FF_SCHEDULE", "SCH", "days", "set"),
    L("FF_SCHEDULE", "SCH", "time_start", "set")>>

(* The battery monitor and the system block, and an interface that takes   *)
(* no settings: one is tried before it is registered and one after.        *)
Battery == <<
    L("FF_SYSTEM", "SYS", "type", "SYS_SYSTEM"),
    L("FF_SYSTEM", "SYS", "week_start", "set"),
    L("FF_INPUT", "BAT", "type", "IN_VEDIRECT"),
    L("FF_INPUT", "BAT", "interface", "set"),
    L("FF_INPUT", "BAT", "if_num", "set"),
    L("FF_INPUT", "BAT", "log_rate", "set"),
    L("FF_INPUT", "BAT", "poll_rate", "set"),
    L("FF_INPUT", "BAT", "data_units", "set"),
    L("FF_INTERFACE", "VED", "bus_pin", "set"),
    L("FF_INTERFACE", "VED", "type", "IF_VED_VOLTAGE"),
    L("FF_INTERFACE", "VED", "bus_pin", "set")>>

MCFiles == {Sensing, Switching, Battery}

(* A second monitor, references set, changed and refused, times and days   *)
(* the file cannot hold, a sensor exchanged by hand.                       *)
MCConsoleLines == {
    L("FF_MONITOR", "MON2", "type", "MON_TRIGGER"),
    L("FF_MONITOR", "MON", "input1", "SYS"),
    L("FF_MONITOR", "MON", "input2", "IN"),
    L("FF_INPUT", "IN", "interface", "OUT"),
    L("FF_SCHEDULE", "SCH", "time_end", "24:00:00"),
    L("FF_SYSTEM", "SYS", "week_start", "garbage"),
    L("FF_SCHEDULE", "SCH", "days", "garbage"),
    L("FF_INTERFACE", "IF", "dallas_address", "set")}

MCShorter == {<<"IF", "garbage">>, <<"SCH", "garbage">>, <<"MON2", "MON">>}
=============================================================================
