--------------------------- MODULE MCControlLoop ---------------------------
(***************************************************************************)
(* Networks of six blocks for ControlLoop.                                 *)
(***************************************************************************)
EXTENDS ControlLoop

MCTemp == {5, 15}
MCPins == {"p1", "p2"}

Blank == [type |-> "SCHEDULE", ref1 |-> 0, ref2 |-> 0, refnot |-> 0,
          act_val |-> 0, deact_val |-> 0, act_cmd |-> "CMD_ERROR",
          deact_cmd |-> "CMD_ERROR", pin |-> "p1"]

Plain(t) == [Blank EXCEPT !.type = t]
Input(t) == [Blank EXCEPT !.type = t, !.ref1 = 1]
Mon(t, i, j, a, d) == [Blank EXCEPT !.type = t, !.ref1 = i, !.ref2 = j,
                                    !.act_val = a, !.deact_val = d]
Rule(t, i, j, n) == [Blank EXCEPT !.type = t, !.ref1 = i, !.ref2 = j, !.refnot = n]
Con(r, o, a, d) == [Blank EXCEPT !.type = "CON_ONOFF", !.ref1 = r, !.ref2 = o,
                                 !.act_cmd = a, !.deact_cmd = d]
OnOff(r, o) == Con(r, o, "CMD_OUTPUT_ON", "CMD_OUTPUT_OFF")
OffOn(r, o) == Con(r, o, "CMD_OUTPUT_OFF", "CMD_OUTPUT_ON")
Out(p) == [Blank EXCEPT !.type = "OUT_DIGITAL", !.pin = p]

\* a frost guard, listed in order
Heater == <<Input("IN_ONEWIRE"), Mon("MON_CONDITION_LOW", 1, 0, 8, 12),
            Plain("SCHEDULE"), Rule("RL_LOGIC_AND", 2, 3, 0),
            OnOff(4, 6), Out("p1")>>

\* the average of two sensors
Cooler == <<Input("IN_ONEWIRE"), Input("IN_ONEWIRE"),
            Mon("MON_AVERAGE_CONDITION_HIGH", 1, 2, 12, 8),
            Rule("RL_LOGIC_SINGLE", 3, 0, 0), OnOff(4, 6), Out("p1")>>

\* every block before the ones it refers to
Backwards == <<Out("p1"), OnOff(3, 1), Rule("RL_LOGIC_SINGLENOT", 4, 0, 6),
               Mon("MON_TRIGGER", 5, 0, 1, 0), Input("IN_DIGITAL"),
               Plain("SCHEDULE")>>

\* two controllers of one output
Shared == <<Plain("SCHEDULE"), Plain("SCHEDULE"),
            Rule("RL_LOGIC_ANDNOT", 1, 1, 2), OnOff(3, 6), OffOn(2, 6),
            Out("p1")>>

\* two outputs on one pin
OnePin == <<Plain("SCHEDULE"), Rule("RL_LOGIC_SINGLE", 1, 0, 0), Out("p1"),
            OnOff(2, 3), OffOn(1, 6), Out("p1")>>

\* inputs no monitor can read, a monitor that fails validation, an output
\* with nothing to drive
Odd == <<Plain("IN_VEDIRECT"), Mon("MON_CONDITION_HIGH", 1, 0, 12, 8),
         Plain("IN_DIGITAL"),
         Mon("MON_AVERAGE_CONDITION_LOW", 1, 3, 12, 8),
         [OnOff(2, 6) EXCEPT !.type = "CON_SYSTEM"], Plain("OUT_SYSTEM_CALL")>>

MCNetworks == {Heater, Cooler, Backwards, Shared, OnePin, Odd}
=============================================================================
