------------------------------ MODULE MCSchedule ------------------------------
(* Small instances of Schedule: a day of sixteen seconds, a word of 256.   *)
EXTENDS Schedule

Sch(t, days, start, end, duration, repeat) ==
    [type |-> t, days |-> days, start |-> start, end |-> end,
     duration |-> duration, repeat |-> repeat]

DaySets == {WeekDay, {6}, {0, 2, 3}}

(* Windows inside the day and over midnight, that touch midnight, last one *)
(* second, or none.                                                        *)
StartStop ==
    {Sch("SCH_START_STOP", ds, w[1], w[2], 0, 1) : ds \in DaySets,
        w \in {<<0, 12>>, <<0, 0>>, <<5, 6>>, <<7, 12>>, <<12, 12>>,
               <<15, 0>>, <<12, 9>>, <<8, 3>>}}

OneShots ==
    {Sch("SCH_ONE_SHOT", ds, start, 0, 0, 1) : ds \in DaySets, start \in {0, 1, 6, 13}}

Repeats ==
    {Sch("SCH_START_DURATION_REPEAT", ds, start, 0, r[1], r[2]) : ds \in DaySets,
        start \in {0, 1, 4, 10}, r \in {<<3, 6>>, <<4, 7>>}}

AllSchedules == StartStop \cup OneShots \cup Repeats

(* A window that closes with the day.                                      *)
LateWindows == {Sch("SCH_START_STOP", {6}, 10, 15, 0, 1)}

(* Repetitions that begin some time into the day.                          *)
LateRepeats == {Sch("SCH_START_DURATION_REPEAT", WeekDay, 6, 0, 3, 7)}
=============================================================================
