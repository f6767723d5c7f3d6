------------------------------- MODULE Schedule -------------------------------
(***************************************************************************)
(* When a SCHEDULE block is active.  The main loop visits the block now    *)
(* and then; at each visit ScheduleOperate looks at the time of day and    *)
(* switches the block on, off, or leaves it.  Nothing happens between two  *)
(* visits, so what a schedule does depends on which seconds are visited.   *)
(*                                                                         *)
(* The clock is a day of the week and a second of that day.  The source    *)
(* adds the midnight of today to both sides of its comparisons; here the   *)
(* sides are compared as seconds of the day, which is the same as long as  *)
(* a 32-bit time does not run out.  The arithmetic of the repeating        *)
(* schedule, which does wrap, keeps its width.                             *)
(***************************************************************************)
EXTENDS Integers

CONSTANTS
    DAY,                \* seconds in a day
    WORD,               \* TV_TYPE counts modulo WORD
    ONE_SHOT_DURATION,  \* how long a one-shot stays active
    MaxLag,             \* most seconds between two visits
    Schedules           \* the settings to start from

UINT8_INIT == 255

Second == 0 .. DAY - 1
WeekDay == 0 .. 6

Setting == [type : {"SCH_START_STOP", "SCH_ONE_SHOT", "SCH_START_DURATION_REPEAT"},
            days : SUBSET WeekDay,
            start : Second, end : Second, duration : Second, repeat : Second \ {0}]

ASSUME DayAssumption == DAY \in Nat /\ DAY > 1
ASSUME WordAssumption == WORD \in Nat /\ WORD >= 2 * DAY
ASSUME LagAssumption == MaxLag \in Nat \ {0} /\ MaxLag < DAY
ASSUME OneShotAssumption == ONE_SHOT_DURATION \in Nat /\ MaxLag <= ONE_SHOT_DURATION + 1
ASSUME SchedulesAssumption == Schedules \subseteq Setting

VARIABLES
    conf,    \* the settings of the schedule
    day,     \* today_num
    sec,     \* the second of the day at the last visit or setup
    active,  \* the block's active flag
    early,   \* auxiliary: running since before today's start time
    pulses   \* auxiliary: activations since today's start time, one that
             \* is already going on at the start time counted

vars == <<conf, day, sec, active, early, pulses>>
----------------------------------------------------------------------------
(* What the settings ask for on weekday d at second s: 1, 0, or neither.   *)

Yesterday(d) == (d - 1 + 7) % 7

(* A window inside one day.  At its last second, end = now, and on a day   *)
(* that is not its own, nothing is asked for.                              *)
ContainedTarget(c, d, s) ==
    CASE d \in c.days /\ c.start > s /\ c.end >= s -> 0
      [] d \in c.days /\ c.start <= s /\ c.end > s -> 1
      [] d \in c.days /\ c.start <= s /\ c.end < s -> 0
      [] OTHER -> UINT8_INIT

(* Defective variant: the day on which the window ends is taken for the    *)
(* day on which it began.                                                  *)
CrossingTargetToday(c, d, s) ==
    IF d \in c.days /\ c.start <= s /\ c.end < s THEN 1
    ELSE IF d \in c.days /\ c.start >= s /\ c.end > s THEN 1
    ELSE IF d \in c.days /\ c.start >= s /\ c.end < s THEN 0
    ELSE UINT8_INIT

(* A window over midnight; the test of today comes last and prevails.      *)
CrossingTarget(c, d, s) ==
    IF d \in c.days /\ c.start <= s /\ c.end < s THEN 1
    ELSE IF Yesterday(d) \in c.days /\ c.start >= s /\ c.end > s THEN 1
    ELSE IF Yesterday(d) \in c.days /\ c.start >= s /\ c.end < s THEN 0
    ELSE UINT8_INIT

(* Defective variant: one second short.                                    *)
OneShotTargetShort(c, d, s) ==
    IF d \in c.days /\ c.start <= s /\ c.start + ONE_SHOT_DURATION > s
    THEN 1 ELSE 0

OneShotTarget(c, d, s) ==
    IF d \in c.days /\ c.start <= s /\ c.start + ONE_SHOT_DURATION >= s
    THEN 1 ELSE 0

(* Defective variant: repetitions are counted from midnight.               *)
SinceLastStartOfDay(c, s) == s % c.repeat

(* How long ago the last repetition began, in TV_TYPE arithmetic:          *)
(* now_t - start_t.  Before the day's start the difference of the seconds  *)
(* wraps.                                                                  *)
SinceLastStart(c, s) ==
    LET secs_today_now  == (s - c.start) % WORD
        last_start_num  == secs_today_now \div c.repeat
        last_start_time == (c.start + last_start_num * c.repeat) % WORD
    IN (s - last_start_time) % WORD

RepeatTarget(c, d, s) ==
    IF d \in c.days /\ SinceLastStart(c, s) < c.duration THEN 1 ELSE 0

Target(c, d, s) ==
    CASE c.type = "SCH_START_STOP" ->
            IF c.end >= c.start THEN ContainedTarget(c, d, s)
                                ELSE CrossingTarget(c, d, s)
      [] c.type = "SCH_ONE_SHOT" -> OneShotTarget(c, d, s)
      [] c.type = "SCH_START_DURATION_REPEAT" -> RepeatTarget(c, d, s)
----------------------------------------------------------------------------
Init ==
    /\ conf \in Schedules
    /\ day \in WeekDay /\ sec \in Second
    /\ active = 0
    /\ early = (sec < conf.start)
    /\ pulses = 0

(* Defective variant: the initial value of the target is stored too.       *)
ActiveAfterRaw(target) == target

ActiveAfter(target) == IF target = UINT8_INIT THEN active ELSE target

(* A visit: at most MaxLag seconds have gone by.                           *)
ScheduleOperate ==
    \E lag \in 0 .. MaxLag :
        LET sameDay == sec + lag < DAY
            d == IF sameDay THEN day ELSE (day + 1) % 7
            s == IF sameDay THEN sec + lag ELSE sec + lag - DAY
        IN /\ day' = d /\ sec' = s
           /\ active' = ActiveAfter(Target(conf, d, s))
           /\ early' = (early \/ ~sameDay)
           /\ pulses' = (IF sameDay THEN pulses ELSE 0)
                + (IF active' = 1 /\ s >= conf.start
                      /\ (active = 0 \/ ~sameDay \/ sec < conf.start)
                   THEN 1 ELSE 0)
           /\ UNCHANGED conf

(* After a restart, or some time of being disabled: visits stopped at some *)
(* moment and resume at any other with the flag clear.                     *)
ScheduleSetup ==
    \E d \in WeekDay, s \in Second :
        /\ day' = d /\ sec' = s
        /\ active' = 0
        /\ early' = (s < conf.start)
        /\ pulses' = 0
        /\ UNCHANGED conf

Next == ScheduleOperate \/ ScheduleSetup

Spec == Init /\ [][Next]_vars
----------------------------------------------------------------------------
(* Properties.                                                             *)

(* Every variable keeps its type.                                          *)
TypeOK ==
    /\ conf \in Setting
    /\ day \in WeekDay
    /\ sec \in Second
    /\ active \in {0, 1}
    /\ early \in BOOLEAN
    /\ pulses \in Nat

(* The end of the window leaves room for a visit that sees it.             *)
EndSeen(c) == IF c.end >= c.start THEN c.end + MaxLag < DAY
                                  ELSE c.end + MaxLag <= c.start

(* The second s of day d lies in the window; the last second is left out.  *)
InWindow(c, d, s) ==
    IF c.end >= c.start THEN d \in c.days /\ c.start <= s /\ s < c.end
    ELSE \/ d \in c.days /\ c.start <= s
         \/ Yesterday(d) \in c.days /\ s < c.end

LastSecond(c, d, s) ==
    s = c.end /\ (IF c.end >= c.start THEN d ELSE Yesterday(d)) \in c.days

(* A start-stop schedule is active only inside its window: nothing carries *)
(* it over to the days that are not its own, although ScheduleOperate asks *)
(* for nothing on them.  And it is active from the first visit after its   *)
(* start on, through every visit up to its end or midnight.                *)
KeepsItsWindow ==
    conf.type = "SCH_START_STOP" /\ EndSeen(conf) =>
        /\ active = 1 => InWindow(conf, day, sec) \/ LastSecond(conf, day, sec)
        /\ early /\ sec >= conf.start /\ InWindow(conf, day, sec) => active = 1

(* A one-shot that has been running since before its time fires exactly    *)
(* once on each of its days and on no other, as long as visits are at most *)
(* ONE_SHOT_DURATION + 1 seconds apart (schedules.cpp: "accommodate loop   *)
(* delays longer than 1 second").                                          *)
FiresOncePerDay ==
    conf.type = "SCH_ONE_SHOT" /\ conf.start + ONE_SHOT_DURATION < DAY =>
        /\ pulses <= 1
        /\ early /\ sec >= conf.start =>
               pulses = IF day \in conf.days THEN 1 ELSE 0

(* A repeating schedule, from its start time on, serves every repetition   *)
(* of the day with one activation of its own, none skipped and none run    *)
(* together, if both its pulse and its pause outlast the lag.              *)
EveryRepetitionServed ==
    /\ conf.type = "SCH_START_DURATION_REPEAT"
    /\ MaxLag <= conf.duration /\ conf.duration + MaxLag <= conf.repeat
    /\ early /\ sec >= conf.start /\ day \in conf.days
    => pulses = (sec - conf.start) \div conf.repeat + 1

(* What the grammar's description says of schedules, without the allowance *)
(* for the end of the window: "configured for specific days of the week".  *)
OnItsDaysOnly ==
    conf.type = "SCH_START_STOP" /\ conf.end >= conf.start /\ active = 1
        => day \in conf.days
=============================================================================
