---------------------------- MODULE ScheduleProofs ----------------------------
(***************************************************************************)
(* Schedule's invariants for every length of the day, every lag and every  *)
(* setting: the windows, the one-shots, and the repeating schedule, whose  *)
(* count of repetitions is a quotient.                                     *)
(***************************************************************************)
EXTENDS Schedule, TLAPS

(* The day after yesterday is today.                                       *)
LEMMA YesterdayOfTomorrow ==
    ASSUME NEW d \in WeekDay
    PROVE  (d + 1) % 7 \in WeekDay /\ Yesterday((d + 1) % 7) = d
BY DEF WeekDay, Yesterday

(* Nothing but on, off, or no opinion.                                     *)
LEMMA TargetType ==
    ASSUME NEW c \in Setting, NEW d, NEW s
    PROVE  Target(c, d, s) \in {0, 1, UINT8_INIT}
BY DEF Setting, Target, ContainedTarget, CrossingTarget, OneShotTarget, RepeatTarget

(* One visit, in the terms that the proofs use.                            *)
Visit(lag, d, s) ==
    /\ \/ sec + lag < DAY /\ d = day /\ s = sec + lag
       \/ ~(sec + lag < DAY) /\ d = (day + 1) % 7 /\ s = sec + lag - DAY
    /\ early' = (early \/ ~(sec + lag < DAY))
    /\ day' = d /\ sec' = s /\ conf' = conf
    /\ active' = ActiveAfter(Target(conf, d, s))
    /\ pulses' = (IF sec + lag < DAY THEN pulses ELSE 0)
            + (IF active' = 1 /\ s >= conf.start
                  /\ (active = 0 \/ ~(sec + lag < DAY) \/ sec < conf.start)
               THEN 1 ELSE 0)

LEMMA VisitStep ==
    ASSUME TypeOK, ScheduleOperate
    PROVE  \E lag \in 0 .. MaxLag, d \in WeekDay, s \in Second : Visit(lag, d, s)
<1>1. PICK lag \in 0 .. MaxLag :
        LET sameDay == sec + lag < DAY
            d == IF sameDay THEN day ELSE (day + 1) % 7
            s == IF sameDay THEN sec + lag ELSE sec + lag - DAY
        IN /\ day' = d /\ sec' = s
           /\ active' = ActiveAfter(Target(conf, d, s))
           /\ early' = (early \/ ~sameDay)
           /\ pulses' = (IF sameDay THEN pulses ELSE 0)
                + (IF active' = 1 /\ s >= conf.start
                      /\ (active = 0 \/ ~sameDay \/ sec < conf.start)
                   THEN 1 ELSE 0)
           /\ UNCHANGED conf
  BY DEF ScheduleOperate
<1>2. CASE sec + lag < DAY
  <2>1. sec + lag \in Second
    BY <1>2, LagAssumption, DayAssumption DEF TypeOK, Second
  <2>2. Visit(lag, day, sec + lag)
    BY <1>1, <1>2, Zenon DEF Visit
  <2> QED BY <2>1, <2>2 DEF TypeOK
<1>3. CASE ~(sec + lag < DAY)
  <2>1. sec + lag - DAY \in Second
    BY <1>3, LagAssumption, DayAssumption DEF TypeOK, Second
  <2>2. Visit(lag, (day + 1) % 7, sec + lag - DAY)
    BY <1>1, <1>3, Zenon DEF Visit
  <2> QED BY <2>1, <2>2, YesterdayOfTomorrow DEF TypeOK
<1> QED BY <1>2, <1>3
----------------------------------------------------------------------------
LEMMA TypeInit == Init => TypeOK
<1> SUFFICES ASSUME Init PROVE TypeOK
  OBVIOUS
<1>1. conf \in Setting
  BY SchedulesAssumption DEF Init
<1> QED BY <1>1 DEF Init, TypeOK

LEMMA TypeNext == TypeOK /\ [Next]_vars => TypeOK'
<1> SUFFICES ASSUME TypeOK, [Next]_vars PROVE TypeOK'
  OBVIOUS
<1>1. CASE ScheduleOperate
  <2>1. PICK lag \in 0 .. MaxLag, d \in WeekDay, s \in Second : Visit(lag, d, s)
    BY <1>1, VisitStep
  <2>2. active' \in {0, 1}
    BY <2>1, TargetType DEF Visit, ActiveAfter, TypeOK
  <2>3. pulses' \in Nat
    BY <2>1 DEF Visit, TypeOK
  <2> QED BY <2>1, <2>2, <2>3 DEF Visit, TypeOK
<1>2. CASE ScheduleSetup
  BY <1>2 DEF ScheduleSetup, TypeOK
<1>3. CASE UNCHANGED vars
  BY <1>3 DEF vars, TypeOK
<1> QED BY <1>1, <1>2, <1>3 DEF Next

(* Every variable of the schedule keeps its type.                          *)
THEOREM ScheduleTypeCorrect == Spec => []TypeOK
<1>1. Init => TypeOK BY TypeInit
<1>2. TypeOK /\ [Next]_vars => TypeOK' BY TypeNext
<1> QED BY <1>1, <1>2, PTL DEF Spec
----------------------------------------------------------------------------
(* The windows.  The property is inductive as it stands.                   *)

LEMMA ContainedVisit ==
    ASSUME TypeOK, KeepsItsWindow,
           NEW lag \in 0 .. MaxLag, NEW d \in WeekDay, NEW s \in Second,
           Visit(lag, d, s),
           conf.type = "SCH_START_STOP", conf.end >= conf.start, EndSeen(conf)
    PROVE  KeepsItsWindow'
<1> DEFINE c == conf
<1>c. c \in Setting /\ c.start \in Second /\ c.end \in Second
  BY DEF TypeOK, Setting
<1>t. Target(c, d, s) = ContainedTarget(c, d, s)
  BY DEF Target
<1>1. active' = 1 => InWindow(c, d, s) \/ LastSecond(c, d, s)
  <2> SUFFICES ASSUME active' = 1 PROVE d \in c.days /\ c.start <= s /\ s <= c.end
    BY <1>c DEF InWindow, LastSecond, Second
  <2>1. CASE d \in c.days /\ c.start <= s /\ c.end > s
    BY <2>1, <1>c DEF Second
  <2>2. CASE ~(d \in c.days /\ c.start <= s /\ c.end > s)
    <3>1. ContainedTarget(c, d, s) # 1
      BY <2>2 DEF ContainedTarget, UINT8_INIT
    <3>2. active = 1 /\ ContainedTarget(c, d, s) = UINT8_INIT
      BY <3>1, <1>t DEF Visit, ActiveAfter
    <3>3. day \in c.days /\ c.start <= sec /\ sec <= c.end
      BY <3>2, <1>c DEF KeepsItsWindow, InWindow, LastSecond, Second, TypeOK
    <3>4. d = day /\ s >= sec
      BY <3>3, <1>c, LagAssumption, DayAssumption DEF Visit, EndSeen, TypeOK, Second
    <3>5. ~(c.end < s)
      BY <3>2, <3>3, <3>4, <1>c DEF ContainedTarget, UINT8_INIT, Second, TypeOK
    <3> QED BY <3>3, <3>4, <3>5, <1>c DEF Second, TypeOK
  <2> QED BY <2>1, <2>2
<1>2. InWindow(c, d, s) => active' = 1
  <2> SUFFICES ASSUME InWindow(c, d, s) PROVE active' = 1
    OBVIOUS
  <2>1. d \in c.days /\ c.start <= s /\ c.end > s
    BY <1>c DEF InWindow, Second
  <2>2. ContainedTarget(c, d, s) = 1
    BY <2>1, <1>c DEF ContainedTarget, Second
  <2> QED BY <2>2, <1>t DEF Visit, ActiveAfter, UINT8_INIT
<1> QED BY <1>1, <1>2 DEF KeepsItsWindow, Visit

LEMMA CrossingVisit ==
    ASSUME TypeOK, KeepsItsWindow,
           NEW lag \in 0 .. MaxLag, NEW d \in WeekDay, NEW s \in Second,
           Visit(lag, d, s),
           conf.type = "SCH_START_STOP", ~(conf.end >= conf.start), EndSeen(conf)
    PROVE  KeepsItsWindow'
<1> DEFINE c == conf
<1>c. c \in Setting /\ c.start \in Second /\ c.end \in Second
  BY DEF TypeOK, Setting
<1>t. Target(c, d, s) = CrossingTarget(c, d, s)
  BY DEF Target
<1>n. c.end < c.start /\ c.end + MaxLag <= c.start
  BY <1>c, LagAssumption DEF EndSeen, Second
<1>1. active' = 1 => InWindow(c, d, s) \/ LastSecond(c, d, s)
  <2> SUFFICES ASSUME active' = 1, ~(d \in c.days /\ c.start <= s),
                      ~(Yesterday(d) \in c.days /\ s < c.end)
               PROVE  s = c.end /\ Yesterday(d) \in c.days
    BY <1>c DEF InWindow, LastSecond, Second
  <2>1. CrossingTarget(c, d, s) # 1
    BY <1>c DEF CrossingTarget, UINT8_INIT, Second
  <2>2. active = 1 /\ CrossingTarget(c, d, s) = UINT8_INIT
    BY <2>1, <1>t DEF Visit, ActiveAfter
  <2>3. \/ day \in c.days /\ c.start <= sec
        \/ Yesterday(day) \in c.days /\ sec <= c.end
    BY <2>2, <1>c, <1>n DEF KeepsItsWindow, InWindow, LastSecond, Second, TypeOK
  <2>4. Yesterday(d) \in c.days /\ s <= c.start
    <3>1. CASE day \in c.days /\ c.start <= sec
      <4>1. ~(d = day /\ s = sec + lag)
        BY <3>1, <1>c, LagAssumption DEF TypeOK, Second
      <4>2. d = (day + 1) % 7 /\ s = sec + lag - DAY
        BY <4>1 DEF Visit
      <4>3. Yesterday(d) = day
        BY <4>2, YesterdayOfTomorrow DEF TypeOK
      <4>4. s <= c.start
        BY <4>2, <1>n, <1>c, LagAssumption, DayAssumption DEF TypeOK, Second
      <4> QED BY <3>1, <4>3, <4>4
    <3>2. CASE Yesterday(day) \in c.days /\ sec <= c.end
      <4>1. sec + lag <= c.start
        BY <3>2, <1>n, <1>c, LagAssumption DEF TypeOK, Second
      <4>2. d = day /\ s = sec + lag
        BY <4>1, <1>c, LagAssumption, DayAssumption DEF Visit, TypeOK, Second
      <4> QED BY <3>2, <4>1, <4>2
    <3> QED BY <2>3, <3>1, <3>2
  <2>5. ~(c.end < s)
    BY <2>2, <2>4, <1>c DEF CrossingTarget, UINT8_INIT, Second
  <2> QED BY <2>4, <2>5, <1>c DEF Second
<1>2. s >= c.start /\ InWindow(c, d, s) => active' = 1
  <2> SUFFICES ASSUME s >= c.start, InWindow(c, d, s) PROVE active' = 1
    OBVIOUS
  <2>1. d \in c.days /\ c.start <= s /\ c.end < s
    BY <1>c, <1>n DEF InWindow, Second
  <2>2. CrossingTarget(c, d, s) = 1
    BY <2>1 DEF CrossingTarget
  <2> QED BY <2>2, <1>t DEF Visit, ActiveAfter, UINT8_INIT
<1> QED BY <1>1, <1>2 DEF KeepsItsWindow, Visit

LEMMA WindowInit == Init => KeepsItsWindow
<1> SUFFICES ASSUME Init PROVE KeepsItsWindow
  OBVIOUS
<1>1. conf.start \in Second
  BY SchedulesAssumption DEF Init, Setting
<1>2. early => sec < conf.start
  BY Zenon DEF Init
<1>3. ~(early /\ sec >= conf.start)
  BY <1>1, <1>2 DEF Init, Second
<1> QED BY <1>3 DEF Init, KeepsItsWindow

LEMMA WindowNext == TypeOK /\ KeepsItsWindow /\ [Next]_vars => KeepsItsWindow'
<1> SUFFICES ASSUME TypeOK, KeepsItsWindow, [Next]_vars PROVE KeepsItsWindow'
  OBVIOUS
<1>1. CASE ScheduleOperate
  <2>1. PICK lag \in 0 .. MaxLag, d \in WeekDay, s \in Second : Visit(lag, d, s)
    BY <1>1, VisitStep
  <2>2. conf' = conf
    BY <2>1 DEF Visit
  <2>3. CASE conf.type = "SCH_START_STOP" /\ EndSeen(conf)
    BY <2>1, <2>3, ContainedVisit, CrossingVisit
  <2>4. CASE ~(conf.type = "SCH_START_STOP" /\ EndSeen(conf))
    BY <2>2, <2>4 DEF KeepsItsWindow, EndSeen
  <2> QED BY <2>3, <2>4
<1>2. CASE ScheduleSetup
  <2>1. PICK d \in WeekDay, s \in Second :
          active' = 0 /\ early' = (s < conf.start) /\ sec' = s /\ conf' = conf
    BY <1>2 DEF ScheduleSetup
  <2>2. early' => sec' < conf.start
    BY <2>1, Zenon
  <2>3. ~(early' /\ sec' >= conf.start)
    BY <2>1, <2>2 DEF TypeOK, Setting, Second
  <2> QED BY <2>1, <2>3 DEF KeepsItsWindow
<1>3. CASE UNCHANGED vars
  BY <1>3 DEF vars, KeepsItsWindow, EndSeen, InWindow, LastSecond
<1> QED BY <1>1, <1>2, <1>3 DEF Next

(* A start-stop schedule is active inside its window and nowhere else.     *)
THEOREM WindowKept == Spec => []KeepsItsWindow
<1>1. Init => TypeOK /\ KeepsItsWindow BY TypeInit, WindowInit
<1>2. TypeOK /\ KeepsItsWindow /\ [Next]_vars => (TypeOK /\ KeepsItsWindow)'
  BY TypeNext, WindowNext
<1> QED BY <1>1, <1>2, PTL DEF Spec
----------------------------------------------------------------------------
(* The one-shots.  FiresOncePerDay says what the count is once the time    *)
(* has come; to carry it from visit to visit the invariant also says that  *)
(* nothing is counted before the time, that the flag is set exactly in the *)
(* visited part of the window, and that being in the window with the flag  *)
(* clear means that no visit has been made since set up.                   *)

OneShotInv ==
    conf.type = "SCH_ONE_SHOT" /\ conf.start + ONE_SHOT_DURATION < DAY =>
        /\ pulses \in {0, 1}
        /\ sec < conf.start => pulses = 0
        /\ active = 1 =>
              /\ conf.start <= sec /\ sec <= conf.start + ONE_SHOT_DURATION
              /\ day \in conf.days /\ pulses = 1
        /\ active = 0 /\ sec <= conf.start + ONE_SHOT_DURATION /\ day \in conf.days
              => pulses = 0 /\ ~(early /\ sec >= conf.start)
        /\ day \notin conf.days => pulses = 0
        /\ early /\ sec >= conf.start /\ day \in conf.days => pulses = 1

LEMMA OneShotImplies == TypeOK /\ OneShotInv => FiresOncePerDay
BY DEF OneShotInv, FiresOncePerDay

LEMMA OneShotVisit ==
    ASSUME TypeOK, OneShotInv,
           NEW lag \in 0 .. MaxLag, NEW d \in WeekDay, NEW s \in Second,
           Visit(lag, d, s),
           conf.type = "SCH_ONE_SHOT", conf.start + ONE_SHOT_DURATION < DAY
    PROVE  OneShotInv'
<1> DEFINE open == /\ d \in conf.days /\ conf.start <= s
                   /\ s <= conf.start + ONE_SHOT_DURATION
<1>c. conf.start \in Second /\ conf.start \in Int /\ sec \in Int /\ s \in Int
      /\ ONE_SHOT_DURATION \in Nat /\ MaxLag \in Nat /\ DAY \in Nat
  BY OneShotAssumption, LagAssumption, DayAssumption DEF TypeOK, Setting, Second
<1>1. active' = IF open THEN 1 ELSE 0
  <2>1. Target(conf, d, s) = OneShotTarget(conf, d, s)
    BY DEF Target
  <2> QED BY <2>1, <1>c DEF OneShotTarget, Visit, ActiveAfter, UINT8_INIT
<1>2. CASE sec + lag < DAY /\ conf.start <= sec
  (* Today's time had come before.                                        *)
  <2>0. early' => early
    BY <1>2, Zenon DEF Visit
  <2>1. d = day /\ s = sec + lag /\ s >= sec /\ (early' => early)
    BY <1>2, <1>c, <2>0 DEF Visit
  <2>2. pulses' = pulses + (IF open /\ active = 0 THEN 1 ELSE 0)
    BY <1>1, <1>2, <1>c, <2>1 DEF Visit, TypeOK
  <2>3. open => (active = 1 /\ pulses = 1) \/ (active = 0 /\ pulses = 0 /\ ~early)
    BY <1>2, <2>1, <1>c DEF OneShotInv, TypeOK
  <2>4. pulses' \in {0, 1} /\ (d \in conf.days /\ early => pulses' = 1)
        /\ (d \notin conf.days => pulses' = 0) /\ (open => pulses' = 1)
    BY <1>2, <2>1, <2>2, <2>3 DEF OneShotInv, TypeOK
  <2> QED BY <1>1, <1>2, <1>c, <2>1, <2>4 DEF OneShotInv, Visit
<1>3. CASE sec + lag < DAY /\ sec < conf.start
  (* It comes at this visit at the earliest, and if so the window is open. *)
  <2>1. d = day /\ s = sec + lag /\ pulses = 0
    BY <1>3, <1>c DEF Visit, OneShotInv
  <2>2. pulses' = IF open THEN 1 ELSE 0
    BY <1>1, <1>3, <1>c, <2>1 DEF Visit, TypeOK
  <2>3. s <= conf.start + ONE_SHOT_DURATION
    BY <1>3, <1>c, <2>1, OneShotAssumption
  <2> QED BY <1>1, <1>c, <2>1, <2>2, <2>3 DEF OneShotInv, Visit
<1>4. CASE ~(sec + lag < DAY)
  (* The first visit of a new day.                                        *)
  <2>1. s = sec + lag - DAY
    BY <1>4 DEF Visit
  <2>2. pulses' = IF open THEN 1 ELSE 0
    BY <1>1, <1>4, <1>c DEF Visit, TypeOK
  <2>3. s <= conf.start + ONE_SHOT_DURATION
    BY <1>c, <2>1, OneShotAssumption DEF TypeOK, Second
  <2> QED BY <1>1, <1>c, <2>2, <2>3 DEF OneShotInv, Visit
<1> QED BY <1>2, <1>3, <1>4, <1>c

LEMMA OneShotInit == Init => OneShotInv
<1> SUFFICES ASSUME Init PROVE OneShotInv
  OBVIOUS
<1>1. conf.start \in Second
  BY SchedulesAssumption DEF Init, Setting
<1>2. early => sec < conf.start
  BY Zenon DEF Init
<1>3. ~(early /\ sec >= conf.start)
  BY <1>1, <1>2 DEF Init, Second
<1> QED BY <1>3 DEF Init, OneShotInv

LEMMA OneShotNext == TypeOK /\ OneShotInv /\ [Next]_vars => OneShotInv'
<1> SUFFICES ASSUME TypeOK, OneShotInv, [Next]_vars PROVE OneShotInv'
  OBVIOUS
<1>1. CASE ScheduleOperate
  <2>1. PICK lag \in 0 .. MaxLag, d \in WeekDay, s \in Second : Visit(lag, d, s)
    BY <1>1, VisitStep
  <2>2. conf' = conf
    BY <2>1 DEF Visit
  <2>3. CASE conf.type = "SCH_ONE_SHOT" /\ conf.start + ONE_SHOT_DURATION < DAY
    BY <2>1, <2>3, OneShotVisit
  <2>4. CASE ~(conf.type = "SCH_ONE_SHOT" /\ conf.start + ONE_SHOT_DURATION < DAY)
    BY <2>2, <2>4 DEF OneShotInv
  <2> QED BY <2>3, <2>4
<1>2. CASE ScheduleSetup
  <2>1. PICK d \in WeekDay, s \in Second :
          /\ active' = 0 /\ early' = (s < conf.start) /\ sec' = s
          /\ conf' = conf /\ pulses' = 0 /\ day' = d
    BY <1>2 DEF ScheduleSetup
  <2>2. early' => sec' < conf.start
    BY <2>1, Zenon
  <2>3. ~(early' /\ sec' >= conf.start)
    BY <2>1, <2>2 DEF TypeOK, Setting, Second
  <2> QED BY <2>1, <2>3 DEF OneShotInv
<1>3. CASE UNCHANGED vars
  BY <1>3 DEF vars, OneShotInv
<1> QED BY <1>1, <1>2, <1>3 DEF Next

(* A one-shot fires exactly once on each of its days.                      *)
THEOREM OneShotFires == Spec => []FiresOncePerDay
<1>1. Init => TypeOK /\ OneShotInv BY TypeInit, OneShotInit
<1>2. TypeOK /\ OneShotInv /\ [Next]_vars => (TypeOK /\ OneShotInv)'
  BY TypeNext, OneShotNext
<1>3. TypeOK /\ OneShotInv => FiresOncePerDay BY OneShotImplies
<1> QED BY <1>1, <1>2, <1>3, PTL DEF Spec
----------------------------------------------------------------------------
(* The repeating schedules.                                                *)

(* A quotient and a remainder are what they are by their size.             *)
LEMMA DivisionUnique ==
    ASSUME NEW r \in Nat \ {0}, NEW q \in Nat, NEW m \in 0 .. r - 1
    PROVE  (q * r + m) \div r = q /\ (q * r + m) % r = m
OBVIOUS

LEMMA Division ==
    ASSUME NEW r \in Nat \ {0}, NEW x \in Nat
    PROVE  /\ x \div r \in Nat /\ x % r \in 0 .. r - 1
           /\ x = (x \div r) * r + (x % r)
OBVIOUS

LEMMA ModLow ==
    ASSUME NEW w \in Nat \ {0}, NEW x \in 0 .. w - 1
    PROVE  x % w = x
OBVIOUS

(* Some seconds on, but fewer than a whole repetition: either the same     *)
(* repetition goes on or the next has begun.                               *)
LEMMA DivisionStep ==
    ASSUME NEW r \in Nat \ {0}, NEW x \in Nat, NEW lag \in 0 .. r - 1
    PROVE  \/ /\ (x % r) + lag < r
              /\ (x + lag) \div r = x \div r
              /\ (x + lag) % r = (x % r) + lag
           \/ /\ (x % r) + lag >= r
              /\ (x + lag) \div r = x \div r + 1
              /\ (x + lag) % r = (x % r) + lag - r
<1>1. PICK q \in Nat, m \in 0 .. r - 1 : q = x \div r /\ m = x % r /\ x = q * r + m
  BY Division
<1>2. CASE m + lag < r
  <2>1. m + lag \in 0 .. r - 1 /\ x + lag = q * r + (m + lag)
    BY <1>1, <1>2
  <2>2. (x + lag) \div r = q /\ (x + lag) % r = m + lag
    BY <2>1, DivisionUnique
  <2> QED BY <1>1, <1>2, <2>2
<1>3. CASE ~(m + lag < r)
  <2>1. m + lag - r \in 0 .. r - 1 /\ q + 1 \in Nat
    BY <1>3
  <2>2. x + lag = (q + 1) * r + (m + lag - r)
    <3>1. (q + 1) * r = q * r + r /\ q * r \in Nat
      OBVIOUS
    <3> QED BY <1>1, <3>1
  <2>3. (x + lag) \div r = q + 1 /\ (x + lag) % r = m + lag - r
    <3> DEFINE p == q + 1
               l == m + lag - r
    <3>1. p \in Nat /\ l \in 0 .. r - 1 /\ x + lag = p * r + l
      BY <2>1, <2>2
    <3> HIDE DEF p, l
    <3>2. (p * r + l) \div r = p /\ (p * r + l) % r = l
      BY <3>1, DivisionUnique
    <3> QED BY <3>1, <3>2, Zenon DEF p, l
  <2>4. m + lag >= r
    BY <1>3
  <2> QED BY <1>1, <2>3, <2>4
<1> QED BY <1>2, <1>3

(* From the day's start time on, the arithmetic of the source does not     *)
(* wrap, and gives the seconds since the last repetition began.            *)
LEMMA SinceLastStartIs ==
    ASSUME NEW c \in Setting, NEW s \in Second, c.start <= s
    PROVE  SinceLastStart(c, s) = (s - c.start) % c.repeat
<1> DEFINE r == c.repeat
           x == s - c.start
<1>1. /\ r \in Nat \ {0} /\ c.start \in Second /\ x \in Nat /\ x < DAY
      /\ DAY \in Nat /\ WORD \in Nat \ {0} /\ DAY < WORD /\ s < DAY /\ s \in Nat
  BY DayAssumption, WordAssumption DEF Setting, Second
<1>2. x % WORD = x
  BY <1>1, ModLow
<1>3. PICK q \in Nat, m \in 0 .. r - 1 : q = x \div r /\ m = x % r /\ x = q * r + m
  BY <1>1, Division
<1>4. q * r \in Nat /\ c.start \in Nat
  BY <1>1 DEF Second
<1>5. c.start + q * r \in 0 .. WORD - 1 /\ s - (c.start + q * r) = m /\ m \in 0 .. WORD - 1
  <2> DEFINE last == q * r
  <2>1. last \in Nat /\ m \in Nat /\ s - c.start = last + m
    BY <1>3, <1>4
  <2> HIDE DEF last
  <2>2. c.start + last \in 0 .. WORD - 1 /\ s - (c.start + last) = m /\ m \in 0 .. WORD - 1
    BY <1>1, <1>4, <2>1
  <2> QED BY <2>2 DEF last
<1>6. (c.start + q * r) % WORD = c.start + q * r /\ m % WORD = m
  BY <1>1, <1>5, ModLow
<1> QED BY <1>2, <1>3, <1>5, <1>6 DEF SinceLastStart

(* A pulse and a pause that outlast the lag.                               *)
Paced == /\ conf.type = "SCH_START_DURATION_REPEAT"
         /\ MaxLag <= conf.duration /\ conf.duration + MaxLag <= conf.repeat

(* Before the start time nothing is counted.  From then on the flag says   *)
(* whether the current repetition is in its pulse: so it is up whenever a  *)
(* repetition is first seen, and down when the one before was last seen.   *)
RepeatInv ==
    Paced =>
        /\ sec < conf.start => pulses = 0
        /\ early /\ sec >= conf.start /\ day \in conf.days =>
              /\ active = 1 <=> (sec - conf.start) % conf.repeat < conf.duration
              /\ pulses = (sec - conf.start) \div conf.repeat + 1

LEMMA RepeatImplies == RepeatInv => EveryRepetitionServed
BY DEF RepeatInv, Paced, EveryRepetitionServed

LEMMA RepeatVisit ==
    ASSUME TypeOK, RepeatInv, Paced,
           NEW lag \in 0 .. MaxLag, NEW d \in WeekDay, NEW s \in Second,
           Visit(lag, d, s)
    PROVE  RepeatInv'
<1> DEFINE r == conf.repeat
           x == s - conf.start
<1>c. /\ conf \in Setting /\ conf.start \in Nat /\ sec \in Nat /\ s \in Nat
      /\ r \in Nat \ {0} /\ conf.duration \in Nat /\ MaxLag \in Nat \ {0} /\ DAY \in Nat
      /\ MaxLag <= conf.duration /\ conf.duration + MaxLag <= r /\ sec < DAY
  BY LagAssumption, DayAssumption DEF TypeOK, Setting, Second, Paced
<1>p. conf' = conf /\ day' = d /\ sec' = s /\ pulses \in Nat
  BY DEF Visit, TypeOK
<1>1. s < conf.start => pulses' = 0
  <2> SUFFICES ASSUME s < conf.start PROVE pulses' = 0
    OBVIOUS
  <2>1. pulses' = IF sec + lag < DAY THEN pulses ELSE 0
    BY <1>c, <1>p DEF Visit
  <2>2. sec + lag < DAY => sec < conf.start
    BY <1>c DEF Visit
  <2> QED BY <2>1, <2>2 DEF RepeatInv
<1>2. ASSUME early', s >= conf.start, d \in conf.days
      PROVE  /\ active' = 1 <=> x % r < conf.duration
             /\ pulses' = x \div r + 1
  <2>1. x \in Nat /\ active' = IF x % r < conf.duration THEN 1 ELSE 0
    <3>1. Target(conf, d, s) = RepeatTarget(conf, d, s)
      BY DEF Target, Paced
    <3>2. RepeatTarget(conf, d, s) = IF x % r < conf.duration THEN 1 ELSE 0
      BY <1>2, <1>c, SinceLastStartIs DEF RepeatTarget
    <3> QED BY <1>2, <1>c, <3>1, <3>2 DEF Visit, ActiveAfter, UINT8_INIT
  <2>2. CASE sec + lag < DAY /\ conf.start <= sec
    (* The start time has been seen.                                       *)
    <3> DEFINE y == sec - conf.start
    <3>1. d = day /\ x = y + lag /\ y \in Nat /\ lag \in 0 .. r - 1
      BY <1>c, <2>2 DEF Visit
    <3>2. early /\ sec >= conf.start
      BY <1>2, <1>c, <2>2, Zenon DEF Visit
    <3>3. (active = 1 <=> y % r < conf.duration) /\ pulses = y \div r + 1
      BY <1>2, <3>1, <3>2 DEF RepeatInv
    <3>4. pulses' = pulses + (IF active' = 1 /\ active = 0 THEN 1 ELSE 0)
      BY <1>2, <1>c, <2>2 DEF Visit
    <3>5. y % r \in 0 .. r - 1 /\ y \div r \in Nat
      BY <1>c, <3>1, Division
    <3>t. active \in {0, 1}
      BY DEF TypeOK
    <3> HIDE DEF x, y, r
    <3>6. \/ /\ (y % r) + lag < r
             /\ x \div r = y \div r /\ x % r = (y % r) + lag
          \/ /\ (y % r) + lag >= r
             /\ x \div r = y \div r + 1 /\ x % r = (y % r) + lag - r
      BY <1>c, <3>1, DivisionStep
    <3>7. CASE /\ (y % r) + lag < r
               /\ x \div r = y \div r /\ x % r = (y % r) + lag
      <4>1. ~(active' = 1 /\ active = 0)
        BY <1>c, <2>1, <3>3, <3>5, <3>7
      <4> QED BY <1>p, <2>1, <3>3, <3>4, <3>7, <4>1
    <3>8. CASE /\ (y % r) + lag >= r
               /\ x \div r = y \div r + 1 /\ x % r = (y % r) + lag - r
      <4>1. x % r < conf.duration /\ ~(y % r < conf.duration)
        BY <1>c, <3>5, <3>8
      <4>2. active' = 1 /\ active = 0
        BY <2>1, <3>3, <3>t, <4>1
      <4> QED BY <2>1, <3>3, <3>4, <3>5, <3>8, <4>1, <4>2
    <3> QED BY <3>6, <3>7, <3>8
  <2>3. CASE ~(sec + lag < DAY /\ conf.start <= sec)
    (* The first visit since the start time, or of a new day.              *)
    <3>1. x < MaxLag
      BY <1>c, <1>2, <2>3 DEF Visit
    <3>2. x \in 0 .. r - 1
      BY <1>c, <2>1, <3>1
    <3>3. 0 * r + x = x
      BY <1>c, <2>1
    <3>4. x \div r = 0 /\ x % r = x
      BY <1>c, <3>2, <3>3, DivisionUnique
    <3>5. active' = 1 /\ x % r < conf.duration
      BY <1>c, <2>1, <3>1, <3>4
    <3>6. pulses' = 1
      <4>1. sec + lag < DAY => sec < conf.start /\ pulses = 0
        BY <1>c, <2>3 DEF RepeatInv
      <4> QED BY <1>2, <1>c, <3>5, <4>1 DEF Visit
    <3> QED BY <3>4, <3>5, <3>6
  <2> QED BY <2>2, <2>3
<1> QED BY <1>1, <1>2, <1>p DEF RepeatInv

LEMMA RepeatInit == Init => RepeatInv
<1> SUFFICES ASSUME Init PROVE RepeatInv
  OBVIOUS
<1>1. conf.start \in Second
  BY SchedulesAssumption DEF Init, Setting
<1>2. early => sec < conf.start
  BY Zenon DEF Init
<1>3. ~(early /\ sec >= conf.start)
  BY <1>1, <1>2 DEF Init, Second
<1> QED BY <1>3 DEF Init, RepeatInv

LEMMA RepeatNext == TypeOK /\ RepeatInv /\ [Next]_vars => RepeatInv'
<1> SUFFICES ASSUME TypeOK, RepeatInv, [Next]_vars PROVE RepeatInv'
  OBVIOUS
<1>1. CASE ScheduleOperate
  <2>1. PICK lag \in 0 .. MaxLag, d \in WeekDay, s \in Second : Visit(lag, d, s)
    BY <1>1, VisitStep
  <2>2. Paced' = Paced
    BY <2>1 DEF Visit, Paced
  <2>3. CASE Paced
    BY <2>1, <2>3, RepeatVisit
  <2>4. CASE ~Paced
    BY <2>2, <2>4 DEF RepeatInv
  <2> QED BY <2>3, <2>4
<1>2. CASE ScheduleSetup
  <2>1. PICK d \in WeekDay, s \in Second :
          early' = (s < conf.start) /\ sec' = s /\ conf' = conf /\ pulses' = 0
    BY <1>2 DEF ScheduleSetup
  <2>2. early' => sec' < conf.start
    BY <2>1, Zenon
  <2>3. ~(early' /\ sec' >= conf.start)
    BY <2>1, <2>2 DEF TypeOK, Setting, Second
  <2> QED BY <2>1, <2>3 DEF RepeatInv
<1>3. CASE UNCHANGED vars
  BY <1>3 DEF vars, RepeatInv, Paced
<1> QED BY <1>1, <1>2, <1>3 DEF Next

(* A repeating schedule serves every repetition of its day with one        *)
(* activation of its own.                                                  *)
THEOREM RepetitionsServed == Spec => []EveryRepetitionServed
<1>1. Init => TypeOK /\ RepeatInv BY TypeInit, RepeatInit
<1>2. TypeOK /\ RepeatInv /\ [Next]_vars => (TypeOK /\ RepeatInv)'
  BY TypeNext, RepeatNext
<1>3. RepeatInv => EveryRepetitionServed BY RepeatImplies
<1> QED BY <1>1, <1>2, <1>3, PTL DEF Spec
=============================================================================
