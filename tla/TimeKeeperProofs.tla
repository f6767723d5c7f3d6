--------------------------- MODULE TimeKeeperProofs ---------------------------
(***************************************************************************)
(* TimeKeeper's properties for every interval, word size, drift, gap and   *)
(* kind of garbage.                                                        *)
(*                                                                         *)
(* The argument: Since, computed modulo the word, is the true number of    *)
(* timer milliseconds since previous_millis, because TimeNow reads the RTC *)
(* (and moves previous_millis up) before the timer gets through a word.    *)
(* Then base_real_time plus Since is the RTC's time at the last trusted    *)
(* report carried forward by the timer: ahead of the RTC by the drift      *)
(* alone, behind it by the drift, the fraction of a second that the report *)
(* dropped, and one more for each report refused since.                    *)
(***************************************************************************)
EXTENDS TimeKeeper, TLAPS

(* Arithmetic modulo w near zero, and what division leaves.                *)
LEMMA ModLow ==
    ASSUME NEW w \in Nat \ {0}, NEW x \in 0 .. w - 1
    PROVE  x % w = x
OBVIOUS

LEMMA ModHigh ==
    ASSUME NEW w \in Nat \ {0}, NEW x \in Nat, w <= x, x < w + w
    PROVE  x % w = x - w
OBVIOUS

LEMMA ModNegative ==
    ASSUME NEW w \in Nat \ {0}, NEW x \in -w .. -1
    PROVE  x % w = x + w
OBVIOUS

LEMMA Quotient ==
    ASSUME NEW w \in Nat \ {0}, NEW x \in Nat
    PROVE  /\ x \div w \in Nat
           /\ (x \div w) * w <= x /\ x < (x \div w) * w + w
OBVIOUS

LEMMA QuotientMonotone ==
    ASSUME NEW w \in Nat \ {0}, NEW x \in Nat, NEW y \in Nat, x <= y
    PROVE  x \div w <= y \div w
OBVIOUS

(* The timer does not get round: what has gone by is what was there plus   *)
(* the gap.                                                                *)
LEMMA SinceAdvances ==
    ASSUME NEW m \in 0 .. WORD - 1, NEW p \in 0 .. WORD - 1, NEW gap \in Nat,
           ((m - p) % WORD) + gap < WORD
    PROVE  /\ (m + gap) % WORD \in 0 .. WORD - 1
           /\ (((m + gap) % WORD) - p) % WORD = ((m - p) % WORD) + gap
<1>w. WORD \in Nat \ {0}
  BY WordAssumption
<1>d. PICK d \in Int : d = m - p
  BY <1>w
<1>1. \/ m >= p /\ d % WORD = m - p
      \/ m < p /\ d % WORD = m - p + WORD
  <2>1. CASE m >= p
    BY <1>w, <1>d, <2>1, ModLow
  <2>2. CASE m < p
    BY <1>w, <1>d, <2>2, ModNegative
  <2> QED BY <1>w, <2>1, <2>2
<1>g. d % WORD \in Nat /\ (d % WORD) + gap < WORD /\ gap < WORD
  BY <1>w, <1>d, <1>1
<1>x. PICK x \in Nat : x = m + gap
  BY <1>w
<1>n. PICK n \in 0 .. WORD - 1 : n = x % WORD
  BY <1>w, <1>x
<1>2. \/ x < WORD /\ n = x
      \/ x >= WORD /\ n = x - WORD
  <2>1. CASE x < WORD
    BY <1>w, <1>x, <1>n, <2>1, ModLow
  <2>2. CASE x >= WORD
    <3>1. WORD <= x /\ x < WORD + WORD
      BY <1>w, <1>x, <1>g, <2>2
    <3>2. x % WORD = x - WORD
      BY <1>w, <3>1, ModHigh
    <3> QED BY <1>n, <2>2, <3>2
  <2> QED BY <1>w, <2>1, <2>2
<1>e. PICK e \in Int : e = n - p
  BY <1>w
<1>3. e % WORD = (d % WORD) + gap
  <2>1. CASE n >= p
    <3>1. e % WORD = e
      BY <1>w, <1>e, <2>1, ModLow
    <3> QED BY <3>1, <1>1, <1>2, <1>g, <1>w, <1>d, <1>x, <1>e, <2>1
  <2>2. CASE n < p
    <3>1. e % WORD = e + WORD
      BY <1>w, <1>e, <2>2, ModNegative
    <3> QED BY <3>1, <1>1, <1>2, <1>g, <1>w, <1>d, <1>x, <1>e, <2>2
  <2> QED BY <1>w, <2>1, <2>2
<1> QED BY <1>3, <1>d, <1>x, <1>n, <1>e
----------------------------------------------------------------------------
(* What TimeNow knows, in terms of which its steps are checked.            *)

Elapsed == Since(millis)

(* The last answer, and that the next poll is not overdue.                 *)
Answered ==
    /\ Elapsed < RTC_POLL_INTERVAL
    /\ told = base_real_time + Elapsed \div SECOND

(* What is known goes back to a true report.                               *)
Known ==
    trusted =>
        /\ Elapsed <= timed
        /\ (base_real_time * SECOND + Elapsed - clock) * DRIFT <= timed
        /\ (clock - base_real_time * SECOND - Elapsed) * DRIFT
               < timed + (1 + refused) * SECOND * DRIFT

IInv == TypeOK /\ Answered /\ Known

(* A call that finds the interval not over.                                *)
Runs(gap, m) ==
    /\ told' = base_real_time + Since(m) \div SECOND
    /\ report' = "none" /\ accepted' = FALSE
    /\ timed' = timed + gap
    /\ UNCHANGED <<previous_millis, base_real_time, trusted, refused>>

(* One call of TimeNow: after gap on the timer and t on the RTC.           *)
Call(gap, t, m) ==
    /\ Drifts(gap, t) /\ clock' = clock + t /\ millis' = m
    /\ UNCHANGED sets
    /\ \/ Since(m) < RTC_POLL_INTERVAL /\ Runs(gap, m)
       \/ /\ Since(m) >= RTC_POLL_INTERVAL
          /\ \/ Poll("honest", (clock + t) \div SECOND, m, gap)
             \/ \E g \in Garbage : Poll("garbage", g, m, gap)

LEMMA CallStep ==
    ASSUME IInv, TimeNow
    PROVE  \E gap \in Nat, t \in Nat, m \in 0 .. WORD - 1 :
             Call(gap, t, m) /\ Since(m) = Elapsed + gap /\ gap > 0
<1>0. PICK gap \in Gaps : \E t \in 0 .. 2 * gap :
        LET m == (millis + gap) % WORD
            now == clock + t
        IN /\ Drifts(gap, t)
           /\ now <= Horizon /\ clock' = now
           /\ millis' = m
           /\ IF Since(m) >= RTC_POLL_INTERVAL
              THEN \/ Poll("honest", now \div SECOND, m, gap)
                   \/ \E g \in Garbage :
                          Wrong(g, now) /\ Poll("garbage", g, m, gap)
              ELSE /\ told' = base_real_time + Since(m) \div SECOND
                   /\ report' = "none" /\ accepted' = FALSE
                   /\ timed' = timed + gap
                   /\ UNCHANGED <<previous_millis, base_real_time, trusted, refused>>
           /\ UNCHANGED sets
  BY DEF TimeNow
<1>1. PICK t \in 0 .. 2 * gap :
        LET m == (millis + gap) % WORD
            now == clock + t
        IN /\ Drifts(gap, t)
           /\ now <= Horizon /\ clock' = now
           /\ millis' = m
           /\ IF Since(m) >= RTC_POLL_INTERVAL
              THEN \/ Poll("honest", now \div SECOND, m, gap)
                   \/ \E g \in Garbage :
                          Wrong(g, now) /\ Poll("garbage", g, m, gap)
              ELSE /\ told' = base_real_time + Since(m) \div SECOND
                   /\ report' = "none" /\ accepted' = FALSE
                   /\ timed' = timed + gap
                   /\ UNCHANGED <<previous_millis, base_real_time, trusted, refused>>
           /\ UNCHANGED sets
  BY <1>0
<1> DEFINE m == (millis + gap) % WORD
<1>2. gap \in Nat \ {0} /\ t \in Nat
  BY GapsAssumption
<1>3. millis \in 0 .. WORD - 1 /\ previous_millis \in 0 .. WORD - 1
      /\ Elapsed < RTC_POLL_INTERVAL /\ RTC_POLL_INTERVAL + gap < WORD
      /\ WORD \in Nat \ {0} /\ RTC_POLL_INTERVAL \in Nat
  BY WordAssumption, IntervalAssumption DEF IInv, TypeOK, Answered
<1>4. ((millis - previous_millis) % WORD) + gap < WORD
  <2>1. (millis - previous_millis) % WORD \in Nat
    BY <1>3
  <2> QED BY <1>2, <1>3, <2>1 DEF Elapsed, Since
<1>5. m \in 0 .. WORD - 1 /\ Since(m) = Elapsed + gap
  BY <1>2, <1>3, <1>4, SinceAdvances DEF Elapsed, Since
<1>6. Since(m) \in Nat
  BY <1>3, <1>5 DEF Since
<1>7. Call(gap, t, m)
  <2>1. CASE Since(m) >= RTC_POLL_INTERVAL
    BY <1>1, <2>1, Zenon DEF Call
  <2>2. CASE ~(Since(m) >= RTC_POLL_INTERVAL)
    <3>1. Since(m) < RTC_POLL_INTERVAL
      BY <1>3, <1>6, <2>2
    <3> QED BY <1>1, <2>2, <3>1, Zenon DEF Call, Runs
  <2> QED BY <2>1, <2>2
<1> QED BY <1>2, <1>5, <1>7
----------------------------------------------------------------------------
(* The invariant holds at the start and after a restart or a setting.      *)

(* A state in which TimeNow has just been given its base.                  *)
Fresh ==
    /\ clock \in Nat /\ millis = 0 /\ previous_millis = 0
    /\ base_real_time \in Nat /\ told = base_real_time
    /\ sets \in Nat /\ report = "none" /\ accepted = FALSE
    /\ trusted \in BOOLEAN /\ timed = 0 /\ refused = 0
    /\ trusted => base_real_time = Real

LEMMA FreshInv == Fresh => IInv
<1> SUFFICES ASSUME Fresh PROVE IInv
  OBVIOUS
<1>0. SECOND \in Nat \ {0} /\ WORD \in Nat \ {0}
  BY WordAssumption, SecondAssumption
<1>1. Elapsed = 0 /\ 0 \div SECOND = 0 /\ WORD \in Nat \ {0}
  <2>1. 0 % WORD = 0 /\ 0 - 0 = 0
    BY <1>0
  <2> QED BY <1>0, <2>1 DEF Elapsed, Since, Fresh
<1>2. TypeOK
  <2>1. 0 \in 0 .. WORD - 1 /\ 0 \in Nat
    BY <1>0
  <2> QED BY <2>1, Zenon DEF TypeOK, Fresh
<1>3. Answered
  BY <1>1, IntervalAssumption DEF Answered, Fresh
<1>4. Known
  <2> SUFFICES ASSUME trusted
               PROVE  /\ (base_real_time * SECOND + 0 - clock) * DRIFT <= 0
                      /\ (clock - base_real_time * SECOND - 0) * DRIFT
                             < 0 + (1 + 0) * SECOND * DRIFT
    BY <1>1 DEF Known, Fresh
  <2> DEFINE over == clock - base_real_time * SECOND
  <2>1. over \in Nat /\ over < SECOND
    BY SecondAssumption, Quotient DEF Fresh, Real
  <2>2. SECOND \in Nat /\ DRIFT \in Nat \ {0}
    BY SecondAssumption, DriftAssumption
  <2>3. base_real_time * SECOND + 0 - clock = -over /\ clock - base_real_time * SECOND - 0 = over
    BY <2>2 DEF Fresh
  <2> HIDE DEF over
  <2>4. over * DRIFT < SECOND * DRIFT /\ (-over) * DRIFT <= 0
    BY <2>1, <2>2
  <2> QED BY <2>1, <2>2, <2>3, <2>4
<1> QED BY <1>2, <1>3, <1>4 DEF IInv

LEMMA InitInv == Init => IInv
<1>1. Init => Fresh
  <2> SUFFICES ASSUME Init PROVE Fresh
    OBVIOUS
  <2>1. Real \in Nat /\ clock \in Nat
    BY SecondAssumption, Quotient DEF Init, Real
  <2> QED BY <2>1 DEF Init, Fresh
<1> QED BY <1>1, FreshInv

LEMMA RestartStep == IInv /\ HALInitRTC => IInv'
<1>1. IInv /\ HALInitRTC => Fresh'
  <2> SUFFICES ASSUME IInv, HALInitRTC PROVE Fresh'
    OBVIOUS
  <2>1. Real \in Nat /\ Real' = Real
    BY SecondAssumption, Quotient DEF IInv, TypeOK, Real, HALInitRTC
  <2>2. base_real_time' \in Nat /\ trusted' \in BOOLEAN
        /\ (trusted' => base_real_time' = Real')
    <3>1. \/ base_real_time' = Real /\ trusted' = TRUE
          \/ base_real_time' \in Nat /\ trusted' = FALSE
      BY GarbageAssumption DEF HALInitRTC
    <3> QED BY <2>1, <3>1, Zenon
  <2>3. sets' \in Nat /\ clock' \in Nat
    BY DEF HALInitRTC, IInv, TypeOK
  <2> QED BY <2>2, <2>3 DEF HALInitRTC, Fresh
<1> QED BY <1>1, FreshInv, PTL

LEMMA SetStep ==
    ASSUME IInv, RegSetTime \/ RegSetDate
    PROVE  IInv'
<1>1. PICK s \in Nat : Adjust(s)
  <2>1. Real \in Nat /\ Real \div DAY \in Nat /\ Real % DAY \in Nat
    BY SecondAssumption, DayAssumption DEF IInv, TypeOK, Real
  <2>2. \A m \in Nat : m * DAY \in Nat
    BY DayAssumption
  <2>3. CASE RegSetTime
    BY <2>1, <2>2, <2>3, DayAssumption DEF RegSetTime, HALSetRTCTime
  <2>4. CASE RegSetDate
    BY <2>1, <2>2, <2>4 DEF RegSetDate, HALSetRTCDate
  <2> QED BY <2>3, <2>4
<1>2. clock' \in Nat
  BY <1>1, SecondAssumption DEF Adjust
<1>3. Elapsed' = Elapsed
  BY <1>1 DEF Adjust, believed, Elapsed, Since
<1>4. /\ sets' \in Nat /\ trusted' = FALSE
      /\ report' = "none" /\ accepted' = FALSE
      /\ UNCHANGED <<millis, previous_millis, base_real_time, told, timed, refused>>
  BY <1>1 DEF Adjust, believed, IInv, TypeOK
<1>5. TypeOK'
  BY <1>2, <1>4 DEF IInv, TypeOK
<1>6. Answered'
  BY <1>3, <1>4 DEF IInv, Answered
<1>7. Known'
  BY <1>4 DEF Known
<1> QED BY <1>5, <1>6, <1>7 DEF IInv
----------------------------------------------------------------------------
(* A call of TimeNow.  Products of two constants are kept as they are, so  *)
(* that what remains is linear in them.                                    *)

LEMMA ConstantTypes ==
    /\ SECOND \in Nat \ {0} /\ WORD \in Nat \ {0} /\ DRIFT \in Nat \ {0}
    /\ RTC_POLL_INTERVAL \in Nat \ {0} /\ SLACK \in Nat
BY SecondAssumption, WordAssumption, DriftAssumption, IntervalAssumption

(* While the interval lasts.                                               *)
LEMMA RunsInv ==
    ASSUME IInv, NEW gap \in Nat, NEW t \in Nat, NEW m \in 0 .. WORD - 1,
           Drifts(gap, t), clock' = clock + t, millis' = m, UNCHANGED sets,
           Since(m) = Elapsed + gap, Since(m) < RTC_POLL_INTERVAL, Runs(gap, m)
    PROVE  IInv'
<1>1. Elapsed \in Nat /\ Since(m) \in Nat /\ Elapsed' = Since(m)
  BY ConstantTypes DEF IInv, TypeOK, Elapsed, Since, Runs
<1>2. TypeOK'
  <2>1. told' \in Nat
    BY <1>1, ConstantTypes, Quotient DEF IInv, TypeOK, Runs
  <2>2. timed' \in Nat /\ clock' \in Nat
    BY DEF IInv, TypeOK, Runs
  <2> QED BY <2>1, <2>2, Zenon DEF IInv, TypeOK, Runs
<1>3. Answered'
  BY <1>1 DEF Answered, Runs
<1>4. Known'
  <2>0. /\ trusted' = trusted /\ timed' = timed + gap /\ refused' = refused
        /\ clock' = clock + t
        /\ base_real_time' = base_real_time /\ Elapsed' = Elapsed + gap
    BY <1>1 DEF Runs
  <2> SUFFICES ASSUME trusted
               PROVE  /\ Elapsed' <= timed'
                      /\ (base_real_time' * SECOND + Elapsed' - clock') * DRIFT <= timed'
                      /\ (clock' - base_real_time' * SECOND - Elapsed') * DRIFT
                            < timed' + (1 + refused') * SECOND * DRIFT
    BY <2>0, Zenon DEF Known
  <2> DEFINE ahead == base_real_time * SECOND + Elapsed - clock
             loss == (1 + refused) * SECOND * DRIFT
  <2>1. /\ Elapsed <= timed
        /\ ahead * DRIFT <= timed
        /\ (clock - base_real_time * SECOND - Elapsed) * DRIFT < timed + loss
    BY DEF IInv, Known
  <2>2. ahead \in Int /\ loss \in Int /\ timed \in Nat
    BY <1>1, ConstantTypes DEF IInv, TypeOK
  <2>3. /\ clock - base_real_time * SECOND - Elapsed = -ahead
        /\ base_real_time * SECOND + (Elapsed + gap) - (clock + t) = ahead + (gap - t)
        /\ clock + t - base_real_time * SECOND - (Elapsed + gap) = -ahead + (t - gap)
    BY <1>1, ConstantTypes DEF IInv, TypeOK
  <2>4. (gap - t) * DRIFT <= gap /\ (t - gap) * DRIFT <= gap
    BY DEF Drifts
  <2> HIDE DEF ahead, loss
  <2>5. /\ (ahead + (gap - t)) * DRIFT = ahead * DRIFT + (gap - t) * DRIFT
        /\ (-ahead + (t - gap)) * DRIFT = (-ahead) * DRIFT + (t - gap) * DRIFT
    BY <2>2, ConstantTypes
  <2>6. /\ ahead * DRIFT \in Int /\ (-ahead) * DRIFT \in Int
        /\ (gap - t) * DRIFT \in Int /\ (t - gap) * DRIFT \in Int
    BY <2>2, ConstantTypes
  <2>7. /\ Elapsed + gap <= timed + gap
        /\ ahead * DRIFT + (gap - t) * DRIFT <= timed + gap
        /\ (-ahead) * DRIFT + (t - gap) * DRIFT < timed + gap + loss
    BY <1>1, <2>1, <2>2, <2>3, <2>4, <2>6
  <2>8. /\ base_real_time' * SECOND + Elapsed' - clock' = ahead + (gap - t)
        /\ clock' - base_real_time' * SECOND - Elapsed' = -ahead + (t - gap)
    BY <1>1, <2>0, <2>2, <2>3, ConstantTypes DEF IInv, TypeOK
  <2>9. (1 + refused') * SECOND * DRIFT = loss
    BY <2>0, Zenon DEF loss
  <2> QED BY <2>0, <2>5, <2>7, <2>8, <2>9
<1> QED BY <1>2, <1>3, <1>4 DEF IInv

(* A poll whose report is believed.                                        *)
LEMMA AcceptInv ==
    ASSUME IInv, NEW gap \in Nat, NEW t \in Nat, NEW m \in 0 .. WORD - 1,
           NEW kind \in {"honest", "garbage"}, NEW current \in Nat,
           kind = "honest" => current = (clock + t) \div SECOND,
           clock' = clock + t, millis' = m, UNCHANGED sets,
           Poll(kind, current, m, gap), Plausible(current)
    PROVE  IInv'
<1>1. /\ base_real_time' = current /\ previous_millis' = m /\ told' = current
      /\ trusted' = (kind = "honest") /\ timed' = 0 /\ refused' = 0
      /\ report' = kind /\ accepted' = TRUE
  BY DEF Poll, Accept
<1>2. Elapsed' = 0 /\ 0 \div SECOND = 0
  <2>1. m - m = 0 /\ 0 % WORD = 0 /\ 0 \div SECOND = 0
    BY ConstantTypes
  <2> QED BY <1>1, <2>1 DEF Elapsed, Since
<1>3. clock' \in Nat /\ sets' \in Nat
  BY DEF IInv, TypeOK
<1>4. TypeOK'
  <2>1. trusted' \in BOOLEAN /\ 0 \in Nat
    BY <1>1, Zenon
  <2> QED BY <1>1, <1>3, <2>1, Zenon DEF TypeOK
<1>5. Answered'
  BY <1>1, <1>2, ConstantTypes DEF Answered
<1>6. Known'
  <2> DEFINE over == clock' - current * SECOND
  <2> SUFFICES ASSUME trusted'
               PROVE  /\ (current * SECOND + 0 - clock') * DRIFT <= 0
                      /\ (clock' - current * SECOND - 0) * DRIFT
                            < 0 + (1 + 0) * SECOND * DRIFT
    BY <1>1, <1>2 DEF Known
  <2>1. current = clock' \div SECOND
    BY <1>1, Zenon
  <2>2. over \in Nat /\ over < SECOND
    <3>1. /\ current * SECOND <= clock' /\ clock' < current * SECOND + SECOND
      BY <1>3, <2>1, ConstantTypes, Quotient
    <3>2. current * SECOND \in Nat
      BY ConstantTypes
    <3> QED BY <1>3, <3>1, <3>2, ConstantTypes
  <2>3. current * SECOND + 0 - clock' = -over /\ clock' - current * SECOND - 0 = over
    BY <1>3, ConstantTypes
  <2> HIDE DEF over
  <2>4. over * DRIFT < SECOND * DRIFT /\ (-over) * DRIFT <= 0
    BY <2>2, ConstantTypes
  <2>5. 0 + (1 + 0) * SECOND * DRIFT = SECOND * DRIFT
    BY ConstantTypes
  <2> QED BY <2>3, <2>4, <2>5
<1> QED BY <1>4, <1>5, <1>6 DEF IInv

(* A poll whose report is refused: the base moves up by whole seconds.     *)
LEMMA RefuseInv ==
    ASSUME IInv, NEW gap \in Nat, NEW t \in Nat, NEW m \in 0 .. WORD - 1,
           NEW kind \in {"honest", "garbage"}, NEW current \in Nat,
           Drifts(gap, t), clock' = clock + t, millis' = m, UNCHANGED sets,
           Since(m) = Elapsed + gap,
           Poll(kind, current, m, gap), ~Plausible(current)
    PROVE  IInv'
<1> DEFINE q == Since(m) \div SECOND
<1>1. /\ base_real_time' = base_real_time + q /\ previous_millis' = m
      /\ told' = base_real_time' /\ trusted' = trusted
      /\ timed' = timed + gap /\ refused' = refused + 1
      /\ report' = kind /\ accepted' = FALSE
  BY DEF Poll, Refuse
<1>2. Elapsed' = 0 /\ 0 \div SECOND = 0
  <2>1. m - m = 0 /\ 0 % WORD = 0 /\ 0 \div SECOND = 0
    BY ConstantTypes
  <2> QED BY <1>1, <2>1 DEF Elapsed, Since
<1>3. Elapsed \in Nat /\ Since(m) \in Nat
  BY ConstantTypes DEF IInv, TypeOK, Elapsed, Since
<1>4. q \in Nat /\ q * SECOND <= Since(m) /\ Since(m) < q * SECOND + SECOND
  BY <1>3, ConstantTypes, Quotient
<1> HIDE DEF q
<1>5. /\ base_real_time' \in Nat /\ clock' \in Nat /\ sets' \in Nat
      /\ timed' \in Nat /\ refused' \in Nat
  BY <1>1, <1>4 DEF IInv, TypeOK
<1>6. TypeOK'
  BY <1>1, <1>5, Zenon DEF IInv, TypeOK
<1>7. Answered'
  BY <1>1, <1>2, <1>5, ConstantTypes DEF Answered
<1>8. Known'
  <2> SUFFICES ASSUME trusted
               PROVE  /\ 0 <= timed'
                      /\ (base_real_time' * SECOND + 0 - clock') * DRIFT <= timed'
                      /\ (clock' - base_real_time' * SECOND - 0) * DRIFT
                            < timed' + (1 + refused') * SECOND * DRIFT
    BY <1>1, <1>2, Zenon DEF Known
  <2> DEFINE ahead == base_real_time * SECOND + Elapsed - clock
             loss == (1 + refused) * SECOND * DRIFT
             rest == Since(m) - q * SECOND
  <2>1. /\ ahead * DRIFT <= timed
        /\ (clock - base_real_time * SECOND - Elapsed) * DRIFT < timed + loss
    BY DEF IInv, Known
  <2>2. ahead \in Int /\ loss \in Int /\ timed \in Nat /\ refused \in Nat
        /\ rest \in Nat /\ rest < SECOND
    BY <1>3, <1>4, ConstantTypes DEF IInv, TypeOK
  <2>3. clock - base_real_time * SECOND - Elapsed = -ahead
    BY <1>3, ConstantTypes DEF IInv, TypeOK
  <2>4. base_real_time' * SECOND = base_real_time * SECOND + q * SECOND
    BY <1>1, <1>4, ConstantTypes DEF IInv, TypeOK
  <2>5. /\ base_real_time' * SECOND + 0 - clock' = ahead + (gap - t) - rest
        /\ clock' - base_real_time' * SECOND - 0 = -ahead + (t - gap) + rest
    <3>1. base_real_time * SECOND \in Int /\ q * SECOND \in Int /\ clock \in Int
      BY <1>4, ConstantTypes DEF IInv, TypeOK
    <3> QED BY <3>1, <1>3, <2>4
  <2>6. (1 + refused') * SECOND * DRIFT = loss + SECOND * DRIFT
    BY <1>1, <2>2, ConstantTypes
  <2>7. (gap - t) * DRIFT <= gap /\ (t - gap) * DRIFT <= gap
    BY DEF Drifts
  <2> HIDE DEF ahead, loss, rest
  <2>8. /\ (ahead + (gap - t) - rest) * DRIFT
              = ahead * DRIFT + (gap - t) * DRIFT - rest * DRIFT
        /\ (-ahead + (t - gap) + rest) * DRIFT
              = (-ahead) * DRIFT + (t - gap) * DRIFT + rest * DRIFT
    BY <2>2, ConstantTypes
  <2>9. rest * DRIFT >= 0 /\ rest * DRIFT < SECOND * DRIFT
    BY <2>2, ConstantTypes
  <2>10. /\ ahead * DRIFT \in Int /\ (-ahead) * DRIFT \in Int /\ rest * DRIFT \in Int
         /\ (gap - t) * DRIFT \in Int /\ (t - gap) * DRIFT \in Int
         /\ SECOND * DRIFT \in Int
    BY <2>2, ConstantTypes
  <2>11. /\ ahead * DRIFT + (gap - t) * DRIFT - rest * DRIFT <= timed + gap
         /\ (-ahead) * DRIFT + (t - gap) * DRIFT + rest * DRIFT
               < timed + gap + (loss + SECOND * DRIFT)
    BY <2>1, <2>2, <2>3, <2>7, <2>9, <2>10
  <2> QED BY <1>1, <1>5, <2>5, <2>6, <2>8, <2>11
<1> QED BY <1>6, <1>7, <1>8 DEF IInv

LEMMA NextInv == IInv /\ [Next]_vars => IInv'
<1> SUFFICES ASSUME IInv, [Next]_vars PROVE IInv'
  OBVIOUS
<1>1. CASE TimeNow
  <2>1. PICK gap \in Nat, t \in Nat, m \in 0 .. WORD - 1 :
          Call(gap, t, m) /\ Since(m) = Elapsed + gap /\ gap > 0
    BY <1>1, CallStep
  <2>2. Drifts(gap, t) /\ clock' = clock + t /\ millis' = m /\ UNCHANGED sets
    BY <2>1 DEF Call
  <2>3. CASE Since(m) < RTC_POLL_INTERVAL /\ Runs(gap, m)
    BY <2>1, <2>2, <2>3, RunsInv
  <2>4. CASE Poll("honest", (clock + t) \div SECOND, m, gap)
    <3>1. (clock + t) \div SECOND \in Nat
      BY ConstantTypes, Quotient DEF IInv, TypeOK
    <3>2. CASE Plausible((clock + t) \div SECOND)
      BY <2>2, <2>4, <3>1, <3>2, AcceptInv
    <3>3. CASE ~Plausible((clock + t) \div SECOND)
      BY <2>1, <2>2, <2>4, <3>1, <3>3, RefuseInv
    <3> QED BY <3>2, <3>3
  <2>5. CASE \E g \in Garbage : Poll("garbage", g, m, gap)
    <3>1. PICK g \in Garbage : Poll("garbage", g, m, gap)
      BY <2>5
    <3>2. g \in Nat
      BY GarbageAssumption
    <3>3. CASE Plausible(g)
      BY <2>2, <3>1, <3>2, <3>3, AcceptInv
    <3>4. CASE ~Plausible(g)
      BY <2>1, <2>2, <3>1, <3>2, <3>4, RefuseInv
    <3> QED BY <3>3, <3>4
  <2> QED BY <2>1, <2>3, <2>4, <2>5 DEF Call
<1>2. CASE HALInitRTC
  BY <1>2, RestartStep
<1>3. CASE RegSetTime \/ RegSetDate
  BY <1>3, SetStep
<1>4. CASE UNCHANGED vars
  <2>1. UNCHANGED <<clock, millis, previous_millis, base_real_time, told, sets,
                    report, accepted, trusted, timed, refused>>
    BY <1>4 DEF vars, believed, heard
  <2>2. Elapsed' = Elapsed
    BY <2>1 DEF Elapsed, Since
  <2>3. TypeOK'
    BY <2>1 DEF IInv, TypeOK
  <2>4. Answered' /\ Known'
    BY <2>1, <2>2, Zenon DEF IInv, Answered, Known
  <2> QED BY <2>3, <2>4 DEF IInv
<1> QED BY <1>1, <1>2, <1>3, <1>4 DEF Next

(* Every variable of the clock keeps its type.                             *)
THEOREM TimeTypeCorrect == Spec => []TypeOK
<1>1. Init => IInv BY InitInv
<1>2. IInv /\ [Next]_vars => IInv' BY NextInv
<1>3. IInv => TypeOK BY DEF IInv
<1> QED BY <1>1, <1>2, <1>3, PTL DEF Spec
----------------------------------------------------------------------------
LEMMA InvTracks == IInv => TracksRTC
<1> SUFFICES ASSUME IInv, trusted
             PROVE  /\ (told * SECOND - clock) * DRIFT <= timed
                    /\ (clock - told * SECOND) * DRIFT
                          < timed + (2 + refused) * SECOND * DRIFT
  BY DEF TracksRTC
<1> DEFINE q == Elapsed \div SECOND
           ahead == base_real_time * SECOND + Elapsed - clock
           loss == (1 + refused) * SECOND * DRIFT
           rest == Elapsed - q * SECOND
<1>1. Elapsed \in Nat /\ q \in Nat /\ q * SECOND <= Elapsed
      /\ Elapsed < q * SECOND + SECOND
  BY ConstantTypes, Quotient DEF IInv, TypeOK, Elapsed, Since
<1>2. told = base_real_time + q
  BY DEF IInv, Answered
<1> HIDE DEF q
<1>3. told * SECOND = base_real_time * SECOND + q * SECOND
  BY <1>1, <1>2, ConstantTypes DEF IInv, TypeOK
<1>4. /\ base_real_time * SECOND \in Int /\ q * SECOND \in Int /\ clock \in Int
      /\ timed \in Nat /\ refused \in Nat
  BY <1>1, ConstantTypes DEF IInv, TypeOK
<1>5. /\ told * SECOND - clock = ahead - rest
      /\ clock - told * SECOND = -ahead + rest
      /\ clock - base_real_time * SECOND - Elapsed = -ahead
  BY <1>1, <1>3, <1>4
<1>6. ahead \in Int /\ loss \in Int /\ rest \in Nat /\ rest < SECOND
  BY <1>1, <1>4, ConstantTypes
<1>7. (2 + refused) * SECOND * DRIFT = loss + SECOND * DRIFT
  BY <1>4, ConstantTypes
<1>8. /\ ahead * DRIFT <= timed
      /\ (-ahead) * DRIFT < timed + loss
  BY <1>5 DEF IInv, Known
<1> HIDE DEF ahead, loss, rest
<1>9. /\ (ahead - rest) * DRIFT = ahead * DRIFT - rest * DRIFT
      /\ (-ahead + rest) * DRIFT = (-ahead) * DRIFT + rest * DRIFT
      /\ rest * DRIFT >= 0 /\ rest * DRIFT < SECOND * DRIFT
      /\ ahead * DRIFT \in Int /\ (-ahead) * DRIFT \in Int /\ rest * DRIFT \in Int
      /\ SECOND * DRIFT \in Int
  BY <1>6, ConstantTypes
<1> QED BY <1>4, <1>5, <1>6, <1>7, <1>8, <1>9

(* The answer stays within drift, dropped fractions and refusals of the    *)
(* RTC, for every timer, interval and word.                                *)
THEOREM TimeTracksRTC == Spec => []TracksRTC
<1>1. Init => IInv BY InitInv
<1>2. IInv /\ [Next]_vars => IInv' BY NextInv
<1>3. IInv => TracksRTC BY InvTracks
<1> QED BY <1>1, <1>2, <1>3, PTL DEF Spec
----------------------------------------------------------------------------
LEMMA MonotoneStep == IInv /\ [Next]_vars => [told' < told => accepted' \/ sets' # sets]_vars
<1> SUFFICES ASSUME IInv, Next PROVE told' < told => accepted' \/ sets' # sets
  BY DEF vars, believed
<1>1. CASE TimeNow
  <2>1. PICK gap \in Nat, t \in Nat, m \in 0 .. WORD - 1 :
          Call(gap, t, m) /\ Since(m) = Elapsed + gap /\ gap > 0
    BY <1>1, CallStep
  <2>2. \/ Runs(gap, m)
        \/ \E kind, current : Poll(kind, current, m, gap)
    BY <2>1 DEF Call
  <2>3. \/ told' = base_real_time + Since(m) \div SECOND
        \/ accepted'
    BY <2>2 DEF Runs, Poll, Refuse
  <2>4. Elapsed \in Nat
    BY ConstantTypes DEF IInv, TypeOK, Elapsed, Since
  <2>5. Elapsed \div SECOND <= Since(m) \div SECOND
        /\ Elapsed \div SECOND \in Nat /\ Since(m) \div SECOND \in Nat
    BY <2>1, <2>4, ConstantTypes, Quotient, QuotientMonotone
  <2>6. told = base_real_time + Elapsed \div SECOND /\ base_real_time \in Nat
    BY DEF IInv, Answered, TypeOK
  <2>7. ASSUME told' = base_real_time + Since(m) \div SECOND PROVE ~(told' < told)
    BY <2>5, <2>6, <2>7
  <2> QED BY <2>3, <2>7
<1>2. CASE HALInitRTC
  BY <1>2 DEF HALInitRTC, IInv, TypeOK
<1>3. CASE RegSetTime \/ RegSetDate
  BY <1>3 DEF RegSetTime, RegSetDate, HALSetRTCTime, HALSetRTCDate, Adjust, IInv, TypeOK
<1> QED BY <1>1, <1>2, <1>3 DEF Next

(* Time runs backwards at an accepted report or a restart only.            *)
THEOREM TimeMonotone == Spec => MonotoneBetweenReports
<1>1. Init => IInv BY InitInv
<1>2. IInv /\ [Next]_vars => IInv' BY NextInv
<1>3. IInv /\ [Next]_vars => [told' < told => accepted' \/ sets' # sets]_vars
  BY MonotoneStep
<1> QED BY <1>1, <1>2, <1>3, PTL DEF Spec, MonotoneBetweenReports
----------------------------------------------------------------------------
(* An honest report that is refused: either it is behind the base, which   *)
(* takes a timer that has run ahead by more than an interval, or it is     *)
(* ahead of it by more than the check allows, which takes longer than that *)
(* since the last report that was true.                                    *)
LEMMA HonestRefused ==
    ASSUME IInv, trusted, NEW gap \in Nat, NEW t \in Nat, Drifts(gap, t),
           RTC_POLL_INTERVAL <= Elapsed + gap,
           NEW c \in Nat, c = (clock + t) \div SECOND, ~Plausible(c)
    PROVE  \/ timed + gap > DRIFT * (RTC_POLL_INTERVAL - SECOND)
           \/ 2 * (timed + gap) + (2 + refused) * SECOND
                  > (RTC_POLL_INTERVAL + SLACK) * SECOND
<1> DEFINE base  == base_real_time * SECOND
           since == Elapsed + gap
           total == timed + gap
           ahead == base + Elapsed - clock
           aheadNow == base + since - (clock + t)
           loss == (1 + refused) * SECOND
<1>1. /\ Elapsed \in Nat /\ clock \in Nat /\ base_real_time \in Nat
      /\ timed \in Nat /\ refused \in Nat
  BY ConstantTypes DEF IInv, TypeOK, Elapsed, Since
<1>2. base \in Nat /\ loss \in Nat /\ ahead \in Int /\ aheadNow \in Int
  BY <1>1, ConstantTypes
<1>3. /\ Elapsed <= timed
      /\ ahead * DRIFT <= timed
      /\ (-ahead) * DRIFT < timed + loss * DRIFT
  <2>1. clock - base_real_time * SECOND - Elapsed = -ahead
    BY <1>1, <1>2
  <2> QED BY <2>1 DEF IInv, Known
<1>4. aheadNow = ahead + (gap - t) /\ -aheadNow = -ahead + (t - gap)
  BY <1>1, <1>2
<1>5. c * SECOND \in Nat /\ c * SECOND <= clock + t /\ clock + t < c * SECOND + SECOND
  BY <1>1, ConstantTypes, Quotient
<1>6. since \in Nat /\ total \in Nat /\ since <= total /\ RTC_POLL_INTERVAL <= since
  BY <1>1, <1>3
<1> HIDE DEF ahead, loss
<1>7. aheadNow * DRIFT <= total /\ (-aheadNow) * DRIFT < total + loss * DRIFT
  <2>1. (gap - t) * DRIFT <= gap /\ (t - gap) * DRIFT <= gap
    BY DEF Drifts
  <2>2. /\ (ahead + (gap - t)) * DRIFT = ahead * DRIFT + (gap - t) * DRIFT
        /\ (-ahead + (t - gap)) * DRIFT = (-ahead) * DRIFT + (t - gap) * DRIFT
        /\ ahead * DRIFT \in Int /\ (-ahead) * DRIFT \in Int
        /\ (gap - t) * DRIFT \in Int /\ (t - gap) * DRIFT \in Int
        /\ loss * DRIFT \in Int
    BY <1>2, ConstantTypes
  <2> QED BY <1>1, <1>3, <1>4, <2>1, <2>2
<1>8. /\ aheadNow = base - (clock + t) + since
      /\ -aheadNow = clock + t - base - since
  BY <1>1, <1>2
<1> HIDE DEF aheadNow, since, total
<1>9. CASE c < base_real_time
  <2>1. c * SECOND + SECOND <= base
    <3>1. (c + 1) * SECOND <= base_real_time * SECOND
      BY <1>1, <1>9, ConstantTypes
    <3>2. (c + 1) * SECOND = c * SECOND + SECOND
      BY ConstantTypes
    <3> QED BY <3>1, <3>2
  <2> HIDE DEF base
  <2>2. aheadNow > RTC_POLL_INTERVAL - SECOND
    BY <1>1, <1>2, <1>5, <1>6, <1>8, <2>1, ConstantTypes
  <2>3. aheadNow * DRIFT > (RTC_POLL_INTERVAL - SECOND) * DRIFT
    BY <1>2, <2>2, ConstantTypes
  <2>4. (RTC_POLL_INTERVAL - SECOND) * DRIFT = DRIFT * (RTC_POLL_INTERVAL - SECOND)
    BY ConstantTypes
  <2>5. aheadNow * DRIFT \in Int /\ (RTC_POLL_INTERVAL - SECOND) * DRIFT \in Int
    BY <1>2, ConstantTypes
  <2> QED BY <1>6, <1>7, <2>3, <2>4, <2>5 DEF total
<1>10. CASE c > base_real_time + RTC_POLL_INTERVAL + SLACK
  <2> DEFINE limit == (RTC_POLL_INTERVAL + SLACK) * SECOND
  <2>1. c * SECOND >= base + limit + SECOND
    <3>1. c * SECOND >= (base_real_time + (RTC_POLL_INTERVAL + SLACK) + 1) * SECOND
      BY <1>1, <1>10, ConstantTypes
    <3>2. (base_real_time + (RTC_POLL_INTERVAL + SLACK) + 1) * SECOND = base + limit + SECOND
      BY <1>1, ConstantTypes
    <3> QED BY <3>1, <3>2
  <2>2. limit \in Nat
    BY ConstantTypes
  <2> HIDE DEF base, limit
  <2>3. -aheadNow >= limit + SECOND - total
    BY <1>1, <1>2, <1>5, <1>6, <1>8, <2>1, <2>2, ConstantTypes
  <2>4. (-aheadNow - loss) * DRIFT < total
    <3>1. (-aheadNow - loss) * DRIFT = (-aheadNow) * DRIFT - loss * DRIFT
      BY <1>2, ConstantTypes
    <3>2. (-aheadNow) * DRIFT \in Int /\ loss * DRIFT \in Int
      BY <1>2, ConstantTypes
    <3> QED BY <1>6, <1>7, <3>1, <3>2
  <2>5. -aheadNow - loss <= total
    BY <1>2, <1>6, <2>4, ConstantTypes
  <2>6. (2 + refused) * SECOND = loss + SECOND
    BY <1>1, ConstantTypes DEF loss
  <2>7. limit < 2 * total + loss + SECOND
    BY <1>2, <1>6, <2>2, <2>3, <2>5, ConstantTypes
  <2>8. 2 * total + (2 + refused) * SECOND > limit
    <3>1. 2 * total + (loss + SECOND) > limit
      BY <1>2, <1>6, <2>2, <2>7, ConstantTypes
    <3> QED BY <2>6, <3>1
  <2> QED BY <2>8, Zenon DEF total, limit
<1> QED BY <1>1, <1>9, <1>10, ConstantTypes DEF Plausible

LEMMA HonestStep == IInv /\ HonestReportAccepted /\ [Next]_vars => HonestReportAccepted'
<1> SUFFICES ASSUME IInv, HonestReportAccepted, [Next]_vars PROVE HonestReportAccepted'
  OBVIOUS
<1>1. CASE TimeNow
  <2>1. PICK gap \in Nat, t \in Nat, m \in 0 .. WORD - 1 :
          Call(gap, t, m) /\ Since(m) = Elapsed + gap /\ gap > 0
    BY <1>1, CallStep
  <2>2. CASE Runs(gap, m)
    BY <2>2 DEF Runs, HonestReportAccepted
  <2>3. CASE \E g \in Garbage : Poll("garbage", g, m, gap)
    BY <2>3 DEF Poll, HonestReportAccepted
  <2>4. CASE Since(m) >= RTC_POLL_INTERVAL /\ Poll("honest", (clock + t) \div SECOND, m, gap)
    <3>1. (clock + t) \div SECOND \in Nat
      BY ConstantTypes, Quotient DEF IInv, TypeOK
    <3> DEFINE c == (clock + t) \div SECOND
    <3>2. CASE Plausible(c)
      BY <2>4, <3>2 DEF Poll, HonestReportAccepted
    <3>3. CASE ~Plausible(c)
      <4>1. trusted' = trusted /\ timed' = timed + gap /\ refused' = refused + 1
        BY <2>4, <3>3 DEF Poll
      <4>2. RTC_POLL_INTERVAL <= Elapsed + gap /\ Drifts(gap, t)
        BY <2>1, <2>4, ConstantTypes DEF Call, IInv, TypeOK, Elapsed, Since
      <4>3. trusted => \/ timed + gap > DRIFT * (RTC_POLL_INTERVAL - SECOND)
                       \/ 2 * (timed + gap) + (2 + refused) * SECOND
                            > (RTC_POLL_INTERVAL + SLACK) * SECOND
        BY <3>1, <3>3, <4>2, HonestRefused
      <4>4. timed \in Nat /\ refused \in Nat /\ 1 + (refused + 1) = 2 + refused
        BY DEF IInv, TypeOK
      <4>5. /\ DRIFT * (RTC_POLL_INTERVAL - SECOND) \in Int
            /\ (2 + refused) * SECOND \in Int
            /\ (RTC_POLL_INTERVAL + SLACK) * SECOND \in Int
        BY <4>4, ConstantTypes
      <4>6. ~ (/\ trusted'
               /\ timed' <= DRIFT * (RTC_POLL_INTERVAL - SECOND)
               /\ 2 * timed' + (1 + refused') * SECOND
                     <= (RTC_POLL_INTERVAL + SLACK) * SECOND)
        BY <4>1, <4>3, <4>4, <4>5
      <4> QED BY <4>6 DEF HonestReportAccepted
    <3> QED BY <3>2, <3>3
  <2> QED BY <2>1, <2>2, <2>3, <2>4 DEF Call
<1>2. CASE HALInitRTC
  BY <1>2 DEF HALInitRTC, HonestReportAccepted
<1>3. CASE RegSetTime \/ RegSetDate
  BY <1>3 DEF RegSetTime, RegSetDate, HALSetRTCTime, HALSetRTCDate, Adjust,
              HonestReportAccepted
<1>4. CASE UNCHANGED vars
  BY <1>4 DEF vars, heard, HonestReportAccepted
<1> QED BY <1>1, <1>2, <1>3, <1>4 DEF Next

(* A true report is refused only after more drift or more time than the    *)
(* check of TimeNow allows for: garbage ends with the first honest report. *)
THEOREM TimeHonestAccepted == Spec => []HonestReportAccepted
<1>1. Init => IInv /\ HonestReportAccepted
  BY InitInv DEF Init, HonestReportAccepted
<1>2. IInv /\ HonestReportAccepted /\ [Next]_vars => (IInv /\ HonestReportAccepted)'
  BY NextInv, HonestStep
<1> QED BY <1>1, <1>2, PTL DEF Spec
=============================================================================
