------------------------------ MODULE TimeKeeper ------------------------------
(***************************************************************************)
(* What the controller believes the time to be.  A battery-backed clock    *)
(* (the RTC, seconds) is read now and then; in between, TimeNow adds the   *)
(* milliseconds that the processor's timer has counted since.  The timer   *)
(* wraps, runs faster or slower than the RTC, and restarts with the        *)
(* processor; the RTC can report nonsense, be dead at start up, and be set *)
(* by the operator.                                                        *)
(*                                                                         *)
(* A call of TimeNow and the time that passes before it are one action:    *)
(* nothing can be observed in between.                                     *)
(***************************************************************************)
EXTENDS Integers

CONSTANTS
    SECOND,             \* milliseconds in a second
    DAY,                \* seconds in a day
    WORD,               \* millis() counts modulo WORD
    RTC_POLL_INTERVAL,  \* milliseconds between readings of the RTC
    SLACK,              \* the 5000 that TimeNow adds to the interval
    Gaps,               \* the milliseconds between two calls of TimeNow
    DRIFT,              \* the timer is off by at most one part in DRIFT
    Garbage,            \* what a failing RTC can report
    Horizon,            \* bound on the RTC's milliseconds
    MaxSets             \* bound on the operator's settings and the restarts

ASSUME SecondAssumption == SECOND \in Nat \ {0}
ASSUME DayAssumption == DAY \in Nat \ {0}
ASSUME IntervalAssumption == RTC_POLL_INTERVAL \in Nat \ {0} /\ SLACK \in Nat
ASSUME GapsAssumption == Gaps \subseteq Nat \ {0}
(* Between two calls the timer does not get through a whole word.          *)
ASSUME WordAssumption ==
    WORD \in Nat \ {0} /\ \A gap \in Gaps : RTC_POLL_INTERVAL + gap < WORD
ASSUME DriftAssumption == DRIFT \in Nat /\ DRIFT > 1
ASSUME GarbageAssumption == Garbage \subseteq Nat
ASSUME BoundsAssumption == Horizon \in Nat /\ MaxSets \in Nat

VARIABLES
    clock,            \* the RTC's time, in milliseconds
    millis,           \* the processor's timer
    previous_millis,  \* the timer at the last reading
    base_real_time,   \* the time in seconds that goes with it
    told,             \* the last answer of TimeNow
    sets,             \* settings and restarts so far
    report,           \* auxiliary: what the last call heard from the RTC
    accepted,         \* auxiliary: and whether it took it
    trusted,          \* auxiliary: base_real_time goes back to a report of
                      \* the RTC's true time, and the RTC was not set since
    timed,            \* auxiliary: timer milliseconds since that report
    refused           \* auxiliary: reports refused since

believed == <<millis, previous_millis, base_real_time, told>>
heard == <<report, accepted, trusted, timed, refused>>
vars == <<clock, sets, believed, heard>>

Real == clock \div SECOND

(* A report that is wrong by more than the slack.                          *)
Wrong(g, now) ==
    \/ g * SECOND > now + SLACK
    \/ g * SECOND + SLACK < now - SECOND
----------------------------------------------------------------------------
(* Defective variant: the difference of the timer is taken without its     *)
(* width.                                                                  *)
SinceUnbounded(m) == m - previous_millis

Since(m) == (m - previous_millis) % WORD

(* Defective variant: a reading as old as the last one is refused, and one *)
(* that is more than the interval, in seconds, ahead.                      *)
PlausibleTight(current) ==
    /\ (current - base_real_time) * SECOND <= RTC_POLL_INTERVAL
    /\ current > base_real_time

(* The sanity check.  A difference of seconds is compared with a limit in  *)
(* milliseconds.                                                           *)
Plausible(current) ==
    /\ current - base_real_time <= RTC_POLL_INTERVAL + SLACK
    /\ current >= base_real_time

(* Defective variant: previous_millis keeps its value when the report is   *)
(* refused.                                                                *)
RefuseKeepingPrevious(m) ==
    /\ base_real_time' = base_real_time + Since(m) \div SECOND
    /\ told' = base_real_time'
    /\ UNCHANGED previous_millis

Refuse(m) ==
    /\ base_real_time' = base_real_time + Since(m) \div SECOND
    /\ previous_millis' = m
    /\ told' = base_real_time'

Accept(current, m) ==
    /\ base_real_time' = current
    /\ previous_millis' = m
    /\ told' = current

(* The RTC answers current, which is honest or garbage.                    *)
Poll(kind, current, m, gap) ==
    /\ report' = kind /\ accepted' = Plausible(current)
    /\ IF Plausible(current)
       THEN /\ Accept(current, m)
            /\ trusted' = (kind = "honest")
            /\ timed' = 0 /\ refused' = 0
       ELSE /\ Refuse(m)
            /\ timed' = timed + gap /\ refused' = refused + 1
            /\ UNCHANGED trusted

(* The RTC counts t milliseconds while the timer counts gap.               *)
Drifts(gap, t) == (gap - t) * DRIFT <= gap /\ (t - gap) * DRIFT <= gap

TimeNow ==
    \E gap \in Gaps : \E t \in 0 .. 2 * gap :
        LET m == (millis + gap) % WORD
            now == clock + t
        IN /\ Drifts(gap, t)
           /\ now <= Horizon /\ clock' = now
           /\ millis' = m
           /\ IF Since(m) >= RTC_POLL_INTERVAL
              THEN \/ Poll("honest", now \div SECOND, m, gap)
                   \/ \E g \in Garbage :
                          Wrong(g, now) /\ Poll("garbage", g, m, gap)
              ELSE /\ told' = base_real_time + Since(m) \div SECOND
                   /\ report' = "none" /\ accepted' = FALSE
                   /\ timed' = timed + gap
                   /\ UNCHANGED <<previous_millis, base_real_time, trusted, refused>>
           /\ UNCHANGED sets

(* The timer starts at 0.  If the RTC is found and running, its report is  *)
(* believed whatever it is; if not, time begins at 0.                      *)
HALInitRTC ==
    /\ sets < MaxSets /\ sets' = sets + 1
    /\ millis' = 0 /\ previous_millis' = 0
    /\ \/ base_real_time' = Real /\ trusted' = TRUE
       \/ \E g \in Garbage : Wrong(g, clock) /\ base_real_time' = g /\ trusted' = FALSE
       \/ base_real_time' = 0 /\ trusted' = FALSE
    /\ told' = base_real_time'
    /\ report' = "none" /\ accepted' = FALSE
    /\ timed' = 0 /\ refused' = 0
    /\ UNCHANGED clock

(* The operator sets the RTC to the second s.  TimeNow is not told.        *)
Adjust(s) ==
    /\ sets < MaxSets /\ sets' = sets + 1
    /\ clock' = s * SECOND
    /\ trusted' = FALSE
    /\ report' = "none" /\ accepted' = FALSE
    /\ UNCHANGED <<believed, timed, refused>>

(* Another time of the same day, and the same time of another day.         *)
HALSetRTCTime(time) == Adjust((Real \div DAY) * DAY + time)
HALSetRTCDate(date) == Adjust(date * DAY + (Real % DAY))

RegSetTime == \E time \in 0 .. DAY - 1 : HALSetRTCTime(time)
RegSetDate == \E date \in 0 .. Horizon \div (DAY * SECOND) : HALSetRTCDate(date)

Init ==
    /\ clock \in 0 .. SECOND - 1
    /\ millis = 0 /\ previous_millis = 0
    /\ base_real_time = Real /\ told = Real
    /\ sets = 0
    /\ report = "none" /\ accepted = FALSE
    /\ trusted = TRUE /\ timed = 0 /\ refused = 0

Next == TimeNow \/ HALInitRTC \/ RegSetTime \/ RegSetDate

Spec == Init /\ [][Next]_vars
----------------------------------------------------------------------------
(* Properties.                                                             *)

(* Every variable keeps its type.                                          *)
TypeOK ==
    /\ clock \in Nat
    /\ millis \in 0 .. WORD - 1 /\ previous_millis \in 0 .. WORD - 1
    /\ base_real_time \in Nat /\ told \in Nat
    /\ sets \in Nat
    /\ report \in {"none", "honest", "garbage"}
    /\ accepted \in BOOLEAN /\ trusted \in BOOLEAN
    /\ timed \in Nat /\ refused \in Nat

(* As long as what TimeNow knows goes back to a true report, its answer is *)
(* off by no more than the drift of the timer since then, the fraction of  *)
(* a second that the report and the answer each drop, and one more for     *)
(* every report refused since: across wraps of the timer, and however many *)
(* polls it has refused.                                                   *)
TracksRTC ==
    trusted =>
        /\ (told * SECOND - clock) * DRIFT <= timed
        /\ (clock - told * SECOND) * DRIFT < timed + (2 + refused) * SECOND * DRIFT

(* Two successive polls are never so far apart, in true time, that the     *)
(* RTC's true time is refused: a run of garbage ends with the first honest *)
(* report, unless the drift since the last one outweighs the interval.     *)
HonestReportAccepted ==
    trusted /\ report = "honest" /\ timed <= DRIFT * (RTC_POLL_INTERVAL - SECOND)
        /\ 2 * timed + (1 + refused) * SECOND <= (RTC_POLL_INTERVAL + SLACK) * SECOND
        => accepted

(* Between two accepted reports and restarts, time does not run backwards: *)
(* a refused report never takes back an answer, nor does the timer's wrap. *)
MonotoneBetweenReports ==
    [][told' < told => accepted' \/ sets' # sets]_vars

(* The comment in TimeNow: "Sanity checks for when the RTC reports wrong   *)
(* time due for example to low battery state".                             *)
WrongReportRefused == report = "garbage" => ~accepted
=============================================================================
