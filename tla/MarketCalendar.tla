--------------------------- MODULE MarketCalendar ---------------------------
(***************************************************************************)
(* src/desk/watch/calendar.py: sessions, the phase of the market, futures  *)
(* hours and the dates of weekly releases.  A moment is a number of ticks, *)
(* a day a number of days; day 0 is a Monday.  The exchange's own schedule *)
(* is given: the days it trades and when each session ends.                *)
(***************************************************************************)
EXTENDS Integers, FiniteSets, FiniteSetsExt

CONSTANTS
    DayLen,         \* ticks of a day
    TradingDays,    \* days with an NYSE session
    SessionOpen,    \* clock at which a session opens
    SessionClose,   \* [TradingDays -> Nat]: clock at which it closes, half-days early
    PreOpen,        \* extended_hours.pre_open
    PostClose,      \* extended_hours.post_close
    BreakFrom,      \* FUTURES_DAILY_BREAK
    BreakTo

ASSUME CalendarAssumption ==
    /\ DayLen \in Nat \ {0} /\ TradingDays \subseteq Int
    /\ SessionClose \in [TradingDays -> Nat]
    /\ {SessionOpen, PreOpen, PostClose, BreakFrom, BreakTo} \subseteq Nat

Day(t) == t \div DayLen
Clock(t) == t % DayLen
Weekday(d) == d % 7

IsTradingDay(d) == d \in TradingDays
OpenOf(d) == d * DayLen + SessionOpen
CloseOf(d) == d * DayLen + SessionClose[d]

\* add_trading_days: next_trading_day, count times.  The schedule has to reach
\* that far, as the cached one does.
AddTradingDays(d, count) ==
    CHOOSE e \in TradingDays :
        e > d /\ Cardinality({x \in TradingDays : d < x /\ x <= e}) = count

NextTradingDay(d) == AddTradingDays(d, 1)

Phase(t) ==
    LET d == Day(t) IN
    IF ~IsTradingDay(d) THEN "closed"
    ELSE IF OpenOf(d) <= t /\ t < CloseOf(d) THEN "regular"
    ELSE IF PreOpen <= Clock(t) /\ t < OpenOf(d) THEN "pre"
    ELSE IF CloseOf(d) <= t /\ Clock(t) < PostClose THEN "post"
    ELSE "closed"

\* The weekday whose session trades at t: after the break the next one.
FuturesDay(t) ==
    LET d == IF Clock(t) < BreakFrom THEN Day(t) ELSE Day(t) + 1
    IN  IF Weekday(d) >= 5 THEN d + 7 - Weekday(d) ELSE d

\* Sunday opens at the end of the break, whatever day Monday is.
FuturesOpen(t) ==
    LET weekday == Weekday(Day(t)) IN
    \/ weekday = 6 /\ Clock(t) >= BreakTo
    \/ /\ weekday < 5 /\ (weekday = 4 => Clock(t) < BreakFrom)
       /\ ~(BreakFrom <= Clock(t) /\ Clock(t) < BreakTo)
       /\ IsTradingDay(FuturesDay(t))

\* The day a weekly release comes out in the week that starts on monday.
HolidayBefore(monday, weekday) == \E k \in 0 .. weekday : ~IsTradingDay(monday + k)

ReleaseDay(monday, release) ==
    LET scheduled == monday + release.weekday IN
    IF ~HolidayBefore(monday, release.weekday) THEN scheduled
    ELSE IF release.shift = "next_monday" THEN NextTradingDay(monday + 6)
    ELSE NextTradingDay(scheduled)

\* weekly_release_events: the weeks from the one start is in to the one end is in.
ReleaseEvents(start, end, release) ==
    LET mondays == {d \in (start - Weekday(start)) .. end : Weekday(d) = 0}
    IN  {ReleaseDay(m, release) : m \in mondays} \cap (start .. end)
=============================================================================
