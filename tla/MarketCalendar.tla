-------------------------- MODULE MarketCalendar ---------------------------
(* The exchange calendar of the manager: the full-day closures the scheduler  *)
(* gate and every source window rely on (scheduler.py), and the sessions the  *)
(* M03 input builder announces as events (model_03_event_impact_inputs.py).   *)
(* A date is the number of days since 0000-03-01, so that dates compare and   *)
(* subtract as integers; weekday 0 is Monday, as in the code.  The builder     *)
(* walks the calendar; here it does so month by month, within a year.         *)
EXTENDS FiniteSets, Integers

CONSTANTS FirstYear, LastYear    \* the years of the walk

VARIABLES year, month    \* the month the walk has reached, 13 at its end
calendarVars == <<year, month>>

Date(y, m, d) ==
    LET a == IF m <= 2 THEN y - 1 ELSE y
        n == (m + 9) % 12
    IN  365 * a + (a \div 4) - (a \div 100) + (a \div 400)
            + ((153 * n + 2) \div 5) + d - 1

Weekday(day) == (day + 2) % 7

FirstOf(y, m) == Date(y, m, 1)
NextMonth(y, m) == IF m = 12 THEN FirstOf(y + 1, 1) ELSE FirstOf(y, m + 1)
DaysOf(y, m) == FirstOf(y, m) .. NextMonth(y, m) - 1

-----------------------------------------------------------------------------
(* The closures.                                                              *)

NthWeekday(y, m, weekday, n) ==
    LET first == FirstOf(y, m)
    IN  first + ((weekday - Weekday(first)) % 7) + 7 * (n - 1)

LastWeekday(y, m, weekday) ==
    LET last == NextMonth(y, m) - 1
    IN  last - ((Weekday(last) - weekday) % 7)

Observed(y, m, d) ==
    LET actual == Date(y, m, d)
    IN  CASE Weekday(actual) = 5 -> actual - 1
          [] Weekday(actual) = 6 -> actual + 1
          [] OTHER -> actual

Easter(y) ==
    LET a == y % 19                        b == y \div 100
        c == y % 100                       g == (b - ((b + 8) \div 25) + 1) \div 3
        h == (19 * a + b - (b \div 4) - g + 15) % 30
        l == (32 + 2 * (b % 4) + 2 * (c \div 4) - h - (c % 4)) % 7
        n == h + l - 7 * ((a + 11 * h + 22 * l) \div 451) + 114
    IN  Date(y, n \div 31, (n % 31) + 1)

AdHocClosures == {<<2018, Date(2018, 12, 5)>>}

Holidays(y) ==
    {Observed(y, 1, 1), NthWeekday(y, 1, 0, 3), NthWeekday(y, 2, 0, 3), Easter(y) - 2,
     LastWeekday(y, 5, 0), Observed(y, 7, 4), NthWeekday(y, 9, 0, 1),
     NthWeekday(y, 11, 3, 4), Observed(y, 12, 25)}
    \cup (IF y >= 2022 THEN {Observed(y, 6, 19)} ELSE {})
    \cup {c[2] : c \in {c \in AdHocClosures : c[1] = y}}

Years == FirstYear - 1 .. LastYear + 1
HolidaysOf == [y \in Years |-> Holidays(y)]

\* A day is looked up in the closures of its own year only.
IsTradingDay(y, day) == Weekday(day) < 5 /\ day \notin HolidaysOf[y]

YearOf(day) == CHOOSE y \in Years : day \in FirstOf(y, 1) .. FirstOf(y + 1, 1) - 1

-----------------------------------------------------------------------------
(* The sessions announced to M03.                                             *)

FixedNames(y) ==
    <<<<Date(y, 1, 1), "new_year">>, <<Date(y, 6, 19), "juneteenth">>,
      <<Date(y, 7, 4), "independence">>, <<Date(y, 12, 25), "christmas">>>>

RuleName(m, weekday) ==
    CASE m = 1 /\ weekday = 0 -> "king"
      [] m = 2 /\ weekday = 0 -> "washington"
      [] m = 5 /\ weekday = 0 -> "memorial"
      [] m = 9 /\ weekday = 0 -> "labor"
      [] m = 11 /\ weekday = 3 -> "thanksgiving"
      [] m \in {3, 4} /\ weekday = 4 -> "good_friday"
      [] OTHER -> "unnamed"

HolidayName(y, m, day) ==
    LET near == {i \in 1 .. 4 : day - FixedNames(y)[i][1] \in -1 .. 1}
    IN  IF near # {} THEN FixedNames(y)[CHOOSE i \in near : \A j \in near : i <= j][2]
        ELSE RuleName(m, Weekday(day))

EarlyClose(y, day) ==
    /\ IsTradingDay(y, day)
    /\ \/ day = Date(y, 12, 24)
       \/ day = NthWeekday(y, 11, 3, 4) + 1
       \/ Weekday(Date(y, 7, 4)) = 1 /\ day = Date(y, 7, 3)
       \/ Weekday(Date(y, 7, 4)) = 3 /\ day = Date(y, 7, 5)

LastBefore(y, day) ==
    LET open == {e \in day - 10 .. day - 1 : IsTradingDay(YearOf(e), e)}
    IN  CHOOSE e \in open : \A f \in open : f <= e

NextOpen(day) ==
    LET open == {e \in day + 1 .. day + 10 : IsTradingDay(YearOf(e), e)}
    IN  CHOOSE e \in open : \A f \in open : e <= f

\* Mutant: the third Friday, even when the exchange is closed.
ThirdFriday(y, m) == NthWeekday(y, m, 4, 3)

ExpirationDay(y, m) ==
    LET friday == NthWeekday(y, m, 4, 1) + 14
    IN  IF IsTradingDay(y, friday) THEN friday ELSE LastBefore(y, friday)

LastTradingDay(y, m) == LastBefore(y, NextMonth(y, m))

\* The events of one day: their kinds, with the name of a closure.
SessionEvents(y, m, day) ==
    IF Weekday(day) >= 5 THEN {<<"weekend", "">>}
    ELSE IF ~IsTradingDay(y, day) THEN {<<"holiday", HolidayName(y, m, day)>>}
    ELSE (IF EarlyClose(y, day) THEN {<<"early_close", "">>} ELSE {})
         \cup (IF day = ExpirationDay(y, m)
               THEN {<<"expiration", "">>}
                    \cup (IF m \in {3, 6, 9, 12}
                          THEN {<<"triple_witching", "">>, <<"quarterly_rebalance", "">>} ELSE {})
               ELSE {})
         \cup (IF day = LastTradingDay(y, m) THEN {<<"month_end", "">>} ELSE {})

\* The events announced for a day of the month reached.
Sessions(day) == SessionEvents(year, month, day)

CalendarInit == year \in FirstYear .. LastYear /\ month = 1

Announce == month <= 12 /\ month' = month + 1 /\ year' = year

-----------------------------------------------------------------------------
(* Properties: the algorithms against independent definitions.                *)

\* The Gregorian paschal moon after the church's tables: the epact of the year,
\* not the arithmetic of scheduler.py:168.
PaschalMoon(y) ==
    LET golden == (y % 19) + 1
        century == (y \div 100) + 1
        solar == ((3 * century) \div 4) - 12
        lunar == ((8 * century + 5) \div 25) - 5
        epact == (11 * golden + 20 + lunar - solar) % 30
        moved == IF epact = 24 \/ (epact = 25 /\ golden > 11) THEN epact + 1 ELSE epact
        moon == 44 - moved
    IN  Date(y, 3, 1) - 1 + (IF moon < 21 THEN moon + 30 ELSE moon)

\* Easter is the first Sunday strictly after the paschal moon: Good Friday, the
\* closure derived from it, never slips a week.
EasterFollowsTheMoon == Weekday(Easter(year)) = 6 /\ Easter(year) - PaschalMoon(year) \in 1 .. 7

Orderly ==
    LET announced == [day \in DaysOf(year, month) |-> Sessions(day)]
        Days(kind) == {day \in DOMAIN announced : \E e \in announced[day] : e[1] = kind}
        opex == Days("expiration")
        last == Days("month_end")
    IN  /\ Cardinality(opex) = 1 /\ Cardinality(last) = 1
        /\ \A day \in opex :
              /\ IsTradingDay(year, day) /\ <<"early_close", "">> \notin announced[day]
              /\ \A e \in day + 1 .. NthWeekday(year, month, 4, 3) : ~IsTradingDay(year, e)
        /\ \A day \in last, e \in DOMAIN announced : e > day => ~IsTradingDay(year, e)
        /\ \A day \in DOMAIN announced :
              /\ <<"holiday", "unnamed">> \in announced[day] => <<year, day>> \in AdHocClosures
              /\ NextOpen(day) - day <= 4

\* The sessions announced to M03 are in order in every month: exactly one monthly
\* expiration, on the third Friday or on the trading day before it; exactly one
\* month end, after which no trading day of the month follows; a closed weekday
\* carries the name of the rule that closed it, the ad-hoc closures apart; and
\* a half day is never the day of the expiration; and the next open announced
\* with a day is at most four days away.  Easter is where the moon has it.
CalendarIsOrderly == [][Announce => EasterFollowsTheMoon /\ Orderly]_calendarVars
=============================================================================
