-------------------------------- MODULE Calendar --------------------------------
(***************************************************************************)
(* The calendar of a subscription: where its periods end and which dates   *)
(* are its boundaries.  Billing steps from one period to the next, pausing *)
(* and the pages look boundaries up from the anchor; both have to mean the *)
(* same dates.  A date is a day number (all dates of a subscription share  *)
(* their time of day) and a month counts from January of a year that is a  *)
(* multiple of 400; the calendar is the Gregorian one.                     *)
(***************************************************************************)
EXTENDS Integers, FiniteSets

CONSTANTS Intervals, \* the intervals of the plans that are on sale
          Anchors,   \* dates on which a subscription may begin
          Waits,     \* days after the paused boundary for which a resumption is asked
          LastMonth  \* bound on the calendar

ASSUME CalendarAssumption ==
  /\ Intervals \subseteq {"WEEKLY", "MONTHLY", "QUARTERLY", "YEARLY"}
  /\ Anchors \subseteq Nat /\ Waits \subseteq Nat

VARIABLES anchor,    \* Subscription.billingAnchor
          interval,  \* of its plan
          start,     \* first day of the next period to bill
          before     \* history: the start before that, or the anchor

calendarVars == <<anchor, interval, start, before>>

Least(a, b) == IF a < b THEN a ELSE b
Leap(y) == y % 4 = 0 /\ (y % 100 = 0 => y % 400 = 0)
MonthLength(m) ==
  IF m % 12 = 1 THEN IF Leap(m \div 12) THEN 29 ELSE 28
  ELSE IF m % 12 \in {3, 5, 8, 10} THEN 30 ELSE 31
LeapsBefore(y) == ((y + 3) \div 4) - ((y + 99) \div 100) + ((y + 399) \div 400)
FirstDay(m) ==
  LET y == m \div 12
  IN 365 * y + LeapsBefore(y) + <<0, 31, 59, 90, 120, 151, 181, 212, 243, 273, 304, 334>>[(m % 12) + 1]
     + (IF Leap(y) /\ m % 12 > 1 THEN 1 ELSE 0)
MonthOf(date) ==
  CHOOSE m \in date \div 31 .. date \div 28 : FirstDay(m) <= date /\ date < FirstDay(m + 1)
DayOf(date) == date - FirstDay(MonthOf(date)) + 1

IntervalMonths == [MONTHLY |-> 1, QUARTERLY |-> 3, YEARLY |-> 12]
ClampToMonthDay(month, day) == FirstDay(month) + Least(day, MonthLength(month)) - 1

(* Mutant of PeriodEnd: the anchor's day is lost in a short month.         *)
PeriodEndDrifting(i, date, anchorDay) ==
  IF i = "WEEKLY" THEN date + 7
  ELSE ClampToMonthDay(MonthOf(date) + IntervalMonths[i], DayOf(date))
PeriodEnd(i, date, anchorDay) ==
  IF i = "WEEKLY" THEN date + 7
  ELSE ClampToMonthDay(MonthOf(date) + IntervalMonths[i], anchorDay)

BoundaryAt(a, i, index) ==
  IF i = "WEEKLY" THEN a + 7 * index
  ELSE ClampToMonthDay(MonthOf(a) + index * IntervalMonths[i], DayOf(a))
FirstIndex(a, i, date) ==
  IF date <= a THEN 0
  ELSE LET index == IF i = "WEEKLY" THEN (date - a) \div 7
                    ELSE (MonthOf(date) - MonthOf(a)) \div IntervalMonths[i]
       IN IF BoundaryAt(a, i, index) < date THEN index + 1 ELSE index
FirstBoundaryOnOrAfter(a, i, date) == BoundaryAt(a, i, FirstIndex(a, i, date))
IsBoundary(a, i, date) == FirstBoundaryOnOrAfter(a, i, date) = date

CalendarInit ==
  /\ anchor \in Anchors /\ interval \in Intervals
  /\ start = anchor /\ before = anchor

InCalendar == MonthOf(start) + 24 < LastMonth

IssuePeriod ==
  /\ InCalendar
  /\ start' = PeriodEnd(interval, start, DayOf(anchor)) /\ before' = start
  /\ UNCHANGED <<anchor, interval>>

(* validateResume: a paused subscription goes on at a boundary.            *)
Resume(date) ==
  /\ InCalendar
  /\ start' = FirstBoundaryOnOrAfter(anchor, interval, date)
  /\ before' = IF start' > start THEN date - 1 ELSE before
  /\ UNCHANGED <<anchor, interval>>

(* A change to a plan of another interval starts its own count.            *)
SwitchCycle(i) ==
  /\ i # interval /\ InCalendar
  /\ interval' = i /\ anchor' = start /\ before' = start
  /\ UNCHANGED start

CalendarNext ==
  \/ IssuePeriod
  \/ \E days \in Waits : Resume(start + days)
  \/ \E i \in Intervals : SwitchCycle(i)

CalendarSpec == CalendarInit /\ [][CalendarNext]_calendarVars

(* A period starts on the anchor's day, or on the last day of a month that *)
(* has no such day, and never drifts from it; and the boundary looked up   *)
(* for each date since the start before is that same start (periodEnd      *)
(* against firstBoundaryOnOrAfter, isBoundary).                            *)
PeriodsKeepTheAnchor ==
  /\ interval # "WEEKLY" =>
       DayOf(start) = Least(DayOf(anchor), MonthLength(MonthOf(start)))
  /\ \A date \in before + 1 .. start : FirstBoundaryOnOrAfter(anchor, interval, date) = start
  /\ IsBoundary(anchor, interval, start)
================================================================================
