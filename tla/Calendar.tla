------------------------------ MODULE Calendar ------------------------------
(***************************************************************************)
(* year_month_day (chain_conversions.hpp): the date of a day number and    *)
(* back.  Day 0 is 1970-01-01; an era is 400 years, and a year begins in   *)
(* March, so that the day a leap year adds is its last.                    *)
(***************************************************************************)
EXTENDS Integers

(* Within an era: the year of a day, and the day a year begins. *)
YearOfEra(doe) == (doe - doe \div 1460 + doe \div 36524 - doe \div 146096) \div 365
FirstOfYear(yoe) == 365 * yoe + yoe \div 4 - yoe \div 100

(* Within a year: the month of a day, counted from March, the day a month  *)
(* begins, and the number of the month in a date.                          *)
MonthFromMarch(doy) == (5 * doy + 2) \div 153
FirstOfMonth(mp) == (153 * mp + 2) \div 5
MonthNumber(mp) == IF mp < 10 THEN mp + 3 ELSE mp - 9

(* Faulty: every fourth year is a leap year. *)
from_days_julian(days) ==
    LET era == (days + 719468) \div 146097
        doe == days + 719468 - era * 146097
        yoe == (doe - doe \div 1460) \div 365
        doy == doe - (365 * yoe + yoe \div 4)
        mp  == MonthFromMarch(doy)
    IN  [y |-> yoe + era * 400 + (IF MonthNumber(mp) <= 2 THEN 1 ELSE 0),
         m |-> MonthNumber(mp),
         d |-> doy - FirstOfMonth(mp) + 1]

from_days(days) ==
    LET z   == days + 719468
        era == z \div 146097
        doe == z - era * 146097
        yoe == YearOfEra(doe)
        doy == doe - FirstOfYear(yoe)
        mp  == MonthFromMarch(doy)
        m   == MonthNumber(mp)
    IN  [y |-> yoe + era * 400 + (IF m <= 2 THEN 1 ELSE 0),
         m |-> m,
         d |-> doy - FirstOfMonth(mp) + 1]

(* Months and days out of range are not refused: they are counted on. *)
to_days(date) ==
    LET y   == date.y - (IF date.m <= 2 THEN 1 ELSE 0)
        era == y \div 400
        yoe == y - era * 400
        doy == FirstOfMonth(IF date.m > 2 THEN date.m - 3 ELSE date.m + 9) + date.d - 1
    IN  era * 146097 + (FirstOfYear(yoe) + doy) - 719468

----------------------------------------------------------------------------
(* The Gregorian calendar, a day at a time. *)
LeapYear(y) == y % 4 = 0 /\ (y % 100 # 0 \/ y % 400 = 0)

DaysOf(y, m) ==
    IF m = 2 THEN IF LeapYear(y) THEN 29 ELSE 28
    ELSE IF m \in {4, 6, 9, 11} THEN 30 ELSE 31

NextDate(date) ==
    IF date.d < DaysOf(date.y, date.m) THEN [date EXCEPT !.d = @ + 1]
    ELSE IF date.m < 12 THEN [y |-> date.y, m |-> date.m + 1, d |-> 1]
    ELSE [y |-> date.y + 1, m |-> 1, d |-> 1]

FollowsCalendar(day) ==
    from_days(day) = IF day = 0 THEN [y |-> 1970, m |-> 1, d |-> 1]
                     ELSE NextDate(from_days(day - 1))
=============================================================================
