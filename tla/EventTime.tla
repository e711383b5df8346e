----------------------------- MODULE EventTime -----------------------------
(***************************************************************************)
(* The `ts' of an alert event (alerts.rs, iso8601_utc): a wall-clock time, *)
(* in days since 1970-01-01 and seconds of the day, as a UTC date and time *)
(* (the code's secs is 86400 * day + tod; a clock before 1970 reads as 0). *)
(* The reference is a calendar that knows nothing but how long a month is. *)
(***************************************************************************)
EXTENDS Integers

CONSTANT MaxDay     \* bound: the last day looked at

VARIABLES day, date    \* a day and its date in the reference calendar

calendarVars == <<day, date>>

-----------------------------------------------------------------------------
(* iso8601_utc: all divisions are of non-negative numbers *)

Date(y, m, d) == [year |-> y, month |-> m, day |-> d]

\* Mutant of CivilFromDays: the leap day of the 400th year is forgotten.
CivilFromDaysNo400(days) ==
    LET z == days + 719468
        era == z \div 146097
        doe == z - era * 146097
        yoe == (doe - doe \div 1460 + doe \div 36524) \div 365
        doy == doe - (365 * yoe + yoe \div 4 - yoe \div 100)
        mp == (5 * doy + 2) \div 153
        month == IF mp < 10 THEN mp + 3 ELSE mp - 9
    IN  Date(yoe + era * 400 + (IF month <= 2 THEN 1 ELSE 0),
             month,
             doy - (153 * mp + 2) \div 5 + 1)

CivilFromDays(days) ==
    LET z == days + 719468
        era == z \div 146097
        doe == z - era * 146097
        yoe == (doe - doe \div 1460 + doe \div 36524 - doe \div 146096) \div 365
        doy == doe - (365 * yoe + yoe \div 4 - yoe \div 100)
        mp == (5 * doy + 2) \div 153
        month == IF mp < 10 THEN mp + 3 ELSE mp - 9
    IN  Date(yoe + era * 400 + (IF month <= 2 THEN 1 ELSE 0),
             month,
             doy - (153 * mp + 2) \div 5 + 1)

-----------------------------------------------------------------------------
(* The reference calendar *)

Leap(y) == (y % 4 = 0 /\ y % 100 # 0) \/ y % 400 = 0

DaysIn(y, m) ==
    IF m = 2 THEN IF Leap(y) THEN 29 ELSE 28
    ELSE IF m \in {4, 6, 9, 11} THEN 30 ELSE 31

CalendarInit ==
    /\ day = 0
    /\ date = Date(1970, 1, 1)

Tomorrow(d) ==
    IF d.day < DaysIn(d.year, d.month) THEN Date(d.year, d.month, d.day + 1)
    ELSE IF d.month < 12 THEN Date(d.year, d.month + 1, 1)
    ELSE Date(d.year + 1, 1, 1)

CalendarNext ==
    /\ day < MaxDay
    /\ day' = day + 1
    /\ date' = Tomorrow(date)

CalendarSpec == CalendarInit /\ [][CalendarNext]_calendarVars

(***************************************************************************)
(* Every day's event carries that day's date: across month ends, leap      *)
(* years, the centuries that are none and the 400-year one.                *)
(***************************************************************************)
DateIsRight == CivilFromDays(day) = date
=============================================================================
