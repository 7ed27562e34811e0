----------------------------- MODULE Timestamp -----------------------------
(***************************************************************************)
(* timestamp (crates/ofw-cli/src/audit.rs): the time of an audit event is  *)
(* computed from the seconds since 1970 without a date library.  The clock *)
(* of the model counts days from the first day of some year on and keeps   *)
(* the date a calendar would show; the digits a date is written with are   *)
(* left out.                                                               *)
(***************************************************************************)
EXTENDS Integers

CONSTANTS
    Years,              \* bound: the years a clock may start in ...
    Seconds,            \* ... the time of day it shows ...
    MaxDays             \* ... and the days it runs

TimeOfDay == {s \in Nat : s < 86400}

ClockAssumption ==
    /\ \A y \in Years : y \in Nat /\ y >= 1970
    /\ Seconds \subseteq TimeOfDay
    /\ MaxDays \in Nat

VARIABLES
    days,               \* days since 1970-01-01
    seconds,            \* seconds since midnight
    date,               \* the date of the calendar
    ran                 \* days the clock has run

clockVars == <<days, seconds, date, ran>>

\* civil_from_days, of a count of days that is not negative: years begin in
\* March, so that the leap day ends one.  NoCenturies is the mutation that
\* takes every fourth year of an era for a leap year.
NoCenturies(day) == (day - day \div 1460) \div 365
YearOfEra(day) == (day - day \div 1460 + day \div 36524 - day \div 146096) \div 365

Civil(n) ==
    LET z == n + 719468
        era == z \div 146097
        dayOfEra == z % 146097
        yearOfEra == YearOfEra(dayOfEra)
        dayOfYear == dayOfEra - (365 * yearOfEra + yearOfEra \div 4 - yearOfEra \div 100)
        shifted == (5 * dayOfYear + 2) \div 153
        month == IF shifted < 10 THEN shifted + 3 ELSE shifted - 9
    IN  [year |-> yearOfEra + era * 400 + (IF month <= 2 THEN 1 ELSE 0),
         month |-> month,
         day |-> dayOfYear - (153 * shifted + 2) \div 5 + 1]

\* What is written of n days and a time of day in seconds, which the code
\* gets by dividing the elapsed seconds by 86400.
Written(n, time) ==
    [date |-> Civil(n), hour |-> time \div 3600,
     minute |-> (time % 3600) \div 60, second |-> time % 60]
-----------------------------------------------------------------------------
\* The calendar.
Leap(y) == y % 4 = 0 /\ (y % 100 # 0 \/ y % 400 = 0)
DaysIn(y, month) ==
    IF month = 2 THEN IF Leap(y) THEN 29 ELSE 28
    ELSE IF month \in {4, 6, 9, 11} THEN 30 ELSE 31
LeapYearsBefore(y) == (y - 1) \div 4 - (y - 1) \div 100 + (y - 1) \div 400

Tomorrow(d) ==
    IF d.day < DaysIn(d.year, d.month) THEN [d EXCEPT !.day = @ + 1]
    ELSE IF d.month < 12 THEN [year |-> d.year, month |-> d.month + 1, day |-> 1]
    ELSE [year |-> d.year + 1, month |-> 1, day |-> 1]

\* The epoch, or the first day of another year.
ClockInit ==
    /\ \E y \in Years :
          /\ days = 365 * (y - 1970) + LeapYearsBefore(y) - LeapYearsBefore(1970)
          /\ date = [year |-> y, month |-> 1, day |-> 1]
    /\ seconds \in Seconds
    /\ ran = 0

NextDay ==
    /\ ran < MaxDays
    /\ days' = days + 1
    /\ date' = Tomorrow(date)
    /\ ran' = ran + 1
    /\ UNCHANGED seconds

ClockSpec == ClockInit /\ [][NextDay]_clockVars

\* "an audit record whose timestamps drift is one whose ordering cannot be
\* trusted" (timestamp): the date and the time written are the calendar's, on
\* leap days, at the ends of months and of centuries.
WritesTheCalendar ==
    LET written == Written(days, seconds)
    IN  /\ written.date = date
        /\ written.hour * 3600 + written.minute * 60 + written.second = seconds
        /\ written.hour < 24 /\ written.minute < 60
=============================================================================
