------------------------------ MODULE Calendar ------------------------------
(***************************************************************************)
(* The day and month lists of src/shares/helpers/utils.ts: getDates and    *)
(* getMonths step through the local calendar of the process and print the  *)
(* calendar of Singapore.  Instants are hours, days and months are         *)
(* numbers; a printed day or month is told by its number.                  *)
(***************************************************************************)
EXTENDS Integers, Sequences

CONSTANTS
    Zones,      \* local time zones: [standard: offset of standard time, summer
                \* time is one hour more from the instant spring to before autumn]
    StartDates, EndDates,   \* arguments of the calls, instants
    LastMonth,  \* bound: months 0..LastMonth
    MonthStart  \* first day of each month

ASSUME CalendarAssumption ==
    /\ Zones # {}
    /\ \A z \in Zones : z.standard \in -12..14 /\ z.spring \in Int /\ z.autumn \in Int
    /\ StartDates \subseteq Int /\ EndDates \subseteq Int
    /\ LastMonth \in Nat \ {0}
    /\ MonthStart \in [0..LastMonth -> Int]
    /\ \A m \in 0..(LastMonth - 1) : MonthStart[m + 1] - MonthStart[m] \in 28..31
    /\ \A m, n \in 0..LastMonth : m < n => MonthStart[m] < MonthStart[n]
    /\ \A day \in MonthStart[0]..(MonthStart[LastMonth] - 1) :
        \E m \in 0..(LastMonth - 1) : MonthStart[m] <= day /\ day < MonthStart[m + 1]
    \* The dates keep a day from the first of the months, a month from the last.
    /\ \A t \in StartDates \cup EndDates :
        t \div 24 \in (MonthStart[0] + 1)..(MonthStart[LastMonth - 1] - 2)

VARIABLES
    listing,    \* "idle", "dates" or "months" while the loop runs, then "datesDone",
                \* "monthsDone"
    zone,
    startDate, endDate, currentDate,
    dates,      \* the array of getDates
    months      \* the array of getMonths

calendarVars == <<listing, zone, startDate, endDate, currentDate, dates, months>>

\* Day and hour in Singapore.
SgDay(t) == (t + 8) \div 24
SgHour(t) == (t + 8) % 24

\* Type invariant.
CalendarTypeOK ==
    /\ listing \in {"idle", "dates", "months", "datesDone", "monthsDone"}
    /\ zone \in Zones
    /\ startDate \in Int /\ endDate \in Int /\ currentDate \in Int
    /\ dates \in Seq(SgDay(startDate)..SgDay(endDate))
    /\ months \in Seq(0..LastMonth)

CalendarInit ==
    /\ listing = "idle" /\ zone = CHOOSE z \in Zones : TRUE
    /\ startDate = 0 /\ endDate = 0 /\ currentDate = 0
    /\ dates = <<>> /\ months = <<>>

-----------------------------------------------------------------------------
(* The clocks.                                                              *)

Summer(z, t) == z.spring <= t /\ t < z.autumn

\* Wall clock of the process at an instant.
Local(z, t) == t + z.standard + (IF Summer(z, t) THEN 1 ELSE 0)

\* Instant of a wall clock time: the earlier of two, and the offset before
\* the transition for one that the clock skips.
ToInstant(z, w) ==
    IF Summer(z, w - z.standard - 1) THEN w - z.standard - 1 ELSE w - z.standard

MonthOf(day) ==
    CHOOSE m \in 0..(LastMonth - 1) : MonthStart[m] <= day /\ day < MonthStart[m + 1]

-----------------------------------------------------------------------------
(* The loops.                                                               *)

\* The local date with the UTC setter.
BugNextDate(z, t) == 24 * (Local(z, t) \div 24 + 1) + (t % 24)

\* currentDate.setDate(currentDate.getDate() + 1)
NextDate(z, t) == ToInstant(z, Local(z, t) + 24)

\* currentDate.setMonth(currentDate.getMonth() + 1): the same day of the
\* next month, and on into the one after when that is too short.
NextMonth(z, t) ==
    LET wall == Local(z, t)
        day == wall \div 24
        m == MonthOf(day)
    IN  ToInstant(z, 24 * (MonthStart[m + 1] + day - MonthStart[m]) + (wall % 24))

\* currentDate < new Date(endDate)
BugListed(t, end) == t < end

Listed(t, end) == t <= end

CallDates ==
    /\ listing = "idle" /\ listing' = "dates"
    /\ zone' \in Zones /\ startDate' \in StartDates /\ endDate' \in EndDates
    /\ currentDate' = startDate'
    /\ UNCHANGED <<dates, months>>

CallMonths ==
    /\ listing = "idle" /\ listing' = "months"
    /\ zone' \in Zones /\ startDate' \in StartDates /\ endDate' \in EndDates
    /\ currentDate' = startDate'
    /\ UNCHANGED <<dates, months>>

ListDate ==
    /\ listing = "dates" /\ Listed(currentDate, endDate)
    /\ dates' = Append(dates, SgDay(currentDate))
    /\ currentDate' = NextDate(zone, currentDate)
    /\ UNCHANGED <<listing, zone, startDate, endDate, months>>

ListMonth ==
    /\ listing = "months" /\ Listed(currentDate, endDate)
    /\ LET month == MonthOf(SgDay(currentDate))
       IN  months' = IF \E i \in 1..Len(months) : months[i] = month
                     THEN months ELSE Append(months, month)
    /\ currentDate' = NextMonth(zone, currentDate)
    /\ UNCHANGED <<listing, zone, startDate, endDate, dates>>

ReturnDates ==
    /\ listing = "dates" /\ ~Listed(currentDate, endDate)
    /\ listing' = "datesDone"
    /\ UNCHANGED <<zone, startDate, endDate, currentDate, dates, months>>

ReturnMonths ==
    /\ listing = "months" /\ ~Listed(currentDate, endDate)
    /\ listing' = "monthsDone"
    /\ UNCHANGED <<zone, startDate, endDate, currentDate, dates, months>>

CalendarNext ==
    CallDates \/ CallMonths \/ ListDate \/ ListMonth \/ ReturnDates \/ ReturnMonths

CalendarSpec == CalendarInit /\ [][CalendarNext]_calendarVars

-----------------------------------------------------------------------------
(* Properties.                                                              *)

Consecutive(s) == \A i \in 1..(Len(s) - 1) : s[i + 1] = s[i] + 1

Steady(z) == z.spring >= z.autumn

\* Day of the month of the wall clock, from 0, and hour of that month.
LocalMonth(t) == MonthOf(Local(zone, t) \div 24)
HourOfMonth(t) == Local(zone, t) - 24 * MonthStart[LocalMonth(t)]
Midmonth(t) == HourOfMonth(t) \in 24..(27 * 24 - 1)

\* The days are listed without a gap or a repetition although local days of 23
\* and 25 hours are counted: at least when the start is not within an hour of
\* midnight in Singapore.
DatesConsecutive == Steady(zone) \/ SgHour(startDate) \in 1..22 => Consecutive(dates)

\* The list ends with the day of the end date, or with the day before when
\* the end comes earlier in its day than the start in its own.
LastDateListed ==
    listing = "datesDone" /\ Steady(zone) /\ startDate <= endDate =>
        /\ dates # <<>>
        /\ dates[Len(dates)] =
              SgDay(endDate) - (IF SgHour(endDate) >= SgHour(startDate) THEN 0 ELSE 1)

\* getDates lists every day of Singapore from the start to the end, under the
\* conditions of the two formulas above.
DatesListed == DatesConsecutive /\ LastDateListed

\* The months are listed without a gap when the start is neither so late in a
\* local month that a shorter one cannot have its day, nor so near an end
\* of it that Singapore is in another month.
MonthsConsecutive == Len(months) > 1 /\ Midmonth(startDate) => Consecutive(months)

\* Then the list ends with the month of the end date, or with the one before
\* when the end comes earlier in its month than the start in its own.
LastMonthListed ==
    listing = "monthsDone" /\ Steady(zone) /\ Midmonth(startDate) /\ startDate <= endDate =>
        /\ months # <<>>
        /\ months[Len(months)] =
              LocalMonth(endDate)
                  - (IF HourOfMonth(endDate) >= HourOfMonth(startDate) THEN 0 ELSE 1)

\* getMonths lists every month of Singapore from the start to the end, under the
\* conditions of the two formulas above.
MonthsListed == MonthsConsecutive /\ LastMonthListed

=============================================================================
