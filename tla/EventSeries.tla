----------------------------- MODULE EventSeries -----------------------------
(***************************************************************************)
(* Creation of a recurring event series from one submitted form: the dates *)
(* of the generated events and the fields that move with them.             *)
(*                                                                         *)
(* Days are numbered from Sunday 1 January 2023, months from that January, *)
(* and times are hours: local ones from that day's midnight on the local   *)
(* clock, instants from its midnight UTC.  The event's time zone is given  *)
(* by its offsets.  Fields that hold local times (end, sessions, call for  *)
(* speakers, registration) are represented by ends; fields that hold       *)
(* instants (discount and price windows) by window.                        *)
(***************************************************************************)
EXTENDS Integers, Sequences

CONSTANTS
    Forms,      \* submitted forms
    Standard,   \* hours the zone is ahead of UTC in winter; one more in summer
    Summers,    \* summer times, as records of instants, from included, to not
    MaxMonths   \* bound: months searched for a monthly series

MAX_RECURRING_ADDITIONAL_OCCURRENCES == 12

VARIABLES
    form,     \* the submitted form
    series,   \* the events created, the base event first
    answer    \* of the request

seriesVars == <<form, series, answer>>

-----------------------------------------------------------------------------
(* Calendar (chrono), for 2023 to 2099 *)

Leap(month) == (2023 + (month \div 12)) % 4 = 0

DaysIn(month) ==
    CASE (month % 12) = 1 -> IF Leap(month) THEN 29 ELSE 28
      [] (month % 12) \in {3, 5, 8, 10} -> 30
      [] OTHER -> 31

\* The leap days before it are those of earlier years and of its own.
FirstDay(month) ==
    365 * (month \div 12) + (((month \div 12) + 2) \div 4)
    + <<0, 31, 59, 90, 120, 151, 181, 212, 243, 273, 304, 334>>[(month % 12) + 1]
    + IF Leap(month) /\ (month % 12) > 1 THEN 1 ELSE 0

Weekday(day) == (day + 6) % 7   \* days from Monday

MonthOf(day) == CHOOSE m \in (day \div 31)..(day \div 28) : day \in FirstDay(m)..(FirstDay(m) + DaysIn(m) - 1)

\* The first, second, ... fifth of its weekday in its month.
Ordinal(day) == ((day - FirstDay(MonthOf(day))) \div 7) + 1

DayOf(time) == time \div 24

-----------------------------------------------------------------------------
(* Time zone (chrono_tz) *)

OffsetAt(instant) ==
    IF \E s \in Summers : s.from <= instant /\ instant < s.to THEN Standard + 1 ELSE Standard

LocalOf(instant) == instant + OffsetAt(instant)

\* None in the gap of spring, two in the repeated hour of autumn.
Instants(local) == {i \in {local - Standard, local - Standard - 1} : LocalOf(i) = local}

-----------------------------------------------------------------------------
(* Occurrences *)

NthWeekdayInMonth_Overflows(month, weekday, ordinal) ==   \* mutant: the month is not looked at
    LET offset == (7 + weekday - Weekday(FirstDay(month))) % 7
    IN {FirstDay(month) + offset + (ordinal - 1) * 7}

\* The day, if the month has that many of the weekday.
NthWeekdayInMonth(month, weekday, ordinal) ==
    LET offset == (7 + weekday - Weekday(FirstDay(month))) % 7
        day == FirstDay(month) + offset + (ordinal - 1) * 7
    IN IF day < FirstDay(month) + DaysIn(month) THEN {day} ELSE {}

\* Months that lack the ordinal weekday are skipped.
MonthlyOccurrences(start, n) ==
    LET base == DayOf(start)
        In(month) == NthWeekdayInMonth(month, Weekday(base), Ordinal(base))
        months == SelectSeq([i \in 1..MaxMonths |-> MonthOf(base) + i], LAMBDA m : In(m) # {})
    IN [i \in 1..n |-> (CHOOSE d \in In(months[i]) : TRUE) * 24 + (start % 24)]

OccurrenceStartTimes(f) ==
    CASE f.pattern = "weekly" -> [i \in 1..f.additional |-> f.start + i * 7 * 24]
      [] f.pattern = "biweekly" -> [i \in 1..f.additional |-> f.start + 2 * i * 7 * 24]
      [] f.pattern = "monthly" -> MonthlyOccurrences(f.start, f.additional)

-----------------------------------------------------------------------------
(* Payloads *)

\* The earlier instant of a repeated hour.
ToUtc(local) == {i \in Instants(local) : \A j \in Instants(local) : i <= j}

\* The same time on the local clock; in a gap, the same distance in time.
ShiftPreservingWallTime(instant, delta) ==
    LET shifted == ToUtc(LocalOf(instant) + delta)
    IN IF shifted = {} THEN instant + delta ELSE CHOOSE i \in shifted : TRUE

ShiftLocal(time, delta) == time + delta

ShiftWindow(window, delta) == [w \in DOMAIN window |-> ShiftPreservingWallTime(window[w], delta)]

\* New identifiers for the ticket types, price windows and discount codes of
\* the n-th occurrence; the base event keeps those of the form (0).
RefreshTicketingIds(n) == n

Payload(f) == [start |-> f.start, ends |-> f.ends, window |-> f.window, ids |-> 0]

OccurrencePayload(f, n) ==
    LET start == OccurrenceStartTimes(f)[n]
        delta == start - f.start
    IN [start |-> start,
        ends |-> ShiftLocal(f.ends, delta),
        window |-> ShiftWindow(f.window, delta),
        ids |-> RefreshTicketingIds(n)]

\* A number of occurrences out of range, or no start (0), is refused.
FormValid(f) ==
    \/ f.pattern = "just-once"
    \/ f.additional \in 1..MAX_RECURRING_ADDITIONAL_OCCURRENCES /\ f.start # 0

SeriesOf(f) ==
    IF f.pattern = "just-once" THEN <<Payload(f)>>
    ELSE <<Payload(f)>> \o [n \in 1..f.additional |-> OccurrencePayload(f, n)]

\* The handler: all events of the series in one transaction, or none.
AddEvents ==
    /\ answer = "none"
    /\ \/ FormValid(form) /\ series' = SeriesOf(form) /\ answer' = "created"
       \/ ~FormValid(form) /\ answer' = "refused" /\ UNCHANGED series
    /\ UNCHANGED form

SeriesInit == form \in Forms /\ series = <<>> /\ answer = "none"

SeriesNext == AddEvents

-----------------------------------------------------------------------------
(* Properties *)

\* The days of the series up to a last one, counted on the calendar.
DaysInPattern(f, last) ==
    LET base == DayOf(f.start)
        nth == Ordinal(base)
    IN {day \in (base + 1)..last :
          /\ Weekday(day) = Weekday(base)
          /\ f.pattern = "biweekly" => (day - base) % 14 = 0
          /\ f.pattern = "monthly" => Ordinal(day) = nth}

\* The generated events fall on the next days of the pattern, in order and
\* without leaving one out, at the time of the base event; everything
\* scheduled with them keeps its distance on the local clock, up to the hour
\* that summer time takes away; no two share their ticketing identifiers
\* (recurrence.rs, from_event).
SeriesIsRegular ==
    answer = "created" /\ form.pattern # "just-once" =>
        LET later == Tail(series)
            days == {DayOf(later[i].start) : i \in DOMAIN later}
            last == DayOf(series[Len(series)].start)
        IN /\ Len(later) = form.additional
           /\ \A i, j \in DOMAIN series :
                i < j => series[i].start < series[j].start /\ series[i].ids # series[j].ids
           /\ days = DaysInPattern(form, last)
           /\ \A i \in DOMAIN later :
                LET delta == later[i].start - form.start IN
                /\ delta % 24 = 0
                /\ later[i].ends = form.ends + delta
                /\ \A w \in DOMAIN form.window :
                     LET local == LocalOf(form.window[w]) + delta
                         drift == LocalOf(later[i].window[w]) - local
                     IN IF Instants(local) = {} THEN drift \in {-1, 1} ELSE drift = 0
=============================================================================
