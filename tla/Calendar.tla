------------------------------ MODULE Calendar ------------------------------
(***************************************************************************)
(* Days, months and the periods of a statistics screen                     *)
(* (services/statistics.py, the functions on periods).                     *)
(*                                                                         *)
(* A day is its number: day 0 is Monday, 1 January of year 1, as Python's  *)
(* ordinals count.  A month is the number _add_months calculates with,     *)
(* twelve times the year plus the month from zero.  A period is what a     *)
(* button carries: a word ("today", "week", "month", "previous_month"), a  *)
(* code ("d", "w" or "m" and a day), or anything else ("other").           *)
(***************************************************************************)
EXTENDS Integers, Sequences

Words == {"today", "week", "month", "previous_month", "d", "w", "m", "other"}
Period == [word : Words, at : Int]

Word(w) == [word |-> w, at |-> 0]

-----------------------------------------------------------------------------
(* The calendar of Python's datetime. *)

Leaps(y) == y \div 4 - y \div 100 + y \div 400

BeforeMonth == <<0, 31, 59, 90, 120, 151, 181, 212, 243, 273, 304, 334>>

\* The first day of a month.
FirstOf(i) ==
    LET y == i \div 12
        m == i % 12
    IN  365 * (y - 1) + BeforeMonth[m + 1]
          + Leaps(IF m >= 2 THEN y ELSE y - 1)

\* The month a day is in: 4800 months have 146097 days, and none is further
\* than one from where equal months would put it.
MonthOf(d) ==
    LET near == 4800 * (d \div 146097) + (4800 * (d % 146097)) \div 146097 + 12
    IN  CHOOSE i \in (near - 1) .. (near + 1) :
            FirstOf(i) <= d /\ d < FirstOf(i + 1)

-----------------------------------------------------------------------------
AddMonths(d, k) == FirstOf(MonthOf(d) + k)

KindStart(kind, d) ==
    CASE kind = "week"  -> d - (d % 7)
      [] kind = "month" -> FirstOf(MonthOf(d))
      [] kind = "day"   -> d

KindOfCode == [d |-> "day", w |-> "week", m |-> "month"]
CodeOfKind == [day |-> "d", week |-> "w", month |-> "m"]

Code(kind, d) == [word |-> CodeOfKind[kind], at |-> d]

\* What a period means on a day: its kind and its first day.
KindAndStart(p, today) ==
    CASE p.word = "week"  -> <<"week", KindStart("week", today)>>
      [] p.word = "month" -> <<"month", KindStart("month", today)>>
      [] p.word = "previous_month" ->
             <<"month", AddMonths(KindStart("month", today), -1)>>
      [] p.word \in DOMAIN KindOfCode ->
             <<KindOfCode[p.word], KindStart(KindOfCode[p.word], p.at)>>
      [] OTHER -> <<"day", today>>

PeriodKind(p, today) == KindAndStart(p, today)[1]

\* The last day of a period of a kind that begins on a day.
LastOf(kind, start) ==
    CASE kind = "day"   -> start
      [] kind = "week"  -> start + 6
      [] kind = "month" -> AddMonths(start, 1) - 1

\* The days a period sums up: none lies in the future.
PeriodBounds(p, today) ==
    LET start == KindAndStart(p, today)[2]
        last == LastOf(PeriodKind(p, today), start)
    IN  IF start > today THEN <<today, today>>
        ELSE <<start, IF last > today THEN today ELSE last>>

CanonicalPeriod(p, today) ==
    Code(PeriodKind(p, today), KindAndStart(p, today)[2])

\* The mistake of going on into the future.
ShiftedPeriodBeyond(p, step, today) ==
    LET kind == PeriodKind(p, today)
        start == KindAndStart(p, today)[2]
    IN  Code(kind, CASE kind = "day"   -> start + step
                     [] kind = "week"  -> start + 7 * step
                     [] kind = "month" -> AddMonths(start, step))

\* The period a number of steps later, at most the current one.
ShiftedPeriod(p, step, today) ==
    LET kind == PeriodKind(p, today)
        start == KindAndStart(p, today)[2]
        shifted == CASE kind = "day"   -> start + step
                     [] kind = "week"  -> start + 7 * step
                     [] kind = "month" -> AddMonths(start, step)
        current == KindStart(kind, today)
    IN  Code(kind, IF shifted > current THEN current ELSE shifted)

\* The mistake of overlooking the code.
MonthFromPeriodToday(p, today) == KindStart("month", today)

\* The month of a KPI screen, and the period its buttons start from.
MonthFromPeriod(p, today) ==
    KindStart("month", IF p.word = "m" THEN p.at ELSE today)

MonthPeriod(p, today) ==
    IF CanonicalPeriod(p, today).word = "m" THEN CanonicalPeriod(p, today)
    ELSE CanonicalPeriod(Word("month"), today)

\* The days a KPI screen names: a month, to today if it is the current one.
MonthBounds(start, today) ==
    <<start, IF MonthOf(start) = MonthOf(today) THEN today
             ELSE AddMonths(start, 1) - 1>>
=============================================================================
