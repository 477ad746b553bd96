------------------------------ MODULE Schedule -------------------------------
(***************************************************************************)
(* Cron schedules (task/task.go): what a field of a spec stands for, and   *)
(* Schedule.Next, one round of one of its loops at a time.  Time is a      *)
(* number of seconds of a small calendar: two seconds to a minute, two     *)
(* minutes to an hour, two hours to a day, a month of three days and one   *)
(* of two, a week of three days; no daylight saving.                       *)
(***************************************************************************)
EXTENDS Integers, FiniteSetsExt

CONSTANT YearLimit    \* the years Next looks ahead (5 in the code)

VARIABLES spec,    \* Schedule: a set of values and a star bit for each field
          from,    \* the time Next was called with
          t,       \* the time it has come to
          added,   \* added
          loop     \* the loop it is in

scheduleVars == <<spec, from, t, added, loop>>

Bounds == [second |-> [min |-> 0, max |-> 1], minute |-> [min |-> 0, max |-> 1],
           hour |-> [min |-> 0, max |-> 1], day |-> [min |-> 1, max |-> 3],
           month |-> [min |-> 1, max |-> 2], week |-> [min |-> 0, max |-> 2]]
MinuteLen == 2
HourLen == 4
DayLen == 8
YearDays == 5
YearLen == YearDays * DayLen

Year(x) == x \div YearLen
YearDay(x) == (x \div DayLen) % YearDays            \* 0 .. 4
Month(x) == IF YearDay(x) < 3 THEN 1 ELSE 2
Day(x) == IF YearDay(x) < 3 THEN YearDay(x) + 1 ELSE YearDay(x) - 2
Weekday(x) == (x \div DayLen) % 3
Hour(x) == (x \div HourLen) % 2
Minute(x) == (x \div MinuteLen) % 2
Second(x) == x % 2

DayStart(x) == x - (x % DayLen)
MonthStart(x) == DayStart(x) - (Day(x) - 1) * DayLen
NextMonth(x) == x + (IF Month(x) = 1 THEN 3 ELSE 2) * DayLen

-----------------------------------------------------------------------------
(* Specs.  An expression is "*", a value or a range, each with a step.     *)

\* getBits.
GetBits(min, max, step) == {i \in min .. max : (i - min) % step = 0}

\* getRange; a single value with a step reaches to the end.  What it refuses
\* (a range outside the bounds or upside down) makes no schedule.
GetRange(e, r) ==
  LET low == IF e.star THEN r.min ELSE e.low
      high == IF e.star \/ (e.single /\ e.step > 1) THEN r.max ELSE IF e.single THEN e.low ELSE e.high
  IN  [bits |-> GetBits(low, high, e.step), star |-> e.star]

Exprs(r) ==
  {[star |-> TRUE, single |-> FALSE, low |-> r.min, high |-> r.max, step |-> 1]}
  \cup {[star |-> FALSE, single |-> TRUE, low |-> v, high |-> v, step |-> s] : v \in r.min .. r.max, s \in {1, 2}}

\* getField: the ranges of a list together.
GetField(es, r) ==
  [bits |-> UNION {GetRange(e, r).bits : e \in es}, star |-> \E e \in es : GetRange(e, r).star]

Fields(r) == {GetField({e}, r) : e \in Exprs(r)}

\* all, and the bit of the first value.
All(r) == [bits |-> GetBits(r.min, r.max, 1), star |-> TRUE]
First(r) == [bits |-> {r.min}, star |-> FALSE]

\* parseSpec: "@yearly", "@monthly", "@weekly", "@daily", "@hourly".
ParseSpec ==
  LET base == [second |-> First(Bounds.second), minute |-> First(Bounds.minute), hour |-> First(Bounds.hour),
               day |-> All(Bounds.day), month |-> All(Bounds.month), week |-> All(Bounds.week)]
      monthly == [base EXCEPT !.day = First(Bounds.day)]
  IN  {base, monthly, [monthly EXCEPT !.month = First(Bounds.month)],
       [base EXCEPT !.week = First(Bounds.week)], [base EXCEPT !.hour = All(Bounds.hour)]}

\* parse: six fields.  The specs of an instance leave the seconds to lists.
Parse ==
  [second : {All(Bounds.second), First(Bounds.second)}, minute : Fields(Bounds.minute), hour : Fields(Bounds.hour),
   day : Fields(Bounds.day) \cup {GetField(Exprs(Bounds.day) \ {e}, Bounds.day) : e \in Exprs(Bounds.day)},
   month : Fields(Bounds.month), week : Fields(Bounds.week)]

-----------------------------------------------------------------------------
(* Next.                                                                   *)

\* dayMatches.
DayMatches(x) ==
  IF spec.day.star \/ spec.week.star
  THEN Day(x) \in spec.day.bits /\ Weekday(x) \in spec.week.bits
  ELSE Day(x) \in spec.day.bits \/ Weekday(x) \in spec.week.bits

Init ==
  /\ spec \in Parse \cup ParseSpec
  /\ from \in 0 .. YearLen - 1
  /\ t = from + 1 /\ added = FALSE /\ loop = "wrap"

Step(time, to) == t' = time /\ loop' = to /\ added' = TRUE /\ UNCHANGED <<spec, from>>
Go(to) == loop' = to /\ UNCHANGED <<spec, from, t, added>>

Wrap == loop = "wrap" /\ Go(IF Year(t) > Year(from + 1) + YearLimit THEN "none" ELSE "month")

MonthLoop ==
  /\ loop = "month"
  /\ IF Month(t) \in spec.month.bits THEN Go("day")
     ELSE LET u == NextMonth(IF added THEN t ELSE MonthStart(t))
          IN  Step(u, IF Month(u) = 1 THEN "wrap" ELSE "month")

DayLoop ==
  /\ loop = "day"
  /\ IF DayMatches(t) THEN Go("hour")
     ELSE LET u == (IF added THEN t ELSE DayStart(t)) + DayLen
          IN  Step(u, IF Day(u) = 1 THEN "wrap" ELSE "day")

HourLoop ==
  /\ loop = "hour"
  /\ IF Hour(t) \in spec.hour.bits THEN Go("minute")
     ELSE LET u == (IF added THEN t ELSE t - (t % HourLen)) + HourLen
          IN  Step(u, IF Hour(u) = 0 THEN "wrap" ELSE "hour")

\* Mutant: the minutes run on into the next hour.
MinuteLoopRunsOn ==
  /\ loop = "minute"
  /\ IF Minute(t) \in spec.minute.bits THEN Go("second")
     ELSE Step((IF added THEN t ELSE t - (t % MinuteLen)) + MinuteLen, "minute")

MinuteLoop ==
  /\ loop = "minute"
  /\ IF Minute(t) \in spec.minute.bits THEN Go("second")
     ELSE LET u == (IF added THEN t ELSE t - (t % MinuteLen)) + MinuteLen
          IN  Step(u, IF Minute(u) = 0 THEN "wrap" ELSE "minute")

SecondLoop ==
  /\ loop = "second"
  /\ IF Second(t) \in spec.second.bits THEN Go("done")
     ELSE Step(t + 1, IF Second(t + 1) = 0 THEN "wrap" ELSE "second")

Next == Wrap \/ MonthLoop \/ DayLoop \/ HourLoop \/ MinuteLoop \/ SecondLoop

Spec == Init /\ [][Next]_scheduleVars

-----------------------------------------------------------------------------
(* Properties.                                                             *)

\* The times a schedule stands for: both day fields if one of them is a star,
\* either otherwise.
Matches(x) ==
  /\ Second(x) \in spec.second.bits /\ Minute(x) \in spec.minute.bits /\ Hour(x) \in spec.hour.bits
  /\ Month(x) \in spec.month.bits
  /\ LET dom == Day(x) \in spec.day.bits
         dow == Weekday(x) \in spec.week.bits
     IN  IF spec.day.star \/ spec.week.star THEN dom /\ dow ELSE dom \/ dow

\* The time Next returns is one of the schedule's, later than the one it was
\* given, with no other in between, however the loops wrapped around.
Earliest ==
  loop = "done" => /\ t > from /\ Matches(t)
                   /\ \A x \in from + 1 .. t - 1 : ~Matches(x)

\* Next gives up only if the schedule has no time in the years it looks at.
GivesUpOnlyIfNone ==
  loop = "none" => \A x \in from + 1 .. (Year(from + 1) + YearLimit + 1) * YearLen - 1 : ~Matches(x)

\* Next is the first matching time, and zero only if there is none in reach.
NextSound == Earliest /\ GivesUpOnlyIfNone

=============================================================================
