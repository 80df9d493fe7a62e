--------------------------- MODULE BusinessCalendar ---------------------------
(***************************************************************************)
(* InMemoryBusinessCalendar: the arithmetic of working time that timers    *)
(* and deadlines rest on.  A call is one loop, so a step is one pass of    *)
(* its loop.  Time is counted in ticks, DayLength of them in a day; a      *)
(* datetime is a tick, and replace(hour=...) goes to a tick of its day.    *)
(***************************************************************************)
EXTENDS Integers, FiniteSets

CONSTANTS
  DayLength,   \* ticks of a day
  StartHour,   \* the first tick of working hours
  EndHour,     \* the first tick after them
  WeekLength,  \* days of a week
  WorkingDays, \* the working days of the week; the code turns [] into Mon-Fri
  Holidays,    \* dates that are no working days
  Datetimes,   \* bound: the datetimes that calls are made with
  Amounts      \* bound: the business hours, in ticks, that are added

ASSUME CalendarAssumption ==
  /\ DayLength \in Nat /\ StartHour \in Nat /\ EndHour \in Nat
  /\ StartHour < EndHour /\ EndHour < DayLength
  /\ WeekLength \in Nat \ {0}
  /\ WorkingDays \subseteq 0..(WeekLength - 1) /\ WorkingDays # {}
  /\ Holidays \subseteq Nat /\ IsFiniteSet(Holidays)
  /\ Datetimes \subseteq Nat
  /\ Amounts \subseteq Int

VARIABLES
  call,      \* which method, with its arguments (never changes)
  place,
  current,   \* local variables of the call
  remaining,
  total,
  result

calendarVars == <<call, place, current, remaining, total, result>>

Calls ==
  [method : {"add"}, dt : Datetimes, hours : Amounts]
    \cup [method : {"between"}, dt : Datetimes, end : Datetimes]
    \cup [method : {"next"}, dt : Datetimes]

CalendarTypeOK ==
  /\ call \in Calls
  /\ place \in {"called", "skip", "loop", "returned"}
  /\ current \in Nat
  /\ remaining \in Int
  /\ total \in Nat
  /\ result \in Nat

-----------------------------------------------------------------------------
(* The calendar.                                                           *)

Day(t) == t \div DayLength
Hour(t) == t % DayLength
At(d, h) == d * DayLength + h

IsWorkingDay(d) == d % WeekLength \in WorkingDays /\ d \notin Holidays

IsWorkingTime(t) == IsWorkingDay(Day(t)) /\ StartHour <= Hour(t) /\ Hour(t) < EndHour

CalendarInit ==
  /\ call \in Calls
  /\ place = "called"
  /\ current = call.dt
  /\ remaining = IF call.method = "add" THEN call.hours ELSE 0
  /\ total = 0
  /\ result = 0

Return(value) == place' = "returned" /\ result' = value

-----------------------------------------------------------------------------
(* add_business_hours.                                                     *)

\* Where counting begins on the day of t, or the day after.
Clamp(t) ==
  CASE Hour(t) < StartHour -> At(Day(t), StartHour)
    [] Hour(t) >= EndHour  -> At(Day(t) + 1, StartHour)
    [] OTHER               -> t

AddStart ==
  /\ call.method = "add"
  /\ place = "called"
  /\ IF remaining <= 0
       THEN Return(current) /\ UNCHANGED current
       ELSE place' = "skip" /\ current' = Clamp(current) /\ UNCHANGED result
  /\ UNCHANGED <<call, remaining, total>>

NextMorning(t) == At(Day(t) + 1, StartHour)

AddSkip ==
  /\ call.method = "add"
  /\ place = "skip"
  /\ IF IsWorkingDay(Day(current))
       THEN place' = "loop" /\ UNCHANGED current
       ELSE place' = place /\ current' = NextMorning(current)
  /\ UNCHANGED <<call, remaining, total, result>>

Available == At(Day(current), EndHour) - current

\* Wrong on purpose: a day that is used up to its last tick is not enough.
FitsWithRoom == remaining < Available

Fits == remaining <= Available

AddWithinDay ==
  /\ call.method = "add"
  /\ place = "loop"
  /\ IsWorkingDay(Day(current))
  /\ Fits
  /\ current' = current + remaining
  /\ remaining' = 0
  /\ Return(current')
  /\ UNCHANGED <<call, total>>

AddWholeDay ==
  /\ call.method = "add"
  /\ place = "loop"
  /\ IsWorkingDay(Day(current))
  /\ ~Fits
  /\ remaining' = remaining - Available
  /\ current' = NextMorning(current)
  /\ UNCHANGED <<call, place, total, result>>

\* Wrong on purpose: the same day is looked at again and again.
StayOnFreeDay ==
  /\ call.method = "add"
  /\ place = "loop"
  /\ ~IsWorkingDay(Day(current))
  /\ current' = At(Day(current), StartHour)
  /\ UNCHANGED <<call, place, remaining, total, result>>

AddFreeDay ==
  /\ call.method = "add"
  /\ place = "loop"
  /\ ~IsWorkingDay(Day(current))
  /\ current' = NextMorning(current)
  /\ UNCHANGED <<call, place, remaining, total, result>>

-----------------------------------------------------------------------------
(* business_hours_between.                                                 *)

Earlier(a, b) == IF a <= b THEN a ELSE b
Later(a, b)   == IF a <= b THEN b ELSE a

BetweenStart ==
  /\ call.method = "between"
  /\ place = "called"
  /\ IF call.dt >= call.end
       THEN Return(0)
       ELSE place' = "loop" /\ UNCHANGED result
  /\ UNCHANGED <<call, current, remaining, total>>

\* Wrong on purpose: the last day counts in full.
TicksOfWholeDay(t) ==
  IF IsWorkingDay(Day(t)) /\ Later(t, At(Day(t), StartHour)) < At(Day(t), EndHour)
    THEN At(Day(t), EndHour) - Later(t, At(Day(t), StartHour))
    ELSE 0

\* What the day of t contributes.
TicksOfDay(t) ==
  LET from  == Later(t, At(Day(t), StartHour))
      until == Earlier(call.end, At(Day(t), EndHour))
  IN IF IsWorkingDay(Day(t)) /\ from < until THEN until - from ELSE 0

BetweenDay ==
  /\ call.method = "between"
  /\ place = "loop"
  /\ Day(current) <= Day(call.end)
  /\ total' = total + TicksOfDay(current)
  /\ current' = At(Day(current) + 1, 0)
  /\ UNCHANGED <<call, place, remaining, result>>

BetweenEnd ==
  /\ call.method = "between"
  /\ place = "loop"
  /\ Day(current) > Day(call.end)
  /\ Return(total)
  /\ UNCHANGED <<call, current, remaining, total>>

-----------------------------------------------------------------------------
(* next_working_time.                                                      *)

\* Wrong on purpose: closing time still counts as the same day.
DayAtLeastSlack(t) == IF Hour(t) > EndHour THEN Day(t) + 1 ELSE Day(t)

\* The first day that may still have working time at or after t.
DayAtLeast(t) == IF Hour(t) >= EndHour THEN Day(t) + 1 ELSE Day(t)

NextStart ==
  /\ call.method = "next"
  /\ place = "called"
  /\ IF IsWorkingTime(current)
       THEN Return(current) /\ UNCHANGED current
       ELSE place' = "skip" /\ current' = At(DayAtLeast(current), StartHour) /\ UNCHANGED result
  /\ UNCHANGED <<call, remaining, total>>

NextSkip ==
  /\ call.method = "next"
  /\ place = "skip"
  /\ IF IsWorkingDay(Day(current))
       THEN Return(current) /\ UNCHANGED current
       ELSE current' = current + DayLength /\ UNCHANGED <<place, result>>
  /\ UNCHANGED <<call, remaining, total>>

-----------------------------------------------------------------------------
Step ==
  \/ AddStart \/ AddSkip \/ AddWithinDay \/ AddWholeDay \/ AddFreeDay
  \/ BetweenStart \/ BetweenDay \/ BetweenEnd
  \/ NextStart \/ NextSkip

Returned == place = "returned" /\ UNCHANGED calendarVars

CalendarNext == Step \/ Returned

CalendarSpec == CalendarInit /\ [][CalendarNext]_calendarVars

\* A call runs without an await: nothing else happens until it returns.
CalendarFairSpec == CalendarSpec /\ WF_calendarVars(Step)

-----------------------------------------------------------------------------
(* The reference: count the ticks.                                         *)

WorkingTicks(from, until) == Cardinality({t \in from..(until - 1) : IsWorkingTime(t)})

Over(method) == place = "returned" /\ call.method = method

(***************************************************************************)
(* "Add business hours to a datetime, skipping non-working time": the      *)
(* result is the first moment at which that many working ticks have passed *)
(* since dt, whether dt is before, in or after working hours or on a free  *)
(* day.                                                                    *)
(***************************************************************************)
AddIsExact ==
  Over("add") =>
    IF call.hours <= 0 THEN result = call.dt
    ELSE /\ WorkingTicks(call.dt, result) = call.hours
         /\ IsWorkingTime(result - 1)

(***************************************************************************)
(* "Calculate business hours between two datetimes": the number of working *)
(* ticks from start up to end.                                             *)
(***************************************************************************)
BetweenCounts == Over("between") => result = WorkingTicks(call.dt, call.end)

(***************************************************************************)
(* "Find the next working time at or after the given datetime": it is one, *)
(* it is not before, and there is none in between.                         *)
(***************************************************************************)
NextIsFirst ==
  Over("next") =>
    /\ result >= call.dt
    /\ IsWorkingTime(result)
    /\ WorkingTicks(call.dt, result) = 0

(***************************************************************************)
(* The three questions are answered as their docstrings say, whatever day  *)
(* and hour they start from, in the night and on holidays too.             *)
(***************************************************************************)
AnswersAreExact == AddIsExact /\ BetweenCounts /\ NextIsFirst

(***************************************************************************)
(* Every call returns: days without work, however many in a row, are       *)
(* skipped one by one until there is a working day.                        *)
(***************************************************************************)
EveryCallReturns == <>(place = "returned")
=============================================================================
