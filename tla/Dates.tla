--------------------------------- MODULE Dates ---------------------------------
(***************************************************************************)
(* date.c: a date, a time of day, or both, is a number of seconds and a    *)
(* broken down copy of it that is filled when it is asked for, and changed *)
(* first when a part of it is assigned.                                    *)
(***************************************************************************)
EXTENDS Integers, Sequences

CONSTANTS
  Years, Months, MDays, Hours, Minutes, Seconds,  \* numbers given for the parts, also wrong ones
  FirstYear, LastYear,                            \* bound: the years the calendar knows
  MaxAssigned                                     \* bound: assignments to one value

ASSUME DatesAssumption ==
  FirstYear \in Int /\ LastYear \in Int /\ FirstYear < 1900 /\ LastYear > 1970 /\ MaxAssigned \in Nat

VARIABLES
  datValue,      \* the value at hand: [type, dt, tm_set, tm]
  datWas,        \* history: what it was before the last assignment
  datAsked,      \* history: the part that was assigned and the number; "" before there was one
  datGot,        \* history: "ok" or the code of the exception
  datAssigned    \* how many assignments there were
dateVars == <<datValue, datWas, datAsked, datGot, datAssigned>>

Refused == "ErrorParameterValue"
ZeroTm == [year |-> 0, mon |-> 0, mday |-> 0, hour |-> 0, min |-> 0, sec |-> 0]   \* the year counts from 1900
-----------------------------------------------------------------------------
(* The calendar of the C library.  The time since the epoch is kept as a   *)
(* number of days and the seconds of the day.                              *)
LeapYear(y) == y % 4 = 0 /\ (y % 100 # 0 \/ y % 400 = 0)
YearStarts(y) ==
  LET leaps(n) == ((n - 1) \div 4) - ((n - 1) \div 100) + ((n - 1) \div 400)
  IN 365 * (y - 1970) + leaps(y) - leaps(1970)
MonthStarts(y, mon) ==
  <<0, 31, 59, 90, 120, 151, 181, 212, 243, 273, 304, 334, 365>>[mon + 1] + IF LeapYear(y) /\ mon > 1 THEN 1 ELSE 0

\* The parts may be too big: the days of a month go over into the next one.
timegm(tm) ==
  [day |-> YearStarts(tm.year + 1900) + MonthStarts(tm.year + 1900, tm.mon) + tm.mday - 1,
   sec |-> 3600 * tm.hour + 60 * tm.min + tm.sec]

gmtime(dt) ==
  LET y == CHOOSE y \in FirstYear .. LastYear : YearStarts(y) <= dt.day /\ dt.day < YearStarts(y + 1)
      yday == dt.day - YearStarts(y)
      mon == CHOOSE m \in 0 .. 11 : MonthStarts(y, m) <= yday /\ yday < MonthStarts(y, m + 1)
  IN [year |-> y - 1900, mon |-> mon, mday |-> yday - MonthStarts(y, mon) + 1,
      hour |-> dt.sec \div 3600, min |-> (dt.sec \div 60) % 60, sec |-> dt.sec % 60]

Epoch == [day |-> 0, sec |-> 0]
MinusOne == [day |-> -1, sec |-> 86399]   \* the answer of timegm that is taken for a failure
-----------------------------------------------------------------------------
\* DatetimeFlagTimeT and DatetimeFlagCopy; with any other flag the constructor
\* of the base leaves zero, the one of the type has to do the rest.
_timebase_new(type, dt) == [type |-> type, dt |-> dt, tm_set |-> FALSE, tm |-> ZeroTm]

_timebase_tm(v) == IF v.tm_set THEN v ELSE [v EXCEPT !.tm_set = TRUE, !.tm = gmtime(v.dt)]

\* Wrong: the broken down copy would keep the parts as they were given.
NotNormalized(v, tm) == [v EXCEPT !.dt = timegm(tm), !.tm_set = TRUE, !.tm = tm]

(* timegm puts the parts in order where they are.                          *)
_timebase_assign(v, tm) ==
  [v EXCEPT !.dt = timegm(tm), !.tm_set = TRUE, !.tm = gmtime(timegm(tm))]

\* What _timebase_assign does when timegm answers -1, also for the second that is -1.
AssignFailed(v) == [v EXCEPT !.tm_set = FALSE, !.tm = ZeroTm]

InRange(name, val) ==
  CASE name = "hour" -> val \in 0 .. 23
    [] name \in {"minute", "second"} -> val \in 0 .. 59
    [] name = "month" -> val \in 1 .. 12
    [] name = "day" -> val \in 1 .. 31
    [] OTHER -> TRUE

Made(v) == datValue' = v /\ datGot' = "ok"
NotMade == datGot' = Refused /\ UNCHANGED datValue

_timeofday_new(h, m, s) ==
  LET v == _timebase_new("time", Epoch)
      tm == [ZeroTm EXCEPT !.hour = h, !.min = m, !.sec = s]
  IN IF InRange("hour", h) /\ InRange("minute", m) /\ InRange("second", s) THEN Made(_timebase_assign(v, tm)) ELSE NotMade

\* What lies before the epoch is refused here, but can be assigned later.
_date_new(y, m, d) ==
  LET v == _timebase_new("date", Epoch)
      tm == [ZeroTm EXCEPT !.year = y - 1900, !.mon = m - 1, !.mday = d]
  IN IF InRange("month", m) /\ InRange("day", d) /\ timegm(tm).day >= 0 THEN Made(_timebase_assign(v, tm)) ELSE NotMade

(* The date of the one and the time of the other.                          *)
_datetime_new(date, time) ==
  LET v == _timebase_new("datetime", Epoch)
      tm == [date.tm EXCEPT !.hour = time.tm.hour, !.min = time.tm.min, !.sec = time.tm.sec]
  IN IF timegm(tm) = MinusOne THEN NotMade ELSE Made(_timebase_assign(v, tm))

\* One number is the seconds since the epoch.
_timeofday_parse(h, m, s) ==
  \/ _timeofday_new(h, m, s)
  \/ InRange("hour", h) /\ Made(_timebase_new("time", [day |-> 0, sec |-> 3600 * h]))

_date_parse(y, m, d) == _date_new(y, m, d)

(* date(y, m, d) passes a flag that no constructor knows: it is the epoch. *)
_function_date ==
  /\ datAsked.name = "" /\ datGot = "" /\ \E y \in Years, m \in Months, d \in MDays :
       \/ Made(_timebase_new("date", Epoch))
       \/ _date_parse(y, m, d)
       \/ Made(_timebase_new("date", [day |-> d, sec |-> 0]))
  /\ UNCHANGED <<datWas, datAsked, datAssigned>>

_function_time ==
  /\ datAsked.name = "" /\ datGot = "" /\ \E h \in Hours, m \in Minutes, s \in Seconds : _timeofday_parse(h, m, s)
  /\ UNCHANGED <<datWas, datAsked, datAssigned>>

(* A date that was made, and any time of day.  Of six numbers the last     *)
(* three are taken for a date as well, one before the epoch.               *)
_function_datetime ==
  /\ datAsked.name = "" /\ datGot = "ok" /\ datValue.type = "date" /\ datAssigned = 0
  /\ \E h \in Hours, m \in Minutes, s \in Seconds :
       /\ InRange("hour", h) /\ InRange("minute", m) /\ InRange("second", s)
       /\ \/ _datetime_new(_timebase_tm(datValue), [tm |-> [ZeroTm EXCEPT !.hour = h, !.min = m, !.sec = s]])
          \/ NotMade
  /\ UNCHANGED <<datWas, datAsked, datAssigned>>

\* The date, or the time of day, of a value that is both.
_datetime_resolve ==
  /\ datValue.type = "datetime"
  /\ \E type \in {"date", "time"} : Made(_timebase_new(type, datValue.dt))
  /\ datAsked' = [name |-> "", val |-> 0]
  /\ UNCHANGED <<datWas, datAssigned>>

Part(v, name) ==
  LET tm == _timebase_tm(v).tm
  IN CASE name = "hour" -> tm.hour [] name = "minute" -> tm.min [] name = "second" -> tm.sec
       [] name = "year" -> tm.year + 1900 [] name = "month" -> tm.mon + 1 [] OTHER -> tm.mday

WithPart(tm, name, val) ==
  CASE name = "hour" -> [tm EXCEPT !.hour = val]
    [] name = "minute" -> [tm EXCEPT !.min = val]
    [] name = "second" -> [tm EXCEPT !.sec = val]
    [] name = "year" -> [tm EXCEPT !.year = val - 1900]
    [] name = "month" -> [tm EXCEPT !.mon = val - 1]
    [] OTHER -> [tm EXCEPT !.mday = val]

TimeParts == {"hour", "minute", "second"}
DateParts == {"year", "month", "day"}
NumbersFor(name) ==
  CASE name = "hour" -> Hours [] name = "minute" -> Minutes [] name = "second" -> Seconds
    [] name = "year" -> Years [] name = "month" -> Months [] OTHER -> MDays

Assigned(name, val) ==
  /\ datGot \in {"ok", Refused} /\ datAssigned < MaxAssigned /\ (datAssigned = 0 => datGot = "ok")
  /\ datAsked' = [name |-> name, val |-> val] /\ datWas' = datValue /\ datAssigned' = datAssigned + 1

_timeofday_set ==
  /\ datValue.type \in {"time", "datetime"}
  /\ \E name \in TimeParts : \E val \in NumbersFor(name) :
       LET v == _timebase_tm(datValue)
           tm == WithPart(v.tm, name, val)
       IN /\ Assigned(name, val)
          /\ \/ ~InRange(name, val) /\ datGot' = Refused /\ datValue' = v
             \/ InRange(name, val) /\ timegm(tm) = MinusOne /\ datGot' = Refused /\ datValue' = AssignFailed(v)
             \/ InRange(name, val) /\ timegm(tm) # MinusOne /\ datGot' = "ok" /\ datValue' = _timebase_assign(v, tm)

\* Here the year may be any, and timegm is always right.
_date_set ==
  /\ datValue.type \in {"date", "datetime"}
  /\ \E name \in DateParts : \E val \in NumbersFor(name) :
       LET v == _timebase_tm(datValue)
       IN /\ Assigned(name, val)
          /\ \/ ~InRange(name, val) /\ datGot' = Refused /\ datValue' = v
             \/ InRange(name, val) /\ datGot' = "ok" /\ datValue' = _timebase_assign(v, WithPart(v.tm, name, val))

DatesInit ==
  /\ datValue = _timebase_new("time", Epoch) /\ datWas = datValue
  /\ datAsked = [name |-> "", val |-> 0] /\ datGot = "" /\ datAssigned = 0

DatesNext ==
  _function_date \/ _function_time \/ _function_datetime \/ _datetime_resolve \/ _timeofday_set \/ _date_set
-----------------------------------------------------------------------------
(* date.c:244 -- the broken down copy, while it is there, is the one of    *)
(* the seconds, however the parts were assigned; a part that was assigned  *)
(* is got again, unless the month has no such day; a part that was refused *)
(* changes no time; and no part of the other kind is touched: the time of  *)
(* day by the date, the date by the time of day.                           *)
PartsAgree ==
  /\ datValue.tm_set => datValue.tm = gmtime(datValue.dt)
  /\ datAsked.name # "" =>
       LET was(n) == Part(datWas, n)
           is(n) == Part(datValue, n)
           others == (IF datAsked.name \in TimeParts THEN DateParts \cup TimeParts ELSE TimeParts) \ {datAsked.name}
       IN /\ datGot = Refused => datValue.dt = datWas.dt
          /\ datGot = "ok" =>
               /\ \A n \in others : is(n) = was(n)
               /\ is(datAsked.name) = datAsked.val \/ (datAsked.name \in DateParts /\ is("day") \in 1 .. 3)
=============================================================================
