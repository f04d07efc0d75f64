-------------------------------- MODULE Cron --------------------------------
(***************************************************************************)
(* scheduler.Schedule: what a cron expression matches, and the search for  *)
(* the next fire time (cron.go), one action per branch of the loop.        *)
(*                                                                         *)
(* An instant is a number of minutes; a zone adds an offset to it, which   *)
(* changes once.  Hours, days, weeks, months and years have the lengths    *)
(* the constants give; months are equally long, so that a day of the month *)
(* that never comes is one past their length.                              *)
(***************************************************************************)
EXTENDS Integers

CONSTANTS
  MinutesPerHour, HoursPerDay, DaysPerWeek, DaysPerMonth, MonthsPerYear,
  ScanYears,    \* nextScanYears
  Specs,        \* cron expressions, five sets of parts each
  Zones,        \* [before, after, change]: the offsets, and when they change
  Starts        \* the instants a search starts from

CronAssumption ==
  /\ {MinutesPerHour, HoursPerDay, DaysPerWeek, DaysPerMonth, MonthsPerYear, ScanYears}
       \subseteq Nat \ {0}
  /\ Zones \subseteq [before : Int, after : Int, change : Int]
  /\ Starts \subseteq Int

VARIABLES
  cron,         \* the masks of the expression, and which are "*"
  zone,         \* the location of the instant
  after,        \* Next's argument
  t,            \* the instant the search looks at
  scan          \* "scanning", "found" or "gaveUp"

vars == <<cron, zone, after, t, scan>>

Hour  == MinutesPerHour
Day   == HoursPerDay * Hour
Month == DaysPerMonth * Day
Year  == MonthsPerYear * Month

-----------------------------------------------------------------------------
(***************************************************************************)
(* Expressions.  A part is "*", a range or a single value, with a step.    *)
(***************************************************************************)
Part(lo, hi, step) == [star |-> FALSE, lo |-> lo, hi |-> hi, step |-> step]
EveryNth(n)        == [star |-> TRUE, lo |-> 0, hi |-> 0, step |-> n]
Star               == {EveryNth(1)}

Bounds == [minute |-> <<0, MinutesPerHour - 1>>, hour  |-> <<0, HoursPerDay - 1>>,
           dom    |-> <<1, DaysPerMonth + 1>>,   month |-> <<1, MonthsPerYear>>,
           dow    |-> <<0, DaysPerWeek>>]
Fields == DOMAIN Bounds

Low(p, f)  == IF p.star THEN Bounds[f][1] ELSE p.lo
High(p, f) == IF p.star THEN Bounds[f][2] ELSE p.hi

\* parsePart refuses a step that is not positive, an empty range, and values
\* out of the field's bounds.
PartParses(p, f) ==
  /\ p.step > 0
  /\ Low(p, f) <= High(p, f)
  /\ Bounds[f][1] <= Low(p, f) /\ High(p, f) <= Bounds[f][2]
Parses(s) == \A f \in Fields : s[f] # {} /\ \A p \in s[f] : PartParses(p, f)

\* The last value of the day of the week is the first by another name.
Folded(v, f) == IF f = "dow" /\ v = DaysPerWeek THEN 0 ELSE v
Mask(part, f) ==
  {Folded(v, f) : v \in {w \in Low(part, f)..High(part, f) : (w - Low(part, f)) % part.step = 0}}
Masks(s) == [f \in Fields |-> UNION {Mask(p, f) : p \in s[f]}]

-----------------------------------------------------------------------------
(***************************************************************************)
(* Civil time: time.Time in a location.                                    *)
(***************************************************************************)
Offset(u) == IF u < zone.change THEN zone.before ELSE zone.after
Wall(u)   == u + Offset(u)

MinuteOf(u)  == Wall(u) % Hour
HourOf(u)    == (Wall(u) \div Hour) % HoursPerDay
DayOf(u)     == ((Wall(u) \div Day) % DaysPerMonth) + 1
MonthOf(u)   == ((Wall(u) \div Month) % MonthsPerYear) + 1
WeekdayOf(u) == (Wall(u) \div Day) % DaysPerWeek

\* time.Date takes the offset in force when the wall reads like that in UTC, and
\* if the instant so found is in the other period, that period's offset.
Date(wall) ==
  LET u == wall - Offset(wall)
  IN IF (u < zone.change) = (wall < zone.change) THEN u ELSE wall - Offset(u)

StartOf(unit, u) == Date((Wall(u) \div unit) * unit)
AddDate(u, span) == Date(Wall(u) + span)

-----------------------------------------------------------------------------
MonthMatches(u) == MonthOf(u) \in cron.mask["month"]
HourMatches(u)  == HourOf(u) \in cron.mask["hour"]
MinuteMatches(u) == MinuteOf(u) \in cron.mask["minute"]

\* dayMatches: if both the day of the month and that of the week are
\* restricted, one of them is enough.
DayMatches(u) ==
  LET dom == DayOf(u) \in cron.mask["dom"]
      dow == WeekdayOf(u) \in cron.mask["dow"]
  IN CASE cron.domStar /\ cron.dowStar -> TRUE
       [] cron.domStar /\ ~cron.dowStar -> dow
       [] ~cron.domStar /\ cron.dowStar -> dom
       [] OTHER -> dom \/ dow

\* Parse, and the first lines of Next.
Init ==
  /\ zone \in Zones
  /\ \E s \in Specs :
       /\ Parses(s)
       /\ cron = [mask |-> Masks(s), domStar |-> s.dom = Star, dowStar |-> s.dow = Star]
  /\ after \in Starts
  /\ t = AddDate(after, 0) + 1
  /\ scan = "scanning"

Limit == AddDate(after, ScanYears * Year + Day)
Looking == scan = "scanning" /\ t < Limit
Jump(u) == t' = u /\ UNCHANGED <<cron, zone, after, scan>>

NextMonth(u) == AddDate(StartOf(Month, u), Month)
NextDay(u)   == AddDate(StartOf(Day, u), Day)
NextHour(u)  == StartOf(Hour, u) + Hour

\* The loop: the first of the four that does not match says where to look next.
WrongMonth  == Looking /\ ~MonthMatches(t)
WrongDay    == Looking /\ MonthMatches(t) /\ ~DayMatches(t)
WrongHour   == Looking /\ MonthMatches(t) /\ DayMatches(t) /\ ~HourMatches(t)
WrongMinute == Looking /\ MonthMatches(t) /\ DayMatches(t) /\ HourMatches(t)
                       /\ ~MinuteMatches(t)

\* MUTANT: an hour is added to the instant instead of to the start of its hour.
SkipHourInPlace == WrongHour /\ Jump(t + Hour)

SkipMonth  == WrongMonth /\ Jump(NextMonth(t))
SkipDay    == WrongDay /\ Jump(NextDay(t))
SkipHour   == WrongHour /\ Jump(NextHour(t))
SkipMinute == WrongMinute /\ Jump(t + 1)

Stops(how) == scan' = how /\ UNCHANGED <<cron, zone, after, t>>

Found ==
  /\ Looking /\ MonthMatches(t) /\ DayMatches(t) /\ HourMatches(t) /\ MinuteMatches(t)
  /\ Stops("found")

GiveUp == scan = "scanning" /\ t >= Limit /\ Stops("gaveUp")

Next == SkipMonth \/ SkipDay \/ SkipHour \/ SkipMinute \/ Found \/ GiveUp

Spec == Init /\ [][Next]_vars

-----------------------------------------------------------------------------
\* The shape of the state.
TypeOK ==
  /\ zone \in Zones /\ after \in Starts /\ t \in Int
  /\ scan \in {"scanning", "found", "gaveUp"}

Fires(u) == MonthMatches(u) /\ DayMatches(u) /\ HourMatches(u) /\ MinuteMatches(u)

\* "Next returns the first fire time strictly after the given instant, in that
\* instant's location": no jump passes over a minute that matches, and the
\* search gives up only when none does within its years.
FireTimeIsTheFirst ==
  /\ scan = "found" => t > after /\ Fires(t) /\ \A u \in (after + 1)..(t - 1) : ~Fires(u)
  /\ scan = "gaveUp" => \A u \in (after + 1)..(Limit - 1) : ~Fires(u)

\* "nextScanYears bounds how far Next searches before giving up": every turn of
\* the loop looks at a later instant, and so the search ends.
SearchAdvances ==
  /\ WrongMonth => NextMonth(t) > t
  /\ WrongDay   => NextDay(t) > t
  /\ WrongHour  => NextHour(t) > t

==============================================================================
