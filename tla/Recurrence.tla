----------------------------- MODULE Recurrence -----------------------------
(***************************************************************************)
(* The dates of a recurrence (generateInstanceDates and its helpers in     *)
(* src/lib/event-operations.ts), the RRULE readers get of it (toRRule in   *)
(* src/lib/event-transform.ts) and the reading of one (src/lib/rrule.ts).  *)
(*                                                                         *)
(* A day is the number of days since 2000-01-01, a Saturday; a month is    *)
(* the number of months since January 2000; days of the week count from    *)
(* Sunday, 0, as getDay does.  Times of day play no part: every date of    *)
(* the code is at noon.                                                    *)
(***************************************************************************)
EXTENDS Lists

CONSTANTS
  FirstMonth, LastMonth,  \* bound: months the calendar knows
  RuleStarts,             \* first days of a recurrence, well before LastMonth
  RuleCounts              \* instance counts asked for; 0: none

ASSUME CalendarAssumption == FirstMonth \in Nat /\ LastMonth \in Nat

VARIABLES
  asked,   \* a recurrence a publisher asks for
  read     \* an RRULE someone sends

recurrence == <<asked, read>>

NoDay == -1

-----------------------------------------------------------------------------
(* The calendar of Date *)

Leap(y)     == y % 4 = 0 /\ (y % 100 # 0 \/ y % 400 = 0)
LeapIn(k)   == IF Leap(k \div 12) THEN 1 ELSE 0
NewYear(y)  == 365 * y + (y + 3) \div 4 - (y + 99) \div 100 + (y + 399) \div 400
MonthStart(k) ==
  NewYear(k \div 12) + <<0, 31, 59, 90, 120, 151, 181, 212, 243, 273, 304, 334>>[(k % 12) + 1]
    + (IF k % 12 > 1 THEN LeapIn(k) ELSE 0)
MonthLength(k) == MonthStart(k + 1) - MonthStart(k)

MonthOf(d)    == CHOOSE k \in FirstMonth .. LastMonth : MonthStart(k) <= d /\ d < MonthStart(k + 1)
DayOfMonth(d) == d - MonthStart(MonthOf(d)) + 1
Weekday(d)    == (d + 6) % 7

\* the calendar knows the months of every date a recurrence that counts in months has
ASSUME RuleAssumption ==
  /\ RuleCounts \subseteq Nat
  /\ \A start \in RuleStarts : \E k \in FirstMonth .. LastMonth :
       /\ start \in MonthStart(k) .. MonthStart(k + 1) - 1
       /\ \A count \in RuleCounts \cup {2} : k + count - 1 <= LastMonth

-----------------------------------------------------------------------------
(* generateInstanceDates *)

Periodic(kind)  == [kind |-> kind]
WeeklyDays(D)   == [kind |-> "weekly_days", days |-> D]
Ordinal(n, day) == [kind |-> "ordinal_weekday", nth |-> n, day |-> day]

Rules == {Periodic(kind) : kind \in {"daily", "weekly", "biweekly", "monthly"}}
           \cup {WeeklyDays(D) : D \in (SUBSET (0 .. 6)) \ {{}}}
           \cup {Ordinal(n, day) : n \in 1 .. 5, day \in 0 .. 6}

\* DEFAULT_LIMITS and their like; those of ongoing series are the same
DefaultLimit(kind) == CASE kind = "daily" -> 42 [] kind = "weekly" -> 6
                        [] kind = "biweekly" -> 3 [] OTHER -> 2
ResolveLimit(rule, count) == IF count > 0 THEN count ELSE DefaultLimit(rule.kind)

\* Mutant: the month is not looked at again.
NthWeekdayMutant(k, day, n) ==
  MonthStart(k) + ((day - Weekday(MonthStart(k)) + 7) % 7) + (n - 1) * 7
\* getNthWeekdayOfMonth
NthWeekday(k, day, n) ==
  LET target == 1 + ((day - Weekday(MonthStart(k)) + 7) % 7) + (n - 1) * 7 IN
  IF target > MonthLength(k) THEN NoDay ELSE MonthStart(k) + target - 1

\* the same day of the month, or its last
Clamped(start, i) ==
  LET k == MonthOf(start) + i IN
  MonthStart(k) + (IF DayOfMonth(start) < MonthLength(k) THEN DayOfMonth(start)
                                                         ELSE MonthLength(k)) - 1

GenerateInstanceDates(start, rule, count) ==
  LET total   == ResolveLimit(rule, count)
      Every(n) == [i \in 1 .. total |-> start + (i - 1) * n]
  IN CASE rule.kind = "daily"    -> Every(1)
       [] rule.kind = "weekly"   -> Every(7)
       [] rule.kind = "biweekly" -> Every(14)
       [] rule.kind = "monthly"  -> [i \in 1 .. total |-> Clamped(start, i - 1)]
       [] rule.kind = "ordinal_weekday" ->
            LET found == [i \in 1 .. total - 1 |-> NthWeekday(MonthOf(start) + i, rule.day, rule.nth)]
            IN <<start>> \o Kept(found, {i \in DOMAIN found : found[i] # NoDay})
       [] rule.kind = "weekly_days" ->
            LET size   == Cardinality(rule.days)
                events == IF count > 0 THEN count ELSE 6 * size
                weeks  == IF count > 0 THEN (count + size - 1) \div size + 2 ELSE 6
                ahead  == [i \in 1 .. weeks * 7 + 7 |-> start + i]
                walked == Kept(ahead, {i \in DOMAIN ahead : Weekday(ahead[i]) \in rule.days})
            IN <<start>> \o SubSeq(walked, 1, IF events - 1 < Len(walked) THEN events - 1
                                                                        ELSE Len(walked))

-----------------------------------------------------------------------------
(* RRULEs, as far as the code has them: no BYDAY is {}, no COUNT is 0 *)

RRule(freq, interval, days, nth, count) ==
  [freq |-> freq, interval |-> interval, byday |-> days, nth |-> nth, count |-> count]

\* Mutant: biweekly is told as weekly.
ToRRuleMutant(rule, count) ==
  CASE rule.kind = "daily"    -> RRule("DAILY", 1, {}, 0, count)
    [] rule.kind = "monthly"  -> RRule("MONTHLY", 1, {}, 0, count)
    [] rule.kind \in {"weekly", "biweekly"} -> RRule("WEEKLY", 1, {}, 0, count)
    [] rule.kind = "weekly_days"     -> RRule("WEEKLY", 1, rule.days, 0, count)
    [] rule.kind = "ordinal_weekday" -> RRule("MONTHLY", 1, {rule.day}, rule.nth, count)
ToRRule(rule, count) ==
  CASE rule.kind = "daily"    -> RRule("DAILY", 1, {}, 0, count)
    [] rule.kind = "weekly"   -> RRule("WEEKLY", 1, {}, 0, count)
    [] rule.kind = "biweekly" -> RRule("WEEKLY", 2, {}, 0, count)
    [] rule.kind = "monthly"  -> RRule("MONTHLY", 1, {}, 0, count)
    [] rule.kind = "weekly_days"     -> RRule("WEEKLY", 1, rule.days, 0, count)
    [] rule.kind = "ordinal_weekday" -> RRule("MONTHLY", 1, {rule.day}, rule.nth, count)

Unsupported == [kind |-> "unsupported"]

\* fromRRule, its recurrence: a BYDAY of one day is plain weekly, and with a BYDAY
\* the INTERVAL of a MONTHLY rule is not looked at
FromRRule(r) ==
  CASE r.freq = "DAILY" /\ r.interval = 1 /\ r.byday = {}  -> Periodic("daily")
    [] r.freq = "WEEKLY" /\ r.interval = 2 /\ r.byday = {} -> Periodic("biweekly")
    [] r.freq = "WEEKLY" /\ r.interval = 1 /\ r.nth = 0 ->
         IF Cardinality(r.byday) \in {0, 1} THEN Periodic("weekly") ELSE WeeklyDays(r.byday)
    [] r.freq = "MONTHLY" /\ r.nth \in 1 .. 5 /\ Cardinality(r.byday) = 1 ->
         Ordinal(r.nth, CHOOSE day \in r.byday : TRUE)
    [] r.freq = "MONTHLY" /\ r.interval = 1 /\ r.byday = {} -> Periodic("monthly")
    [] OTHER -> Unsupported

\* Reference, from RFC 5545: the days of a rule that begins on a day.
On(d, r, start) ==
  CASE r.freq = "DAILY"   -> (d - start) % r.interval = 0
    [] r.freq = "WEEKLY" /\ r.byday = {}  -> (d - start) % (7 * r.interval) = 0
    [] r.freq = "WEEKLY" /\ r.byday # {}  -> r.interval = 1 /\ Weekday(d) \in r.byday
    [] r.freq = "MONTHLY" /\ r.byday = {} ->
         DayOfMonth(d) = DayOfMonth(start) /\ (MonthOf(d) - MonthOf(start)) % r.interval = 0
    [] OTHER -> /\ Weekday(d) \in r.byday /\ (DayOfMonth(d) + 6) \div 7 = r.nth
                /\ (MonthOf(d) - MonthOf(start)) % r.interval = 0

-----------------------------------------------------------------------------
(* Both are functions: a behaviour is one call of each. *)

RecurrenceInit ==
  /\ asked \in [start : RuleStarts, rule : Rules, count : RuleCounts]
  /\ read \in [freq : {"DAILY", "WEEKLY", "MONTHLY", "YEARLY"}, interval : 1 .. 3,
               byday : SUBSET (0 .. 6), nth : 0 .. 6, count : {0}]
  /\ read.byday = {} => read.nth = 0

\* The dates made of a recurrence are those its RRULE tells readers of: after the
\* first, which is the publisher's, every day of the rule up to the last date and
\* no other, as many as were asked for.  Rules for a fifth weekday run short by
\* the months without one, an ordinal rule looks no further into the month it
\* begins in, and a monthly series begun after the 28th has a date in each month
\* where RFC 5545 leaves months out.
DatesFollowRule ==
  LET start == asked.start
      rule  == asked.rule
      r     == ToRRule(rule, asked.count)
      dates == GenerateInstanceDates(start, rule, asked.count)
      n     == Len(dates)
      total == IF rule.kind = "weekly_days" /\ asked.count = 0 THEN 6 * Cardinality(rule.days)
               ELSE ResolveLimit(rule, asked.count)
  IN /\ dates[1] = start
     /\ IF rule.kind = "ordinal_weekday" /\ rule.nth = 5 THEN n <= total ELSE n = total
     /\ IF rule.kind = "monthly" /\ DayOfMonth(start) > 28
        THEN \A i \in 1 .. n : MonthOf(dates[i]) = MonthOf(start) + i - 1
        ELSE LET after == [i \in 1 .. dates[n] - start |-> start + i] IN
             Tail(dates) =
               Kept(after, {i \in DOMAIN after :
                              /\ On(after[i], r, start)
                              /\ rule.kind = "ordinal_weekday" => MonthOf(after[i]) # MonthOf(start)})

\* What toRRule writes fromRRule reads as the same recurrence, but for a list of
\* one weekday, which is read as plain weekly; and what fromRRule accepts is the
\* rule it was given, but for such a list and for the interval of an ordinal rule.
RuleSurvives ==
  LET back == ToRRule(FromRRule(read), 0) IN
  /\ \/ FromRRule(ToRRule(asked.rule, asked.count)) = asked.rule
     \/ asked.rule.kind = "weekly_days" /\ Cardinality(asked.rule.days) = 1
  /\ FromRRule(read) # Unsupported =>
       \/ back = read
       \/ back = [read EXCEPT !.byday = {}] /\ read.freq = "WEEKLY" /\ Cardinality(read.byday) = 1
       \/ back = [read EXCEPT !.interval = 1] /\ read.nth # 0
=============================================================================
