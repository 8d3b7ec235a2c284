---------------------------- MODULE EventSeries ----------------------------
(***************************************************************************)
(* Recurring series (src/lib/event-series.ts, src/routes/service/series.ts *)
(* and the RPC of migration 100): a series row with its template, and the  *)
(* event rows materialized from it by the create request, changed by       *)
(* template PATCHes, removed by DELETEs and extended by the cron.          *)
(*                                                                         *)
(* Time is counted in days and an instance of today counts as upcoming.    *)
(* The cadence is one instance every Step days (daily, weekly, biweekly);  *)
(* the template is a revision number, all its fields being one datum.      *)
(* Every SQL statement is one action, except that reads of which only the  *)
(* last one is used later are taken with it.                               *)
(***************************************************************************)
EXTENDS Integers, FiniteSets

CONSTANTS
  Series,             \* ids of event_series rows, ordered as the RPC orders them
  Patchers, Deleters, \* template PATCHes and DELETEs that may overlap (bound)
  Crons,              \* calls of the auto-extend cron that may overlap (bound)
  None,               \* NULL
  Step,               \* days from one instance to the next
  Limit,              \* DEFAULT_LIMITS: instances of a series without a count
  Horizon,            \* HORIZON_MS in days, 42 in the code
  Threshold,          \* REFILL_THRESHOLD_MS in days, 21 in the code
  BatchLimit,         \* SERIES_EXTEND_BATCH, 200 in the code
  Counts,             \* instance counts a publisher asks for; 0: no count
  Starts,             \* first dates a publisher asks for
  NoTime,             \* series whose template has no start_time
  OrganizerRequired,  \* TRUE: events.organizer_org_id is NOT NULL (migration 081)
  WritesFail,         \* TRUE: a request's write of events may be refused
  Exclusive,          \* TRUE: requests and cron calls do not overlap
  MaxDay, MaxRev, MaxEdits   \* bounds: days, PATCHes, edits of one event

ASSUME IdsAssumption     == Series \subseteq Nat /\ None \notin Nat /\ NoTime \subseteq Series
ASSUME CadenceAssumption == /\ {Step, BatchLimit} \subseteq Nat \ {0}
                            /\ Limit \in Nat \ {0, 1}
                            /\ Horizon \in Nat /\ Threshold \in Nat
                            /\ Counts \subseteq Nat /\ Starts \subseteq Nat
ASSUME SwitchAssumption  == {OrganizerRequired, WritesFail, Exclusive} \subseteq BOOLEAN
ASSUME BoundAssumption   == {MaxDay, MaxRev, MaxEdits} \subseteq Nat

VARIABLES
  now,      \* today
  series,   \* event_series rows
  events,   \* events rows
  ins,      \* INSERTs of events so far: ins and num identify a row
  rev,      \* PATCHes so far: the number of a PATCH is the revision it makes
  edits,    \* edits of single events so far
  patch,    \* PATCH /service/events/series/:seriesId requests
  del,      \* DELETE /service/events/series/:seriesId requests
  cron      \* calls of autoExtendSeries

vars == <<now, series, events, ins, rev, edits, patch, del, cron>>

-----------------------------------------------------------------------------
NoCount  == -1       \* a PATCH without instance_count
EventIds == (1 .. ins) \X Nat
RowPlan  == [day : Nat, num : Nat \ {0}]

SeriesRow == [st    : {"none", "making", "row", "gone"},  \* making: not materialized yet
              base  : 0 .. MaxRev,     \* revision in base_event_data
              whole : BOOLEAN]         \* history: the last edit reported all updated
Event     == [sid : Series \cup {None}, day : Nat, num : Nat \ {0}, rev : 0 .. MaxRev,
              ins : Nat, own : BOOLEAN]       \* own: edited singly since
Patch     == [pc   : {"idle", "apply", "base", "count", "shrink"},
              sid  : Series \cup {None}, rev : 0 .. MaxRev, each : BOOLEAN,
              keep : Counts \cup {NoCount}, at : Nat, todo : SUBSET EventIds,
              whole : BOOLEAN]
Delete    == [pc : {"idle", "events", "row"}, sid : Series \cup {None},
              todo : SUBSET EventIds]
CronCall  == [pc   : {"idle", "load", "loop", "insert"}, todo : SUBSET Series, at : Nat,
              base : [Series -> 0 .. MaxRev], sid : Series \cup {None},
              rows : SUBSET RowPlan]

IdlePatch == [pc |-> "idle", sid |-> None, rev |-> 0, each |-> FALSE, keep |-> NoCount,
              at |-> 0, todo |-> {}, whole |-> TRUE]
IdleDel   == [pc |-> "idle", sid |-> None, todo |-> {}]
IdleCron  == [pc |-> "idle", todo |-> {}, at |-> 0, base |-> [s \in Series |-> 0],
              sid |-> None, rows |-> {}]

\* Every variable keeps its type; in particular instances are numbered from 1.
TypeOK ==
  /\ {now, ins} \subseteq Nat /\ rev \in 0 .. MaxRev /\ edits \in 0 .. MaxEdits
  /\ series \in [Series -> SeriesRow]
  /\ \A e \in events : e \in Event
  /\ \A p \in Patchers : patch[p] \in Patch
  /\ \A d \in Deleters : del[d] \in Delete
  /\ \A c \in Crons : cron[c] \in CronCall

Init ==
  /\ now = 0 /\ ins = 0 /\ rev = 0 /\ edits = 0
  /\ series = [s \in Series |-> [st |-> "none", base |-> 0, whole |-> TRUE]]
  /\ events = {}
  /\ patch  = [p \in Patchers |-> IdlePatch]
  /\ del    = [d \in Deleters |-> IdleDel]
  /\ cron   = [c \in Crons |-> IdleCron]

-----------------------------------------------------------------------------
Id(e)       == <<e.ins, e.num>>
Exists(s)   == series[s].st \in {"making", "row"}
Instances(s) == {e \in events : e.sid = s}

\* Rows of the series from a day on: event_at >= now.
UpcomingMutant(s, day) == Instances(s)
Upcoming(s, day)       == {e \in Instances(s) : e.day >= day}

Quiet == /\ \A p \in Patchers : patch[p].pc = "idle"
         /\ \A d \in Deleters : del[d].pc = "idle"
         /\ \A c \in Crons : cron[c].pc = "idle"
         /\ \A s \in Series : series[s].st # "making"

\* A request or a cron call may begin.
MayStart == Exclusive => Quiet

\* generateInstanceDates: n dates from the first on, the first included, with
\* the position of each.
NumberedMutant(first, n, after) ==
  {[day |-> first + i * Step, num |-> after + i] : i \in 0 .. n - 1}
Numbered(first, n, after) ==
  {[day |-> first + i * Step, num |-> after + i + 1] : i \in 0 .. n - 1}

Length(count) == IF count = 0 THEN Limit ELSE count

Rows(s, plan, r) ==
  {[sid |-> s, day |-> x.day, num |-> x.num, rev |-> r, ins |-> ins + 1, own |-> FALSE] :
     x \in plan}

-----------------------------------------------------------------------------
(* POST /service/events with a recurrence: the series row, then its rows.  *)

CreateSeries(s) ==
  /\ MayStart
  /\ series[s].st = "none"
  /\ series' = [series EXCEPT ![s] = [st |-> "making", base |-> rev, whole |-> TRUE]]
  /\ UNCHANGED <<now, events, ins, rev, edits, patch, del, cron>>

CreateInstances(s, start, count) ==
  /\ series[s].st = "making"
  /\ Length(count) > 1
  /\ \/ /\ events' = events \cup Rows(s, Numbered(start, Length(count), 0), series[s].base)
        /\ ins'    = ins + 1
        /\ series' = [series EXCEPT ![s].st = "row"]
     \/ /\ WritesFail                         \* "Clean up the orphaned series row"
        /\ series' = [series EXCEPT ![s].st = "gone"]
        /\ UNCHANGED <<events, ins>>
  /\ UNCHANGED <<now, rev, edits, patch, del, cron>>

-----------------------------------------------------------------------------
(* PATCH /service/events/series/:seriesId: every upcoming row, then the    *)
(* template, then the count.                                               *)

\* The reads before the first write. Without an edit of the template (a change
\* of the count alone) no event is updated, but base_event_data is still
\* rewritten as it was read. each: a time or a timezone changes, so every
\* instance has an UPDATE of its own.
PatchFetch(p, s, edit, each, keep) ==
  /\ MayStart
  /\ patch[p].pc = "idle"
  /\ Exists(s)
  /\ Upcoming(s, now) # {}
  /\ edit \/ keep # NoCount
  /\ each => edit
  /\ rev < MaxRev
  /\ rev' = rev + 1
  /\ patch' = [patch EXCEPT ![p] =
       [pc |-> IF edit THEN "apply" ELSE "base", sid |-> s,
        rev |-> IF edit THEN rev + 1 ELSE series[s].base, each |-> each, keep |-> keep,
        at |-> now, todo |-> {Id(e) : e \in Upcoming(s, now)},
        whole |-> edit \/ series[s].whole]]
  /\ UNCHANGED <<now, series, events, ins, edits, del, cron>>

Updated(ids, r) == {IF Id(e) \in ids THEN [e EXCEPT !.rev = r] ELSE e : e \in events}

\* A refused UPDATE is left out of the count the response gives, no more.
PatchApply(p, ids) ==
  LET rest == patch[p].todo \ ids IN
  /\ patch[p].pc = "apply"
  /\ IF patch[p].each THEN \E id \in patch[p].todo : ids = {id} ELSE ids = patch[p].todo
  /\ \E done \in {TRUE, ~WritesFail} :
       /\ events' = IF done THEN Updated(ids, patch[p].rev) ELSE events
       /\ patch'  = [patch EXCEPT ![p] =
            [patch[p] EXCEPT !.pc = IF rest = {} THEN "base" ELSE "apply",
                             !.todo = rest, !.whole = patch[p].whole /\ done]]
  /\ UNCHANGED <<now, series, ins, rev, edits, del, cron>>

NewBaseMutant(row, f) == [row EXCEPT !.whole = f.whole]
NewBase(row, f)       == [row EXCEPT !.base = f.rev, !.whole = f.whole]

PatchBase(p) ==
  LET s == patch[p].sid IN
  /\ patch[p].pc = "base"
  /\ series' = [series EXCEPT ![s] = IF Exists(s) THEN NewBase(series[s], patch[p])
                                     ELSE series[s]]
  /\ patch'  = [patch EXCEPT ![p] = IF patch[p].keep = NoCount THEN IdlePatch
                                    ELSE [patch[p] EXCEPT !.pc = "count", !.todo = {}]]
  /\ UNCHANGED <<now, events, ins, rev, edits, del, cron>>

\* The rows furthest out, if there are more than the count asked for. (With
\* fewer, the code inserts the difference, and that INSERT is always refused:
\* its rows carry base_event_data.start_time, which events has no column for.
\* recurrence_rule, written last, is never read.)
Excess(future, keep) ==
  {gone \in SUBSET future : /\ Cardinality(gone) = Cardinality(future) - keep
                            /\ \A e \in gone, f \in future \ gone : f.day <= e.day}

PatchRefetch(p) ==
  LET future == Upcoming(patch[p].sid, patch[p].at)
      keep   == Length(patch[p].keep) IN
  /\ patch[p].pc = "count"
  /\ patch' \in
       IF Cardinality(future) <= keep THEN {[patch EXCEPT ![p] = IdlePatch]}
       ELSE {[patch EXCEPT ![p] = [patch[p] EXCEPT !.pc = "shrink",
                                                   !.todo = {Id(e) : e \in gone}]] :
               gone \in Excess(future, keep)}
  /\ UNCHANGED <<now, series, events, ins, rev, edits, del, cron>>

PatchShrink(p) ==
  /\ patch[p].pc = "shrink"
  /\ \/ events' = {e \in events : Id(e) \notin patch[p].todo}
     \/ WritesFail /\ UNCHANGED events
  /\ patch' = [patch EXCEPT ![p] = IdlePatch]
  /\ UNCHANGED <<now, series, ins, rev, edits, del, cron>>

-----------------------------------------------------------------------------
(* DELETE /service/events/series/:seriesId. A series with no rows is left   *)
(* as it is, and 0 returned.                                                *)

ToDelete(s) == {Id(e) : e \in Instances(s)}

DeleteSeries(d, s) ==
  /\ MayStart
  /\ del[d].pc = "idle"
  /\ ToDelete(s) # {}
  /\ del' = [del EXCEPT ![d] = [pc |-> "events", sid |-> s, todo |-> ToDelete(s)]]
  /\ UNCHANGED <<now, series, events, ins, rev, edits, patch, cron>>

DeleteInstances(d) ==
  /\ del[d].pc = "events"
  /\ \/ /\ events' = {e \in events : Id(e) \notin del[d].todo}
        /\ del'    = [del EXCEPT ![d] = [del[d] EXCEPT !.pc = "row", !.todo = {}]]
     \/ /\ WritesFail
        /\ del' = [del EXCEPT ![d] = IdleDel]
        /\ UNCHANGED events
  /\ UNCHANGED <<now, series, ins, rev, edits, patch, cron>>

\* events.series_id is ON DELETE SET NULL.
DeleteRow(d) ==
  LET s == del[d].sid IN
  /\ del[d].pc = "row"
  /\ series' = [series EXCEPT ![s].st = "gone"]
  /\ events' = {IF e.sid = s THEN [e EXCEPT !.sid = None] ELSE e : e \in events}
  /\ del'    = [del EXCEPT ![d] = IdleDel]
  /\ UNCHANGED <<now, ins, rev, edits, patch, cron>>

-----------------------------------------------------------------------------
(* The auto-extend cron.                                                    *)

\* series_ids_needing_extension: no instance beyond the threshold. (ends_at is
\* set nowhere, so no series is past its end.)
NeedyMutant == {s \in Series : Exists(s)}
Needy       == {s \in Series : Exists(s) /\ \A e \in Instances(s) : e.day <= now + Threshold}

FirstIds(set) == {s \in set : Cardinality({t \in set : t < s}) < BatchLimit}

CronSelect(c) ==
  /\ MayStart
  /\ cron[c].pc = "idle"
  /\ Needy # {}
  /\ cron' = [cron EXCEPT ![c] =
       [IdleCron EXCEPT !.pc = "load", !.todo = FirstIds(Needy), !.at = now]]
  /\ UNCHANGED <<now, series, events, ins, rev, edits, patch, del>>

\* Templates are read here, for the whole batch.
CronLoad(c) ==
  LET found == {s \in cron[c].todo : Exists(s)} IN
  /\ cron[c].pc = "load"
  /\ cron' = [cron EXCEPT ![c] =
       IF found = {} THEN IdleCron
       ELSE [cron[c] EXCEPT !.pc = "loop", !.todo = found,
                            !.base = [s \in Series |-> series[s].base]]]
  /\ UNCHANGED <<now, series, events, ins, rev, edits, patch, del>>

\* The rows to insert. last: the furthest upcoming instance.
DayAfterMutant(last) == last.day
DayAfter(last)       == last.day + 1

WithinHorizon(c, plan) == {x \in plan : x.day <= cron[c].at + Horizon}

Extension(c, last) ==
  IF last.day > cron[c].at + Threshold THEN {}
  ELSE WithinHorizon(c, Numbered(DayAfter(last), Limit, last.num))
Regeneration(c) == WithinHorizon(c, Numbered(cron[c].at + 1, Limit, 0))

CronNext(c, s) ==
  IF cron[c].todo = {s} THEN IdleCron
  ELSE [cron[c] EXCEPT !.pc = "loop", !.todo = cron[c].todo \ {s}, !.sid = None, !.rows = {}]

CronPlan(c, s, rows) ==
  cron' = [cron EXCEPT ![c] = IF rows = {} THEN CronNext(c, s)
                              ELSE [cron[c] EXCEPT !.pc = "insert", !.sid = s, !.rows = rows]]

CronLast(c, s) ==
  /\ cron[c].pc = "loop"
  /\ s \in cron[c].todo
  /\ \/ s \in NoTime /\ CronPlan(c, s, {})
     \/ /\ s \notin NoTime
        /\ Upcoming(s, now) = {}
        /\ CronPlan(c, s, Regeneration(c))
     \/ /\ s \notin NoTime
        /\ \E last \in Upcoming(s, now) :
             /\ \A e \in Upcoming(s, now) : e.day <= last.day
             /\ CronPlan(c, s, Extension(c, last))
  /\ UNCHANGED <<now, series, events, ins, rev, edits, patch, del>>

\* The rows hold what base_event_data holds, and no organizer_org_id. A row of a
\* series deleted meanwhile is refused by the foreign key.
CronInsert(c) ==
  LET s == cron[c].sid IN
  /\ cron[c].pc = "insert"
  /\ IF OrganizerRequired \/ ~Exists(s)
     THEN UNCHANGED <<events, ins>>
     ELSE /\ events' = events \cup Rows(s, cron[c].rows, cron[c].base[s])
          /\ ins'    = ins + 1
  /\ cron' = [cron EXCEPT ![c] = CronNext(c, s)]
  /\ UNCHANGED <<now, series, rev, edits, patch, del>>

-----------------------------------------------------------------------------
(* One event: PATCH and DELETE /service/events/:id; and the calendar.      *)

EditEvent(e, day) ==
  /\ e \in events
  /\ edits < MaxEdits
  /\ day # e.day
  /\ events' = (events \ {e}) \cup {[e EXCEPT !.day = day, !.own = TRUE]}
  /\ edits'  = edits + 1
  /\ UNCHANGED <<now, series, ins, rev, patch, del, cron>>

DeleteEvent(e) ==
  /\ e \in events
  /\ edits < MaxEdits
  /\ events' = events \ {e}
  /\ edits'  = edits + 1
  /\ UNCHANGED <<now, series, ins, rev, patch, del, cron>>

\* A day passes. Calls take less than a day, so none sees two midnights.
Tick ==
  /\ now < MaxDay
  /\ \A p \in Patchers : patch[p].pc # "idle" => patch[p].at = now
  /\ \A c \in Crons : cron[c].pc # "idle" => cron[c].at = now
  /\ now' = now + 1
  /\ UNCHANGED <<series, events, ins, rev, edits, patch, del, cron>>

CreateStep == \E s \in Series, start \in Starts, count \in Counts :
                CreateInstances(s, start, count)
PatchStep(p) ==
  \/ \E ids \in {patch[p].todo} \cup {{id} : id \in patch[p].todo} : PatchApply(p, ids)
  \/ PatchBase(p)
  \/ PatchRefetch(p) \/ PatchShrink(p)
DeleteStep(d) == DeleteInstances(d) \/ DeleteRow(d)
CronStep(c) ==
  \/ CronSelect(c) \/ CronLoad(c)
  \/ \E s \in Series : CronLast(c, s)
  \/ CronInsert(c)

Request ==
  \/ \E s \in Series : CreateSeries(s)
  \/ \E p \in Patchers, s \in Series, edit, each \in BOOLEAN, keep \in Counts \cup {NoCount} :
       PatchFetch(p, s, edit, each, keep)
  \/ \E d \in Deleters, s \in Series : DeleteSeries(d, s)
  \/ \E e \in events : DeleteEvent(e) \/ \E day \in 0 .. MaxDay : EditEvent(e, day)

Next ==
  \/ Request
  \/ CreateStep
  \/ \E p \in Patchers : PatchStep(p)
  \/ \E d \in Deleters : DeleteStep(d)
  \/ \E c \in Crons : CronStep(c)
  \/ Tick

Spec == Init /\ [][Next]_vars

\* Requests once begun are carried on, days pass, and the cron is called every
\* day, in a moment without requests under Exclusive (hence strong fairness).
\* Nothing is assumed of publishers.
Fairness ==
  /\ WF_vars(CreateStep)
  /\ \A p \in Patchers : WF_vars(PatchStep(p))
  /\ \A d \in Deleters : WF_vars(DeleteStep(d))
  /\ \A c \in Crons : SF_vars(CronStep(c))
  /\ WF_vars(Tick)
FairSpec == Spec /\ Fairness

-----------------------------------------------------------------------------
(* What holds while requests and cron calls do not overlap (Exclusive).     *)

\* The cron never materializes a date of a series twice, whatever instances
\* were moved, removed or let pass between its runs.
NoTwinInstances ==
  \A e, f \in events :
    (e.sid # None /\ e.sid = f.sid /\ e.day = f.day /\ ~e.own /\ ~f.own) => e = f

\* No event outlives its series: the row is deleted when nothing refers to it.
NoOrphans == \A e \in events : e.sid # None

\* The instances of a series are one for each date, and all of them the series'.
SeriesIntact == NoTwinInstances /\ NoOrphans

\* "Template-first": when no PATCH is under way, every upcoming instance that
\* was not edited singly shows the template the next instances will be made
\* from, unless the last PATCH reported fewer updates than instances.
UpcomingFollowTemplate ==
  \A s \in Series :
    (Exists(s) /\ series[s].whole /\ \A p \in Patchers : patch[p].sid # s)
      => \A e \in Upcoming(s, now) : e.own \/ e.rev = series[s].base

(* What holds however they overlap.                                         *)

\* "Past instances are preserved": a PATCH changes or removes no instance of a
\* day before the one it was received on (one moved there singly apart: its id
\* may have been fetched before it moved).
PastPreserved ==
  [][\A p \in Patchers :
       (patch[p].pc \in {"apply", "shrink"} /\ patch'[p] # patch[p])
         => {e \in events : e.day < patch[p].at /\ ~e.own} \subseteq events']_vars

\* "Unbounded series materialize a rolling 6-week horizon and extend
\* automatically via daily cron": a series the publisher keeps is extended past
\* the refill threshold again and again, through any backlog the batch limit
\* leaves.
Covered(s) == \E e \in Instances(s) : e.day > now + Threshold
HorizonKept ==
  \A s \in Series \ NoTime : Exists(s) ~> (Covered(s) \/ ~Exists(s))
=============================================================================
