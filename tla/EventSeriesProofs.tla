-------------------------- MODULE EventSeriesProofs --------------------------
(***************************************************************************)
(* Theorems about EventSeries for every set of series, every number of     *)
(* requests and cron calls, every cadence, horizon, limit and calendar;    *)
(* and about Recurrence: what is told and read of a recurrence, and what   *)
(* its dates have to do with that, for every first day and count.          *)
(***************************************************************************)
EXTENDS EventSeries, Recurrence, ListProofs, FiniteSetTheorems, TLAPS

-----------------------------------------------------------------------------
(* Types *)

\* what a request or a call is about, while there is one
Sited ==
  /\ \A p \in Patchers : IF patch[p].pc = "idle" THEN patch[p] = IdlePatch
                                                 ELSE patch[p].sid \in Series
  /\ \A d \in Deleters : IF del[d].pc = "idle" THEN del[d] = IdleDel
                                               ELSE del[d].sid \in Series
  /\ \A c \in Crons : IF cron[c].pc = "idle" THEN cron[c] = IdleCron
                                             ELSE cron[c].pc = "insert" => cron[c].sid \in Series

\* rows of an INSERT that was made
Born == {e \in Event : e.ins \in 1 .. ins}

Typed ==
  /\ now \in Nat /\ ins \in Nat /\ rev \in 0 .. MaxRev /\ edits \in 0 .. MaxEdits
  /\ series \in [Series -> SeriesRow] /\ events \subseteq Born
  /\ patch \in [Patchers -> Patch] /\ del \in [Deleters -> Delete] /\ cron \in [Crons -> CronCall]
  /\ Sited

LEMMA TypedIs == Typed => TypeOK
  BY DEF Typed, TypeOK, Born

LEMMA IdleMade == IdlePatch \in Patch /\ IdleDel \in Delete /\ IdleCron \in CronCall
                  /\ IdlePatch.pc = "idle" /\ IdleDel.pc = "idle" /\ IdleCron.pc = "idle"
                  /\ IdlePatch.todo = {} /\ IdlePatch.sid = None /\ IdleCron.rows = {}
  BY BoundAssumption DEF IdlePatch, IdleDel, IdleCron, Patch, Delete, CronCall

LEMMA InitTyped == Init => Typed
  <1> SUFFICES ASSUME Init PROVE Typed
    OBVIOUS
  <1>1. series \in [Series -> SeriesRow]
    BY BoundAssumption DEF Init, SeriesRow
  <1>2. /\ now \in Nat /\ ins \in Nat /\ rev \in 0 .. MaxRev /\ edits \in 0 .. MaxEdits
        /\ events \subseteq Born
    BY BoundAssumption DEF Init
  <1>3. /\ patch \in [Patchers -> Patch] /\ del \in [Deleters -> Delete] /\ cron \in [Crons -> CronCall]
        /\ Sited
    BY IdleMade DEF Init, Sited
  <1> QED
    BY <1>1, <1>2, <1>3 DEF Typed

\* the numbers of the rows a request has in hand stay numbers of rows
LEMMA Wider ==
  ASSUME ins \in Nat, ins' \in Nat, ins <= ins'
  PROVE  Patch \subseteq Patch' /\ Delete \subseteq Delete'
  <1>1. EventIds \subseteq EventIds'
    BY DEF EventIds
  <1> QED
    BY <1>1 DEF Patch, Delete

LEMMA TypedBy ==
  ASSUME Typed, now' \in Nat, ins' \in Nat, ins <= ins', rev' \in 0 .. MaxRev, edits' \in 0 .. MaxEdits,
         series' \in [Series -> SeriesRow], events' \subseteq Born',
         patch' \in [Patchers -> Patch], del' \in [Deleters -> Delete], cron' \in [Crons -> CronCall],
         Sited'
  PROVE  Typed'
  <1>1. Patch \subseteq Patch' /\ Delete \subseteq Delete'
    BY Wider DEF Typed
  <1>2. series' \in [Series -> SeriesRow'] /\ cron' \in [Crons -> CronCall']
    BY DEF SeriesRow, CronCall
  <1>3. patch' \in [Patchers -> Patch'] /\ del' \in [Deleters -> Delete']
    BY <1>1
  <1> QED
    BY <1>2, <1>3 DEF Typed

\* steps of one request, and those of none
LEMMA PatchTyped ==
  ASSUME Typed, NEW p \in Patchers, NEW f \in Patch, patch' = [patch EXCEPT ![p] = f],
         f.pc = "idle" => f = IdlePatch, f.pc # "idle" => f.sid \in Series,
         UNCHANGED <<now, ins, edits, del, cron>>, rev' \in 0 .. MaxRev,
         series' \in [Series -> SeriesRow], events' \subseteq Born'
  PROVE  /\ Typed'
         /\ patch'[p] = f /\ \A q \in Patchers : q # p => patch'[q] = patch[q]
  <1>1. patch'[p] = f /\ \A q \in Patchers : q # p => patch'[q] = patch[q]
    BY DEF Typed
  <1>2. Sited'
    BY <1>1 DEF Typed, Sited, IdlePatch, IdleDel, IdleCron
  <1>3. patch' \in [Patchers -> Patch]
    BY DEF Typed
  <1>4. now' \in Nat /\ ins' \in Nat /\ ins <= ins' /\ edits' \in 0 .. MaxEdits
        /\ del' \in [Deleters -> Delete] /\ cron' \in [Crons -> CronCall]
    BY DEF Typed
  <1> QED
    BY <1>1, <1>2, <1>3, <1>4, TypedBy

LEMMA DelTyped ==
  ASSUME Typed, NEW d \in Deleters, NEW f \in Delete, del' = [del EXCEPT ![d] = f],
         f.pc = "idle" => f = IdleDel, f.pc # "idle" => f.sid \in Series,
         UNCHANGED <<now, ins, rev, edits, patch, cron>>,
         series' \in [Series -> SeriesRow], events' \subseteq Born'
  PROVE  /\ Typed'
         /\ del'[d] = f /\ \A q \in Deleters : q # d => del'[q] = del[q]
  <1>1. del'[d] = f /\ \A q \in Deleters : q # d => del'[q] = del[q]
    BY DEF Typed
  <1>2. Sited'
    BY <1>1 DEF Typed, Sited, IdlePatch, IdleDel, IdleCron
  <1>3. del' \in [Deleters -> Delete]
    BY DEF Typed
  <1>4. now' \in Nat /\ ins' \in Nat /\ ins <= ins' /\ edits' \in 0 .. MaxEdits /\ rev' \in 0 .. MaxRev
        /\ patch' \in [Patchers -> Patch] /\ cron' \in [Crons -> CronCall]
    BY DEF Typed
  <1> QED
    BY <1>1, <1>2, <1>3, <1>4, TypedBy

LEMMA CronTyped ==
  ASSUME Typed, NEW c \in Crons, NEW f \in CronCall, cron' = [cron EXCEPT ![c] = f],
         f.pc = "idle" => f = IdleCron, f.pc = "insert" => f.sid \in Series,
         UNCHANGED <<now, series, rev, edits, patch, del>>,
         ins' \in Nat, ins <= ins', events' \subseteq Born'
  PROVE  /\ Typed'
         /\ cron'[c] = f /\ \A q \in Crons : q # c => cron'[q] = cron[q]
  <1>1. cron'[c] = f /\ \A q \in Crons : q # c => cron'[q] = cron[q]
    BY DEF Typed
  <1>2. Sited'
    BY <1>1 DEF Typed, Sited, IdlePatch, IdleDel, IdleCron
  <1>3. cron' \in [Crons -> CronCall]
    BY DEF Typed
  <1>4. now' \in Nat /\ edits' \in 0 .. MaxEdits /\ rev' \in 0 .. MaxRev
        /\ patch' \in [Patchers -> Patch] /\ del' \in [Deleters -> Delete]
        /\ series' \in [Series -> SeriesRow]
    BY DEF Typed
  <1> QED
    BY <1>1, <1>2, <1>3, <1>4, TypedBy

LEMMA RestTyped ==
  ASSUME Typed, UNCHANGED <<patch, del, cron>>,
         now' \in Nat, ins' \in Nat, ins <= ins', rev' \in 0 .. MaxRev, edits' \in 0 .. MaxEdits,
         series' \in [Series -> SeriesRow], events' \subseteq Born'
  PROVE  Typed'
  <1>1. Sited'
    BY DEF Typed, Sited, IdlePatch, IdleDel, IdleCron
  <1>2. /\ patch' \in [Patchers -> Patch] /\ del' \in [Deleters -> Delete] /\ cron' \in [Crons -> CronCall]
    BY DEF Typed
  <1> QED
    BY <1>1, <1>2, TypedBy

-----------------------------------------------------------------------------
(* Arithmetic of the calendar *)

LEMMA Product == ASSUME NEW i \in Nat PROVE i * Step \in Nat
  BY CadenceAssumption

LEMMA Apart == ASSUME NEW i \in Nat, NEW j \in Nat, i * Step = j * Step PROVE i = j
  <1>1. ASSUME NEW x \in Nat, NEW y \in Nat, x < y PROVE x * Step < y * Step
    <2>1. Step \in Nat /\ Step >= 1
      BY CadenceAssumption
    <2> DEFINE d == y - x
    <2>2. d \in Nat /\ d >= 1 /\ y = x + d
      BY <1>1
    <2>3. y * Step = x * Step + d * Step /\ d * Step >= 1 /\ x * Step \in Nat /\ d * Step \in Nat
      BY <2>1, <2>2
    <2> QED
      BY <2>3
  <1>2. i < j \/ j < i \/ i = j
    OBVIOUS
  <1>3. i * Step \in Nat /\ j * Step \in Nat
    BY Product
  <1> QED
    BY <1>1, <1>2, <1>3

\* what generateInstanceDates gives: rows to come, one for each day and each number
LEMMA Planned ==
  ASSUME NEW first \in Nat, NEW n \in Nat, NEW after \in Nat
  PROVE  /\ Numbered(first, n, after) \subseteq RowPlan
         /\ \A x \in Numbered(first, n, after) : x.day >= first
         /\ \A x, y \in Numbered(first, n, after) : x.day = y.day \/ x.num = y.num => x = y
  <1> DEFINE row(i) == [day |-> first + i * Step, num |-> after + i + 1]
  <1>1. ASSUME NEW x \in Numbered(first, n, after)
        PROVE  \E i \in Nat : i * Step \in Nat /\ x = row(i)
    <2>1. PICK i \in 0 .. n - 1 : x = row(i)
      BY <1>1 DEF Numbered
    <2> QED
      BY <2>1, Product
  <1>2. ASSUME NEW x \in Numbered(first, n, after) PROVE x \in RowPlan /\ x.day >= first
    <2>1. PICK i \in Nat : i * Step \in Nat /\ x = row(i)
      BY <1>1
    <2> QED
      BY <2>1 DEF RowPlan
  <1>3. ASSUME NEW x \in Numbered(first, n, after), NEW y \in Numbered(first, n, after),
               x.day = y.day \/ x.num = y.num
        PROVE  x = y
    <2>1. PICK i \in Nat : i * Step \in Nat /\ x = row(i)
      BY <1>1
    <2>2. PICK j \in Nat : j * Step \in Nat /\ y = row(j)
      BY <1>1
    <2> DEFINE u == i * Step
               v == j * Step
    <2>a. x.day = first + u /\ x.num = after + i + 1 /\ u \in Nat
      BY <2>1
    <2>b. y.day = first + v /\ y.num = after + j + 1 /\ v \in Nat
      BY <2>2
    <2> HIDE DEF u, v
    <2>c. u = v \/ i = j
      BY <1>3, <2>a, <2>b
    <2>3. i * Step = j * Step \/ i = j
      BY <2>c DEF u, v
    <2>4. i = j
      BY <2>3, Apart
    <2> QED
      BY <2>1, <2>2, <2>4
  <1> QED
    BY <1>2, <1>3

LEMMA Lengths == ASSUME NEW k \in Counts PROVE Length(k) \in Nat /\ Limit \in Nat
  BY CadenceAssumption DEF Length

-----------------------------------------------------------------------------
(* What the steps of each operation do *)

LEMMA BornKept == ASSUME UNCHANGED ins PROVE Born' = Born
  BY DEF Born, Event

LEMMA SeriesPut ==
  ASSUME NEW f \in [Series -> SeriesRow], NEW s \in Series, NEW r \in SeriesRow, NEW g,
         g = [f EXCEPT ![s] = r]
  PROVE  /\ g \in [Series -> SeriesRow]
         /\ g[s] = r
         /\ \A t \in Series : t # s => g[t] = f[t]
  OBVIOUS

LEMMA SeriesMark ==
  ASSUME NEW f \in [Series -> SeriesRow], NEW s \in Series, NEW a \in {"none", "making", "row", "gone"},
         NEW g, g = [f EXCEPT ![s].st = a]
  PROVE  /\ g \in [Series -> SeriesRow]
         /\ g[s].st = a /\ g[s].base = f[s].base /\ g[s].whole = f[s].whole
         /\ \A t \in Series : t # s => g[t] = f[t]
  BY DEF SeriesRow

LEMMA Ided == ASSUME Typed, NEW set \in SUBSET events PROVE {Id(e) : e \in set} \in SUBSET EventIds
  BY DEF Typed, Born, Event, Id, EventIds

LEMMA DoesCreateSeries ==
  ASSUME Typed, NEW s \in Series, CreateSeries(s)
  PROVE  /\ Typed'
         /\ series'[s] = [st |-> "making", base |-> rev, whole |-> TRUE]
         /\ \A t \in Series : t # s => series'[t] = series[t]
  <1> DEFINE r == [st |-> "making", base |-> rev, whole |-> TRUE]
  <1>1. r \in SeriesRow /\ series' = [series EXCEPT ![s] = r]
    BY DEF Typed, SeriesRow, CreateSeries
  <1>2. series' \in [Series -> SeriesRow] /\ series'[s] = r /\ \A t \in Series : t # s => series'[t] = series[t]
    BY <1>1, SeriesPut DEF Typed
  <1>3. UNCHANGED <<now, events, ins, rev, edits, patch, del, cron>>
    BY DEF CreateSeries
  <1>4. events' \subseteq Born'
    BY <1>3, BornKept DEF Typed
  <1>5. Typed'
    BY <1>2, <1>3, <1>4, RestTyped DEF Typed
  <1> QED
    BY <1>2, <1>5

\* the rows an INSERT adds
LEMMA Added ==
  ASSUME Typed, NEW s \in Series, NEW plan \in SUBSET RowPlan, NEW r \in 0 .. MaxRev, ins' = ins + 1
  PROVE  /\ events \cup Rows(s, plan, r) \subseteq Born'
         /\ \A e \in Rows(s, plan, r) : /\ e.sid = s /\ e.rev = r /\ ~e.own /\ e.ins = ins + 1
                                        /\ \E x \in plan : e.day = x.day /\ e.num = x.num
         /\ \A e, f \in Rows(s, plan, r) : e.day = f.day /\ e.num = f.num => e = f
  <1> DEFINE row(x) == [sid |-> s, day |-> x.day, num |-> x.num, rev |-> r, ins |-> ins + 1, own |-> FALSE]
  <1>1. ASSUME NEW e \in Rows(s, plan, r)
        PROVE  \E x \in plan : e = row(x)
    BY <1>1 DEF Rows
  <1>2. ASSUME NEW e \in Rows(s, plan, r)
        PROVE  /\ e.sid = s /\ e.rev = r /\ ~e.own /\ e.ins = ins + 1
               /\ \E x \in plan : e.day = x.day /\ e.num = x.num
               /\ e \in Born'
    <2>1. PICK x \in plan : e = row(x)
      BY <1>1
    <2>2. x \in RowPlan
      OBVIOUS
    <2> QED
      BY <2>1, <2>2 DEF RowPlan, Born, Event, Typed
  <1>3. ASSUME NEW e \in events PROVE e \in Born'
    BY <1>3 DEF Typed, Born, Event
  <1>4. ASSUME NEW e \in Rows(s, plan, r), NEW f \in Rows(s, plan, r), e.day = f.day, e.num = f.num
        PROVE  e = f
    <2>1. PICK x \in plan : e = row(x)
      BY <1>1
    <2>2. PICK y \in plan : f = row(y)
      BY <1>1
    <2> QED
      BY <1>4, <2>1, <2>2
  <1> QED
    BY <1>2, <1>3, <1>4

LEMMA DoesCreateInstances ==
  ASSUME Typed, NEW s \in Series, NEW start \in Starts, NEW count \in Counts,
         CreateInstances(s, start, count)
  PROVE  /\ Typed'
         /\ series[s].st = "making" /\ series'[s].st \in {"row", "gone"}
         /\ series'[s].base = series[s].base /\ series'[s].whole = series[s].whole
         /\ \A t \in Series : t # s => series'[t] = series[t]
         /\ \/ series'[s].st = "gone" /\ events' = events
            \/ /\ series'[s].st = "row" /\ ins' = ins + 1
               /\ events' = events \cup Rows(s, Numbered(start, Length(count), 0), series[s].base)
  <1> DEFINE plan == Numbered(start, Length(count), 0)
  <1>1. plan \in SUBSET RowPlan /\ series[s].base \in 0 .. MaxRev
    BY Planned, Lengths, CadenceAssumption DEF Typed, SeriesRow
  <1>2. \/ /\ series' = [series EXCEPT ![s].st = "row"] /\ ins' = ins + 1
           /\ events' = events \cup Rows(s, plan, series[s].base)
        \/ /\ series' = [series EXCEPT ![s].st = "gone"] /\ ins' = ins /\ events' = events
    BY DEF CreateInstances
  <1>3. /\ series' \in [Series -> SeriesRow] /\ series'[s].st \in {"row", "gone"}
        /\ series'[s].base = series[s].base /\ series'[s].whole = series[s].whole
        /\ \A t \in Series : t # s => series'[t] = series[t]
        /\ \/ /\ series'[s].st = "row" /\ ins' = ins + 1
              /\ events' = events \cup Rows(s, plan, series[s].base)
           \/ series'[s].st = "gone" /\ events' = events
    <2>1. CASE series' = [series EXCEPT ![s].st = "row"] /\ ins' = ins + 1
               /\ events' = events \cup Rows(s, plan, series[s].base)
      BY <2>1, SeriesMark DEF Typed
    <2>2. CASE series' = [series EXCEPT ![s].st = "gone"] /\ ins' = ins /\ events' = events
      BY <2>2, SeriesMark DEF Typed
    <2> QED
      BY <1>2, <2>1, <2>2
  <1>4. UNCHANGED <<now, rev, edits, patch, del, cron>> /\ series[s].st = "making"
    BY DEF CreateInstances
  <1>5. ins' \in Nat /\ ins <= ins'
    BY <1>2 DEF Typed
  <1>6. events' \subseteq Born'
    BY <1>1, <1>2, Added, BornKept DEF Typed
  <1>7. Typed'
    BY <1>3, <1>4, <1>5, <1>6, RestTyped DEF Typed
  <1> HIDE DEF plan
  <1>8. plan = Numbered(start, Length(count), 0)
    BY DEF plan
  <1> QED
    BY <1>3, <1>4, <1>7, <1>8

LEMMA DoesPatchFetch ==
  ASSUME Typed, NEW p \in Patchers, NEW s \in Series, NEW edit \in BOOLEAN, NEW each \in BOOLEAN,
         NEW keep \in Counts \cup {NoCount}, PatchFetch(p, s, edit, each, keep)
  PROVE  /\ Typed'
         /\ patch[p].pc = "idle"
         /\ patch'[p].sid = s /\ patch'[p].at = now /\ patch'[p].pc \in {"apply", "base"}
         /\ patch'[p].todo = {Id(e) : e \in Upcoming(s, now)}
         /\ patch'[p].pc = "base" => /\ patch'[p].rev = series[s].base
                                     /\ patch'[p].whole => series[s].whole
         /\ Exists(s)
         /\ \A q \in Patchers : q # p => patch'[q] = patch[q]
  <1> DEFINE w == edit \/ series[s].whole
             ids == {Id(e) : e \in Upcoming(s, now)}
             r == IF edit THEN rev + 1 ELSE series[s].base
             a == IF edit THEN "apply" ELSE "base"
             f == [pc |-> a, sid |-> s, rev |-> r, each |-> each, keep |-> keep,
                   at |-> now, todo |-> ids, whole |-> w]
  <1>1. /\ patch' = [patch EXCEPT ![p] = f] /\ patch[p].pc = "idle" /\ Exists(s)
        /\ rev < MaxRev /\ rev' = rev + 1
        /\ UNCHANGED <<now, series, events, ins, edits, del, cron>>
    BY DEF PatchFetch
  <1>2. r \in 0 .. MaxRev /\ w \in BOOLEAN /\ a \in {"apply", "base"} /\ now \in Nat
        /\ (a = "base" => r = series[s].base)
    BY <1>1, BoundAssumption DEF Typed, SeriesRow
  <1>3. ids \in SUBSET EventIds
    BY Ided DEF Upcoming, Instances
  <1>4. ids = {Id(e) : e \in Upcoming(s, now)} /\ (a = "base" /\ w => series[s].whole)
    OBVIOUS
  <1> HIDE DEF w, ids, r, a
  <1>5. /\ f \in Patch /\ f.pc = a /\ f.sid = s /\ f.rev = r /\ f.at = now /\ f.todo = ids
        /\ (f.whole <=> w)
    BY <1>2, <1>3 DEF Patch
  <1>6. rev' \in 0 .. MaxRev /\ series' \in [Series -> SeriesRow] /\ events' \subseteq Born'
    BY <1>1, BoundAssumption, BornKept DEF Typed
  <1> HIDE DEF f
  <1>7. Typed' /\ patch'[p] = f /\ \A q \in Patchers : q # p => patch'[q] = patch[q]
    BY <1>1, <1>2, <1>5, <1>6, PatchTyped
  <1> QED
    BY <1>1, <1>2, <1>4, <1>5, <1>7

\* what the UPDATEs of a template PATCH do to the rows they are for
LEMMA Updates ==
  ASSUME Typed, NEW ids, NEW r \in 0 .. MaxRev
  PROVE  /\ Updated(ids, r) \subseteq Born
         /\ \A f \in Updated(ids, r) : \E e \in events :
              /\ Id(f) = Id(e) /\ f.ins = e.ins /\ f.sid = e.sid /\ f.day = e.day /\ (f.own <=> e.own)
              /\ f = IF Id(e) \in ids THEN [e EXCEPT !.rev = r] ELSE e
              /\ Id(e) \in ids => f.rev = r
         /\ \A e \in events : Id(e) \notin ids => e \in Updated(ids, r)
  <1>1. ASSUME NEW f \in Updated(ids, r)
        PROVE  \E e \in events : f = IF Id(e) \in ids THEN [e EXCEPT !.rev = r] ELSE e
    BY <1>1 DEF Updated
  <1>2. ASSUME NEW e \in events
        PROVE  /\ [e EXCEPT !.rev = r] \in Born /\ e \in Born
               /\ Id([e EXCEPT !.rev = r]) = Id(e)
               /\ [e EXCEPT !.rev = r].ins = e.ins /\ [e EXCEPT !.rev = r].sid = e.sid
               /\ [e EXCEPT !.rev = r].day = e.day /\ ([e EXCEPT !.rev = r].own <=> e.own)
               /\ [e EXCEPT !.rev = r].rev = r
    BY DEF Typed, Born, Event, Id
  <1>3. \A e \in events : Id(e) \notin ids => e \in Updated(ids, r)
    BY DEF Updated
  <1>4. ASSUME NEW f \in Updated(ids, r)
        PROVE  /\ f \in Born
               /\ \E e \in events :
                    /\ Id(f) = Id(e) /\ f.ins = e.ins /\ f.sid = e.sid /\ f.day = e.day /\ (f.own <=> e.own)
                    /\ f = IF Id(e) \in ids THEN [e EXCEPT !.rev = r] ELSE e
                    /\ Id(e) \in ids => f.rev = r
    <2>1. PICK e \in events : f = IF Id(e) \in ids THEN [e EXCEPT !.rev = r] ELSE e
      BY <1>1
    <2>2. CASE Id(e) \in ids
      BY <1>2, <2>1, <2>2
    <2>3. CASE Id(e) \notin ids
      BY <1>2, <2>1, <2>3
    <2> QED
      BY <2>2, <2>3
  <1> QED
    BY <1>3, <1>4

LEMMA DoesPatchApply ==
  ASSUME Typed, NEW p \in Patchers, NEW ids, PatchApply(p, ids)
  PROVE  /\ Typed'
         /\ patch[p].pc = "apply" /\ patch'[p].pc \in {"apply", "base"} /\ ids \subseteq patch[p].todo
         /\ patch'[p].todo = patch[p].todo \ ids /\ (patch'[p].pc = "base" => patch'[p].todo = {})
         /\ patch'[p].sid = patch[p].sid /\ patch'[p].rev = patch[p].rev /\ patch'[p].at = patch[p].at
         /\ patch'[p].whole => patch[p].whole /\ events' = Updated(ids, patch[p].rev)
         /\ events' = events \/ events' = Updated(ids, patch[p].rev)
         /\ \A q \in Patchers : q # p => patch'[q] = patch[q]
  <1>1. PICK done \in {TRUE, ~WritesFail} :
          /\ events' = IF done THEN Updated(ids, patch[p].rev) ELSE events
          /\ patch' = [patch EXCEPT ![p] =
               [patch[p] EXCEPT !.pc = IF patch[p].todo \ ids = {} THEN "base" ELSE "apply",
                                !.todo = patch[p].todo \ ids, !.whole = patch[p].whole /\ done]]
    BY DEF PatchApply
  <1> DEFINE rest == patch[p].todo \ ids
             w == patch[p].whole /\ done
             a == IF rest = {} THEN "base" ELSE "apply"
             f == [patch[p] EXCEPT !.pc = a, !.todo = rest, !.whole = w]
  <1>2. /\ patch[p].pc = "apply" /\ ids \subseteq patch[p].todo
        /\ UNCHANGED <<now, series, ins, rev, edits, del, cron>>
    BY DEF PatchApply
  <1>3. patch[p] \in Patch /\ rest \in SUBSET EventIds /\ w \in BOOLEAN
        /\ patch[p].rev \in 0 .. MaxRev /\ patch[p].sid \in Series
    BY <1>2, SwitchAssumption DEF Typed, Patch, Sited
  <1>4. a \in {"apply", "base"} /\ (a = "base" => rest = {}) /\ rest = patch[p].todo \ ids
        /\ patch' = [patch EXCEPT ![p] = f]
    BY <1>1
  <1>5. w => patch[p].whole /\ events' = Updated(ids, patch[p].rev)
    BY <1>1
  <1>6. events' = events \/ events' = Updated(ids, patch[p].rev)
    BY <1>1
  <1> HIDE DEF rest, w, a
  <1>7. /\ f \in Patch /\ f.pc = a /\ f.todo = rest /\ (f.whole <=> w)
        /\ f.sid = patch[p].sid /\ f.rev = patch[p].rev /\ f.at = patch[p].at
    BY <1>3, <1>4 DEF Patch
  <1>8. rev' \in 0 .. MaxRev /\ series' \in [Series -> SeriesRow] /\ events' \subseteq Born'
    BY <1>2, <1>3, <1>6, Updates, BornKept DEF Typed
  <1> HIDE DEF f
  <1>9. Typed' /\ patch'[p] = f /\ \A q \in Patchers : q # p => patch'[q] = patch[q]
    BY <1>2, <1>3, <1>4, <1>7, <1>8, PatchTyped
  <1> QED
    BY <1>2, <1>4, <1>5, <1>6, <1>7, <1>9

LEMMA DoesPatchBase ==
  ASSUME Typed, NEW p \in Patchers, PatchBase(p)
  PROVE  LET s == patch[p].sid IN
         /\ Typed'
         /\ patch[p].pc = "base" /\ s \in Series
         /\ patch'[p] = IdlePatch \/ (patch'[p].pc = "count" /\ patch'[p].todo = {} /\ patch'[p].sid = s
                                      /\ patch'[p].at = patch[p].at)
         /\ \A q \in Patchers : q # p => patch'[q] = patch[q]
         /\ \A t \in Series : t # s => series'[t] = series[t]
         /\ series'[s].st = series[s].st
         /\ Exists(s) => series'[s].base = patch[p].rev /\ (series'[s].whole <=> patch[p].whole)
  <1> DEFINE s == patch[p].sid
             row == IF Exists(s) THEN NewBase(series[s], patch[p]) ELSE series[s]
             f == IF patch[p].keep = NoCount THEN IdlePatch
                  ELSE [patch[p] EXCEPT !.pc = "count", !.todo = {}]
  <1>1. /\ patch[p].pc = "base" /\ series' = [series EXCEPT ![s] = row]
        /\ patch' = [patch EXCEPT ![p] = f]
        /\ UNCHANGED <<now, events, ins, rev, edits, del, cron>>
    BY DEF PatchBase
  <1>2. s \in Series /\ patch[p] \in Patch
    BY <1>1 DEF Typed, Sited
  <1>3. /\ row \in SeriesRow /\ row.st = series[s].st
        /\ Exists(s) => row.base = patch[p].rev /\ (row.whole <=> patch[p].whole)
    <2>1. series[s] \in SeriesRow
      BY <1>2 DEF Typed
    <2>2. NewBase(series[s], patch[p]) \in SeriesRow /\ NewBase(series[s], patch[p]).st = series[s].st
          /\ NewBase(series[s], patch[p]).base = patch[p].rev
          /\ (NewBase(series[s], patch[p]).whole <=> patch[p].whole)
      BY <1>2, <2>1 DEF NewBase, SeriesRow, Patch
    <2> QED
      BY <2>1, <2>2
  <1>4. /\ f \in Patch
        /\ f = IdlePatch \/ (f.pc = "count" /\ f.todo = {} /\ f.sid = s /\ f.at = patch[p].at)
    BY <1>2, IdleMade DEF Patch
  <1> HIDE DEF row, f
  <1>5. /\ series' \in [Series -> SeriesRow] /\ series'[s] = row
        /\ \A t \in Series : t # s => series'[t] = series[t]
    BY <1>1, <1>2, <1>3, SeriesPut DEF Typed
  <1>6. rev' \in 0 .. MaxRev /\ events' \subseteq Born'
    BY <1>1, BornKept DEF Typed
  <1>7. Typed' /\ patch'[p] = f /\ \A q \in Patchers : q # p => patch'[q] = patch[q]
    BY <1>1, <1>2, <1>4, <1>5, <1>6, IdleMade, PatchTyped
  <1> QED
    BY <1>1, <1>2, <1>3, <1>4, <1>5, <1>7

LEMMA DoesPatchRefetch ==
  ASSUME Typed, NEW p \in Patchers, PatchRefetch(p)
  PROVE  /\ Typed'
         /\ patch[p].pc = "count"
         /\ \/ patch'[p] = IdlePatch
            \/ /\ patch'[p].pc = "shrink" /\ patch'[p].sid = patch[p].sid /\ patch'[p].at = patch[p].at
               /\ \E gone \in SUBSET Upcoming(patch[p].sid, patch[p].at) :
                    patch'[p].todo = {Id(e) : e \in gone}
         /\ \A q \in Patchers : q # p => patch'[q] = patch[q]
  <1> DEFINE future == Upcoming(patch[p].sid, patch[p].at)
             f(ids) == [patch[p] EXCEPT !.pc = "shrink", !.todo = ids]
  <1>1. /\ patch[p].pc = "count" /\ UNCHANGED <<now, series, events, ins, rev, edits, del, cron>>
        /\ \/ patch' = [patch EXCEPT ![p] = IdlePatch]
           \/ \E gone \in SUBSET future : patch' = [patch EXCEPT ![p] = f({Id(e) : e \in gone})]
    BY DEF PatchRefetch, Excess
  <1>2. patch[p] \in Patch /\ patch[p].sid \in Series
    BY <1>1 DEF Typed, Sited
  <1>3. rev' \in 0 .. MaxRev /\ series' \in [Series -> SeriesRow] /\ events' \subseteq Born'
    BY <1>1, BornKept DEF Typed
  <1>4. CASE patch' = [patch EXCEPT ![p] = IdlePatch]
    <2>1. Typed' /\ patch'[p] = IdlePatch /\ \A q \in Patchers : q # p => patch'[q] = patch[q]
      BY <1>1, <1>3, <1>4, IdleMade, PatchTyped
    <2> QED
      BY <1>1, <2>1
  <1>5. CASE \E gone \in SUBSET future : patch' = [patch EXCEPT ![p] = f({Id(e) : e \in gone})]
    <2>1. PICK gone \in SUBSET future : patch' = [patch EXCEPT ![p] = f({Id(e) : e \in gone})]
      BY <1>5
    <2> DEFINE ids == {Id(e) : e \in gone}
               g == f(ids)
    <2>2. ids \in SUBSET EventIds
      BY Ided DEF Upcoming, Instances
    <2>3. patch' = [patch EXCEPT ![p] = g] /\ g = [patch[p] EXCEPT !.pc = "shrink", !.todo = ids]
      BY <2>1
    <2>4. ids = {Id(e) : e \in gone}
      OBVIOUS
    <2> HIDE DEF ids, g
    <2>5. g \in Patch /\ g.pc = "shrink" /\ g.todo = ids /\ g.sid = patch[p].sid /\ g.at = patch[p].at
      BY <1>2, <2>2, <2>3 DEF Patch
    <2>6. Typed' /\ patch'[p] = g /\ \A q \in Patchers : q # p => patch'[q] = patch[q]
      BY <1>1, <1>2, <1>3, <2>3, <2>5, PatchTyped
    <2> QED
      BY <1>1, <2>4, <2>5, <2>6
  <1> QED
    BY <1>1, <1>4, <1>5

LEMMA DoesPatchShrink ==
  ASSUME Typed, NEW p \in Patchers, PatchShrink(p)
  PROVE  /\ Typed'
         /\ patch[p].pc = "shrink" /\ patch'[p] = IdlePatch
         /\ events' = events \/ events' = {e \in events : Id(e) \notin patch[p].todo}
         /\ \A q \in Patchers : q # p => patch'[q] = patch[q]
  <1>1. /\ patch[p].pc = "shrink" /\ patch' = [patch EXCEPT ![p] = IdlePatch]
        /\ events' = events \/ events' = {e \in events : Id(e) \notin patch[p].todo}
        /\ UNCHANGED <<now, series, ins, rev, edits, del, cron>>
    BY DEF PatchShrink
  <1>2. rev' \in 0 .. MaxRev /\ series' \in [Series -> SeriesRow] /\ events' \subseteq Born'
    BY <1>1, BornKept DEF Typed
  <1>3. Typed' /\ patch'[p] = IdlePatch /\ \A q \in Patchers : q # p => patch'[q] = patch[q]
    BY <1>1, <1>2, IdleMade, PatchTyped
  <1> QED
    BY <1>1, <1>3

LEMMA DoesDeleteSeries ==
  ASSUME Typed, NEW d \in Deleters, NEW s \in Series, DeleteSeries(d, s)
  PROVE  /\ Typed'
         /\ del[d].pc = "idle" /\ del'[d].pc = "events" /\ del'[d].sid = s
         /\ \A e \in Instances(s) : Id(e) \in del'[d].todo
         /\ \A q \in Deleters : q # d => del'[q] = del[q]
  <1> DEFINE ids == {Id(e) : e \in Instances(s)}
             f == [pc |-> "events", sid |-> s, todo |-> ids]
  <1>1. /\ del[d].pc = "idle" /\ del' = [del EXCEPT ![d] = f]
        /\ UNCHANGED <<now, series, events, ins, rev, edits, patch, cron>>
    BY DEF DeleteSeries, ToDelete
  <1>2. ids \in SUBSET EventIds /\ \A e \in Instances(s) : Id(e) \in ids
    BY Ided DEF Instances
  <1> HIDE DEF ids
  <1>3. f \in Delete /\ f.pc = "events" /\ f.sid = s /\ f.todo = ids
    BY <1>2 DEF Delete
  <1>4. series' \in [Series -> SeriesRow] /\ events' \subseteq Born'
    BY <1>1, BornKept DEF Typed
  <1> HIDE DEF f
  <1>5. Typed' /\ del'[d] = f /\ \A q \in Deleters : q # d => del'[q] = del[q]
    BY <1>1, <1>3, <1>4, DelTyped
  <1> QED
    BY <1>1, <1>2, <1>3, <1>5

LEMMA DoesDeleteInstances ==
  ASSUME Typed, NEW d \in Deleters, DeleteInstances(d)
  PROVE  /\ Typed'
         /\ del[d].pc = "events" /\ del[d].sid \in Series
         /\ \/ del'[d] = IdleDel /\ events' = events
            \/ /\ del'[d].pc = "row" /\ del'[d].sid = del[d].sid
               /\ events' = {e \in events : Id(e) \notin del[d].todo}
         /\ \A q \in Deleters : q # d => del'[q] = del[q]
  <1> DEFINE g == [del[d] EXCEPT !.pc = "row", !.todo = {}]
  <1>1. /\ del[d].pc = "events"
        /\ \/ del' = [del EXCEPT ![d] = IdleDel] /\ events' = events
           \/ /\ del' = [del EXCEPT ![d] = g]
              /\ events' = {e \in events : Id(e) \notin del[d].todo}
        /\ UNCHANGED <<now, series, ins, rev, edits, patch, cron>>
    BY DEF DeleteInstances
  <1>2. del[d].sid \in Series /\ g \in Delete /\ g.pc = "row" /\ g.sid = del[d].sid
    BY <1>1 DEF Typed, Sited, Delete
  <1>3. series' \in [Series -> SeriesRow] /\ events' \subseteq Born'
    BY <1>1, BornKept DEF Typed
  <1> HIDE DEF g
  <1>4. CASE del' = [del EXCEPT ![d] = IdleDel] /\ events' = events
    <2>1. Typed' /\ del'[d] = IdleDel /\ \A q \in Deleters : q # d => del'[q] = del[q]
      BY <1>1, <1>3, <1>4, IdleMade, DelTyped
    <2> QED
      BY <1>1, <1>2, <1>4, <2>1
  <1>5. CASE del' = [del EXCEPT ![d] = g] /\ events' = {e \in events : Id(e) \notin del[d].todo}
    <2>1. Typed' /\ del'[d] = g /\ \A q \in Deleters : q # d => del'[q] = del[q]
      BY <1>1, <1>2, <1>3, <1>5, DelTyped
    <2> QED
      BY <1>1, <1>2, <1>5, <2>1
  <1> QED
    BY <1>1, <1>4, <1>5

LEMMA DoesDeleteRow ==
  ASSUME Typed, NEW d \in Deleters, DeleteRow(d)
  PROVE  /\ Typed'
         /\ del[d].pc = "row" /\ del[d].sid \in Series /\ del'[d] = IdleDel
         /\ series'[del[d].sid].st = "gone"
         /\ \A t \in Series : t # del[d].sid => series'[t] = series[t]
         /\ events' = {IF e.sid = del[d].sid THEN [e EXCEPT !.sid = None] ELSE e : e \in events}
         /\ \A f \in events' : \E e \in events :
              /\ Id(f) = Id(e) /\ f.ins = e.ins /\ f.day = e.day /\ (f.own <=> e.own)
              /\ f = IF e.sid = del[d].sid THEN [e EXCEPT !.sid = None] ELSE e
         /\ \A q \in Deleters : q # d => del'[q] = del[q]
  <1> DEFINE s == del[d].sid
  <1>1. /\ del[d].pc = "row" /\ del' = [del EXCEPT ![d] = IdleDel]
        /\ series' = [series EXCEPT ![s].st = "gone"]
        /\ events' = {IF e.sid = s THEN [e EXCEPT !.sid = None] ELSE e : e \in events}
        /\ UNCHANGED <<now, ins, rev, edits, patch, cron>>
    BY DEF DeleteRow
  <1>2. s \in Series
    BY <1>1 DEF Typed, Sited
  <1>3. /\ series' \in [Series -> SeriesRow] /\ series'[s].st = "gone"
        /\ \A t \in Series : t # s => series'[t] = series[t]
    BY <1>1, <1>2, SeriesMark DEF Typed
  <1>4. ASSUME NEW f \in events'
        PROVE  /\ f \in Born
               /\ \E e \in events :
                    /\ Id(f) = Id(e) /\ f.ins = e.ins /\ f.day = e.day /\ (f.own <=> e.own)
                    /\ f = IF e.sid = s THEN [e EXCEPT !.sid = None] ELSE e
    <2>1. PICK e \in events : f = IF e.sid = s THEN [e EXCEPT !.sid = None] ELSE e
      BY <1>1
    <2>2. e \in Event /\ e.ins \in 1 .. ins
      BY DEF Typed, Born
    <2>3. CASE e.sid = s
      BY <2>1, <2>2, <2>3 DEF Born, Event, Id
    <2>4. CASE e.sid # s
      BY <2>1, <2>2, <2>4 DEF Born
    <2> QED
      BY <2>3, <2>4
  <1>5. events' \subseteq Born'
    BY <1>1, <1>4, BornKept
  <1>6. Typed' /\ del'[d] = IdleDel /\ \A q \in Deleters : q # d => del'[q] = del[q]
    BY <1>1, <1>3, <1>5, IdleMade, DelTyped
  <1> QED
    BY <1>1, <1>2, <1>3, <1>4, <1>6

LEMMA DoesCronSelect ==
  ASSUME Typed, NEW c \in Crons, CronSelect(c)
  PROVE  /\ Typed'
         /\ cron[c].pc = "idle" /\ cron'[c].pc = "load" /\ cron'[c].at = now /\ cron'[c].rows = {}
         /\ \A q \in Crons : q # c => cron'[q] = cron[q]
  <1> DEFINE ids == FirstIds(Needy)
             f == [IdleCron EXCEPT !.pc = "load", !.todo = ids, !.at = now]
  <1>1. /\ cron[c].pc = "idle" /\ cron' = [cron EXCEPT ![c] = f]
        /\ UNCHANGED <<now, series, events, ins, rev, edits, patch, del>>
    BY DEF CronSelect
  <1>2. ids \in SUBSET Series /\ now \in Nat
    BY DEF FirstIds, Needy, Typed
  <1> HIDE DEF ids
  <1>3. f \in CronCall /\ f.pc = "load" /\ f.at = now /\ f.rows = {}
    BY <1>2, IdleMade DEF CronCall
  <1>4. ins' \in Nat /\ ins <= ins' /\ events' \subseteq Born'
    BY <1>1, BornKept DEF Typed
  <1> HIDE DEF f
  <1>5. Typed' /\ cron'[c] = f /\ \A q \in Crons : q # c => cron'[q] = cron[q]
    BY <1>1, <1>3, <1>4, CronTyped
  <1> QED
    BY <1>1, <1>3, <1>5

LEMMA DoesCronLoad ==
  ASSUME Typed, NEW c \in Crons, CronLoad(c)
  PROVE  /\ Typed'
         /\ cron[c].pc = "load"
         /\ \/ cron'[c] = IdleCron
            \/ /\ cron'[c].pc = "loop" /\ cron'[c].at = cron[c].at /\ cron'[c].rows = cron[c].rows
               /\ \A s \in Series : cron'[c].base[s] = series[s].base
         /\ \A q \in Crons : q # c => cron'[q] = cron[q]
  <1> DEFINE found == {s \in cron[c].todo : Exists(s)}
             base == [s \in Series |-> series[s].base]
             f == [cron[c] EXCEPT !.pc = "loop", !.todo = found, !.base = base]
  <1>1. /\ cron[c].pc = "load"
        /\ cron' = [cron EXCEPT ![c] = IdleCron] \/ cron' = [cron EXCEPT ![c] = f]
        /\ UNCHANGED <<now, series, events, ins, rev, edits, patch, del>>
    BY DEF CronLoad
  <1>2. /\ cron[c] \in CronCall /\ found \in SUBSET Series
        /\ base \in [Series -> 0 .. MaxRev] /\ \A s \in Series : base[s] = series[s].base
    BY DEF Typed, CronCall, SeriesRow
  <1> HIDE DEF found, base
  <1>3. f \in CronCall /\ f.pc = "loop" /\ f.at = cron[c].at /\ f.rows = cron[c].rows /\ f.base = base
    BY <1>2 DEF CronCall
  <1>4. ins' \in Nat /\ ins <= ins' /\ events' \subseteq Born'
    BY <1>1, BornKept DEF Typed
  <1> HIDE DEF f
  <1>5. CASE cron' = [cron EXCEPT ![c] = f]
    <2>1. Typed' /\ cron'[c] = f /\ \A q \in Crons : q # c => cron'[q] = cron[q]
      BY <1>1, <1>3, <1>4, <1>5, CronTyped
    <2> QED
      BY <1>1, <1>2, <1>3, <2>1
  <1>6. CASE cron' = [cron EXCEPT ![c] = IdleCron]
    <2>1. Typed' /\ cron'[c] = IdleCron /\ \A q \in Crons : q # c => cron'[q] = cron[q]
      BY <1>1, <1>4, <1>6, IdleMade, CronTyped
    <2> QED
      BY <1>1, <2>1
  <1> QED
    BY <1>1, <1>5, <1>6

LEMMA Nexts ==
  ASSUME Typed, NEW c \in Crons, NEW s, cron[c].pc # "idle"
  PROVE  /\ CronNext(c, s) \in CronCall /\ CronNext(c, s).pc # "insert"
         /\ \/ CronNext(c, s) = IdleCron
            \/ /\ CronNext(c, s).pc = "loop" /\ CronNext(c, s).rows = {}
               /\ CronNext(c, s).at = cron[c].at /\ CronNext(c, s).base = cron[c].base
  <1> DEFINE g == [cron[c] EXCEPT !.pc = "loop", !.todo = cron[c].todo \ {s}, !.sid = None, !.rows = {}]
  <1>1. cron[c] \in CronCall
    BY DEF Typed
  <1>2. g \in CronCall /\ g.pc = "loop" /\ g.rows = {} /\ g.at = cron[c].at /\ g.base = cron[c].base
    BY <1>1 DEF CronCall
  <1>3. CronNext(c, s) = IdleCron \/ CronNext(c, s) = g
    BY DEF CronNext
  <1> HIDE DEF g
  <1> QED
    BY <1>2, <1>3, IdleMade

\* a plan: rows to come, one for each day and each number
Plan(rows) == /\ rows \subseteq RowPlan
              /\ \A x, y \in rows : x.day = y.day \/ x.num = y.num => x = y

LEMMA DoesCronPlan ==
  ASSUME Typed, NEW c \in Crons, NEW s \in Series, NEW rows \in SUBSET RowPlan, CronPlan(c, s, rows),
         cron[c].pc = "loop", UNCHANGED <<now, series, events, ins, rev, edits, patch, del>>
  PROVE  /\ Typed'
         /\ \/ cron'[c] = IdleCron
            \/ /\ cron'[c].pc = "loop" /\ cron'[c].rows = {}
               /\ cron'[c].at = cron[c].at /\ cron'[c].base = cron[c].base
            \/ /\ cron'[c].pc = "insert" /\ cron'[c].sid = s /\ cron'[c].rows = rows
               /\ cron'[c].at = cron[c].at /\ cron'[c].base = cron[c].base
         /\ \A q \in Crons : q # c => cron'[q] = cron[q]
  <1> DEFINE f == [cron[c] EXCEPT !.pc = "insert", !.sid = s, !.rows = rows]
  <1>1. cron' = [cron EXCEPT ![c] = CronNext(c, s)] \/ cron' = [cron EXCEPT ![c] = f]
    BY DEF CronPlan
  <1>2. cron[c] \in CronCall
    BY DEF Typed
  <1>3. f \in CronCall /\ f.pc = "insert" /\ f.sid = s /\ f.rows = rows
        /\ f.at = cron[c].at /\ f.base = cron[c].base
    BY <1>2 DEF CronCall
  <1>4. ins' \in Nat /\ ins <= ins' /\ events' \subseteq Born'
    BY BornKept DEF Typed
  <1> HIDE DEF f
  <1>5. CASE cron' = [cron EXCEPT ![c] = f]
    <2>1. Typed' /\ cron'[c] = f /\ \A q \in Crons : q # c => cron'[q] = cron[q]
      BY <1>3, <1>4, <1>5, CronTyped
    <2> QED
      BY <1>3, <2>1
  <1>6. CASE cron' = [cron EXCEPT ![c] = CronNext(c, s)]
    <2> DEFINE g == CronNext(c, s)
    <2>1. /\ g \in CronCall /\ g.pc # "insert"
          /\ \/ g = IdleCron
             \/ g.pc = "loop" /\ g.rows = {} /\ g.at = cron[c].at /\ g.base = cron[c].base
      BY Nexts
    <2>2. cron' = [cron EXCEPT ![c] = g]
      BY <1>6
    <2> HIDE DEF g
    <2>3. Typed' /\ cron'[c] = g /\ \A q \in Crons : q # c => cron'[q] = cron[q]
      BY <1>4, <2>1, <2>2, IdleMade, CronTyped
    <2> QED
      BY <2>1, <2>3
  <1> QED
    BY <1>1, <1>5, <1>6

LEMMA DoesCronLast ==
  ASSUME Typed, NEW c \in Crons, NEW s \in Series, CronLast(c, s)
  PROVE  /\ Typed'
         /\ cron[c].pc = "loop"
         /\ \/ cron'[c] = IdleCron
            \/ /\ cron'[c].pc = "loop" /\ cron'[c].rows = {}
               /\ cron'[c].at = cron[c].at /\ cron'[c].base = cron[c].base
            \/ /\ cron'[c].pc = "insert" /\ cron'[c].sid = s /\ Plan(cron'[c].rows)
               /\ cron'[c].at = cron[c].at /\ cron'[c].base = cron[c].base
               /\ cron[c].at >= now - 1 => \A x \in cron'[c].rows, e \in Instances(s) : e.day # x.day
         /\ \A q \in Crons : q # c => cron'[q] = cron[q]
  <1>1. cron[c].pc = "loop" /\ UNCHANGED <<now, series, events, ins, rev, edits, patch, del>>
    BY DEF CronLast
  <1>2. now \in Nat /\ cron[c].at \in Nat /\ \A e \in Instances(s) : e.day \in Nat /\ e.num \in Nat
    BY DEF Typed, CronCall, Instances, Born, Event
  <1>3. ASSUME NEW rows, CronPlan(c, s, rows), Plan(rows),
               cron[c].at >= now - 1 => \A x \in rows, e \in Instances(s) : e.day # x.day
        PROVE  /\ Typed'
               /\ \/ cron'[c] = IdleCron
                  \/ /\ cron'[c].pc = "loop" /\ cron'[c].rows = {}
                     /\ cron'[c].at = cron[c].at /\ cron'[c].base = cron[c].base
                  \/ /\ cron'[c].pc = "insert" /\ cron'[c].sid = s /\ Plan(cron'[c].rows)
                     /\ cron'[c].at = cron[c].at /\ cron'[c].base = cron[c].base
                     /\ cron[c].at >= now - 1
                          => \A x \in cron'[c].rows, e \in Instances(s) : e.day # x.day
               /\ \A q \in Crons : q # c => cron'[q] = cron[q]
    <2>1. rows \in SUBSET RowPlan
      BY <1>3 DEF Plan
    <2> QED
      BY <1>1, <1>3, <2>1, DoesCronPlan
  <1>4. CASE CronPlan(c, s, {})
    <2>1. Plan({})
      BY DEF Plan
    <2> QED
      BY <1>1, <1>3, <1>4, <2>1
  <1>5. CASE Upcoming(s, now) = {} /\ CronPlan(c, s, Regeneration(c))
    <2>1. Plan(Regeneration(c)) /\ \A x \in Regeneration(c) : x.day \in Nat /\ x.day >= cron[c].at + 1
      <3> DEFINE all == Numbered(cron[c].at + 1, Limit, 0)
      <3>1. /\ all \subseteq RowPlan /\ \A x \in all : x.day >= cron[c].at + 1
            /\ \A x, y \in all : x.day = y.day \/ x.num = y.num => x = y
        BY <1>2, Planned, CadenceAssumption
      <3>2. Regeneration(c) \subseteq all
        BY DEF Regeneration, WithinHorizon
      <3> HIDE DEF all
      <3> QED
        BY <3>1, <3>2 DEF Plan, RowPlan
    <2>2. ASSUME NEW e \in Instances(s) PROVE e.day < now
      BY <1>2, <1>5 DEF Upcoming
    <2>3. cron[c].at >= now - 1 => \A x \in Regeneration(c), e \in Instances(s) : e.day # x.day
      BY <1>2, <2>1, <2>2
    <2> QED
      BY <1>1, <1>3, <1>5, <2>1, <2>3
  <1>6. CASE \E last \in Upcoming(s, now) : /\ \A e \in Upcoming(s, now) : e.day <= last.day
                                           /\ CronPlan(c, s, Extension(c, last))
    <2>1. PICK last \in Upcoming(s, now) : /\ \A e \in Upcoming(s, now) : e.day <= last.day
                                           /\ CronPlan(c, s, Extension(c, last))
      BY <1>6
    <2>2. last.day \in Nat /\ last.num \in Nat /\ last.day >= now
      BY <1>2 DEF Upcoming
    <2>3. Plan(Extension(c, last)) /\ \A x \in Extension(c, last) : x.day \in Nat /\ x.day >= last.day + 1
      <3> DEFINE all == Numbered(last.day + 1, Limit, last.num)
      <3>1. /\ all \subseteq RowPlan /\ \A x \in all : x.day >= last.day + 1
            /\ \A x, y \in all : x.day = y.day \/ x.num = y.num => x = y
        BY <2>2, Planned, CadenceAssumption
      <3>2. Extension(c, last) \subseteq all
        BY DEF Extension, WithinHorizon, DayAfter
      <3> HIDE DEF all
      <3> QED
        BY <3>1, <3>2 DEF Plan, RowPlan
    <2>4. ASSUME NEW e \in Instances(s) PROVE e.day <= last.day
      BY <1>2, <2>1, <2>2 DEF Upcoming
    <2>5. \A x \in Extension(c, last), e \in Instances(s) : e.day # x.day
      BY <1>2, <2>2, <2>3, <2>4
    <2> QED
      BY <1>1, <1>3, <2>1, <2>3, <2>5
  <1> QED
    BY <1>1, <1>3, <1>4, <1>5, <1>6 DEF CronLast

LEMMA DoesCronInsert ==
  ASSUME Typed, NEW c \in Crons, CronInsert(c)
  PROVE  LET s == cron[c].sid IN
         /\ Typed'
         /\ cron[c].pc = "insert" /\ s \in Series /\ cron[c].base[s] \in 0 .. MaxRev
         /\ cron[c].rows \in SUBSET RowPlan
         /\ \/ cron'[c] = IdleCron
            \/ /\ cron'[c].pc = "loop" /\ cron'[c].rows = {}
               /\ cron'[c].at = cron[c].at /\ cron'[c].base = cron[c].base
         /\ \/ events' = events /\ ins' = ins
            \/ /\ Exists(s) /\ ins' = ins + 1
               /\ events' = events \cup Rows(s, cron[c].rows, cron[c].base[s])
         /\ \A q \in Crons : q # c => cron'[q] = cron[q]
  <1> DEFINE s == cron[c].sid
             g == CronNext(c, s)
  <1>1. /\ cron[c].pc = "insert" /\ cron' = [cron EXCEPT ![c] = g]
        /\ UNCHANGED <<now, series, rev, edits, patch, del>>
        /\ \/ events' = events /\ ins' = ins
           \/ /\ Exists(s) /\ ins' = ins + 1
              /\ events' = events \cup Rows(s, cron[c].rows, cron[c].base[s])
    BY DEF CronInsert
  <1>2. s \in Series /\ cron[c] \in CronCall
    BY <1>1 DEF Typed, Sited, IdleCron
  <1>3. cron[c].base[s] \in 0 .. MaxRev /\ cron[c].rows \in SUBSET RowPlan
    BY <1>2 DEF CronCall
  <1>4. ins' \in Nat /\ ins <= ins'
    BY <1>1 DEF Typed
  <1>5. events' \subseteq Born'
    <2>1. CASE events' = events /\ ins' = ins
      BY <2>1, BornKept DEF Typed
    <2>2. CASE ins' = ins + 1 /\ events' = events \cup Rows(s, cron[c].rows, cron[c].base[s])
      <3> DEFINE plan == cron[c].rows
                 r == cron[c].base[s]
                 t == s
      <3>1. plan \in SUBSET RowPlan /\ r \in 0 .. MaxRev /\ t \in Series
            /\ events' = events \cup Rows(t, plan, r)
        BY <1>2, <1>3, <2>2
      <3> HIDE DEF plan, r, t
      <3> QED
        BY <2>2, <3>1, Added
    <2> QED
      BY <1>1, <2>1, <2>2
  <1>6. /\ g \in CronCall /\ g.pc # "insert"
        /\ \/ g = IdleCron
           \/ g.pc = "loop" /\ g.rows = {} /\ g.at = cron[c].at /\ g.base = cron[c].base
    BY <1>1, Nexts
  <1> HIDE DEF g
  <1>7. Typed' /\ cron'[c] = g /\ \A q \in Crons : q # c => cron'[q] = cron[q]
    BY <1>1, <1>4, <1>5, <1>6, IdleMade, CronTyped
  <1> QED
    BY <1>1, <1>2, <1>3, <1>6, <1>7

LEMMA DoesEditEvent ==
  ASSUME Typed, NEW e \in events, NEW day \in 0 .. MaxDay, EditEvent(e, day)
  PROVE  /\ Typed'
         /\ \A f \in events' : f \in events \/ (f.own /\ Id(f) = Id(e) /\ f.ins = e.ins /\ f.sid = e.sid)
         /\ \A f, g \in events' : f \notin events /\ g \notin events => f = g
         /\ \A f \in events' : f \notin events => e \notin events' \/ f = e
  <1> DEFINE f == [e EXCEPT !.day = day, !.own = TRUE]
  <1>1. /\ events' = (events \ {e}) \cup {f} /\ edits < MaxEdits /\ edits' = edits + 1
        /\ UNCHANGED <<now, series, ins, rev, patch, del, cron>>
    BY DEF EditEvent
  <1>2. f \in Born /\ f.own /\ Id(f) = Id(e) /\ f.ins = e.ins /\ f.sid = e.sid
    <2>1. day \in Nat /\ e \in Event /\ e.ins \in 1 .. ins
      BY BoundAssumption DEF Typed, Born
    <2>2. f \in Event /\ f.own /\ f.ins = e.ins /\ f.num = e.num /\ f.sid = e.sid
      BY <2>1 DEF Event
    <2> HIDE DEF f
    <2> QED
      BY <2>1, <2>2 DEF Born, Id
  <1> HIDE DEF f
  <1>3. events' \subseteq Born'
    BY <1>1, <1>2, BornKept DEF Typed
  <1>4. edits' \in 0 .. MaxEdits
    BY <1>1, BoundAssumption DEF Typed
  <1>5. Typed'
    BY <1>1, <1>3, <1>4, RestTyped DEF Typed
  <1> QED
    BY <1>1, <1>2, <1>5

LEMMA DoesDeleteEvent ==
  ASSUME Typed, NEW e \in events, DeleteEvent(e)
  PROVE  Typed' /\ events' \subseteq events
  <1>1. /\ events' = events \ {e} /\ edits < MaxEdits /\ edits' = edits + 1
        /\ UNCHANGED <<now, series, ins, rev, patch, del, cron>>
    BY DEF DeleteEvent
  <1>2. events' \subseteq Born' /\ edits' \in 0 .. MaxEdits
    BY <1>1, BornKept, BoundAssumption DEF Typed
  <1> QED
    BY <1>1, <1>2, RestTyped DEF Typed

LEMMA DoesTick ==
  ASSUME Typed, Tick
  PROVE  Typed' /\ now' = now + 1
  <1>1. now' = now + 1 /\ UNCHANGED <<series, events, ins, rev, edits, patch, del, cron>>
    BY DEF Tick
  <1>2. events' \subseteq Born'
    BY <1>1, BornKept DEF Typed
  <1> QED
    BY <1>1, <1>2, RestTyped DEF Typed

LEMMA TypedStep == Typed /\ [Next]_vars => Typed'
  <1> SUFFICES ASSUME Typed, [Next]_vars PROVE Typed'
    OBVIOUS
  <1>1. CASE \E s \in Series : CreateSeries(s)
    BY <1>1, DoesCreateSeries
  <1>2. CASE CreateStep
    BY <1>2, DoesCreateInstances DEF CreateStep
  <1>3. CASE \E p \in Patchers, s \in Series, edit, each \in BOOLEAN, keep \in Counts \cup {NoCount} :
               PatchFetch(p, s, edit, each, keep)
    BY <1>3, DoesPatchFetch
  <1>4. CASE \E p \in Patchers : PatchStep(p)
    BY <1>4, DoesPatchApply, DoesPatchBase, DoesPatchRefetch, DoesPatchShrink DEF PatchStep
  <1>5. CASE \E d \in Deleters, s \in Series : DeleteSeries(d, s)
    BY <1>5, DoesDeleteSeries
  <1>6. CASE \E d \in Deleters : DeleteStep(d)
    BY <1>6, DoesDeleteInstances, DoesDeleteRow DEF DeleteStep
  <1>7. CASE \E c \in Crons : CronStep(c)
    BY <1>7, DoesCronSelect, DoesCronLoad, DoesCronLast, DoesCronInsert DEF CronStep
  <1>8. CASE \E e \in events : DeleteEvent(e) \/ \E day \in 0 .. MaxDay : EditEvent(e, day)
    BY <1>8, DoesDeleteEvent, DoesEditEvent
  <1>9. CASE Tick
    BY <1>9, DoesTick
  <1>10. CASE UNCHANGED vars
    <2>1. UNCHANGED <<now, series, events, ins, rev, edits, patch, del, cron>>
      BY <1>10 DEF vars
    <2>2. events' \subseteq Born'
      BY <2>1, BornKept DEF Typed
    <2> QED
      BY <2>1, <2>2, RestTyped DEF Typed
  <1> QED
    BY <1>1, <1>2, <1>3, <1>4, <1>5, <1>6, <1>7, <1>8, <1>9, <1>10 DEF Next, Request

\* Every variable keeps its type whatever requests and cron calls overlap; in
\* particular the rows a request has in hand are rows that some INSERT made, and
\* generateInstanceDates numbers instances from 1.
THEOREM Typing == Spec => []TypeOK
  <1>1. Init => Typed
    BY InitTyped
  <1>2. Typed /\ [Next]_vars => Typed'
    BY TypedStep
  <1>3. Typed => TypeOK
    BY TypedIs
  <1> QED
    BY <1>1, <1>2, <1>3, PTL DEF Spec

LEMMA AlwaysTyped == Spec => []Typed
  <1>1. Init => Typed
    BY InitTyped
  <1>2. Typed /\ [Next]_vars => Typed'
    BY TypedStep
  <1> QED
    BY <1>1, <1>2, PTL DEF Spec

-----------------------------------------------------------------------------
(* What a request has in hand: a row's number is its own, and the rows of a *)
(* PATCH are of the days from the one it was received on.                   *)

Distinct == \A e, f \in events : Id(e) = Id(f) => e = f
Planning == \A c \in Crons : Plan(cron[c].rows)
Aimed    == \A p \in Patchers, e \in events :
              Id(e) \in patch[p].todo => e.own \/ e.day >= patch[p].at
Numbers  == Distinct /\ Planning /\ Aimed

\* f is what a step leaves of e
From(f, e) == Id(f) = Id(e) /\ (f.own \/ (~e.own /\ f.day = e.day))
\* the rows after a step are those before it, some changed, and new ones
Descend == \A f \in events' : f.ins = ins + 1 \/ \E e \in events : From(f, e)

LEMMA Fewer == ASSUME events' \subseteq events PROVE Descend /\ (Distinct => Distinct')
  BY DEF Descend, From, Distinct, Id

LEMMA More ==
  ASSUME Typed, Distinct, NEW s \in Series, NEW plan, Plan(plan), NEW r \in 0 .. MaxRev,
         ins' = ins + 1, events' = events \cup Rows(s, plan, r)
  PROVE  Descend /\ Distinct'
  <1> DEFINE new == Rows(s, plan, r)
  <1>1. /\ \A e \in new : e.ins = ins + 1 /\ \E x \in plan : e.day = x.day /\ e.num = x.num
        /\ \A e, f \in new : e.day = f.day /\ e.num = f.num => e = f
    BY Added DEF Plan
  <1>2. \A e \in events : e.ins \in 1 .. ins /\ ins \in Nat
    BY DEF Typed, Born
  <1>3. events' = events \cup new
    OBVIOUS
  <1> HIDE DEF new
  <1>4. Descend
    BY <1>1, <1>3 DEF Descend, From
  <1>5. ASSUME NEW e \in events', NEW f \in events', Id(e) = Id(f) PROVE e = f
    <2>1. e.ins = f.ins /\ e.num = f.num
      BY <1>5 DEF Id
    <2>2. CASE e \in events /\ f \in events
      BY <1>5, <2>2 DEF Distinct
    <2>3. CASE e \in new /\ f \in new
      BY <1>1, <2>1, <2>3 DEF Plan
    <2>4. ~(e \in new /\ f \in events) /\ ~(e \in events /\ f \in new)
      BY <1>1, <1>2, <2>1
    <2> QED
      BY <1>3, <2>2, <2>3, <2>4
  <1>6. Distinct'
    BY <1>5 DEF Distinct, Id
  <1> QED
    BY <1>4, <1>6

LEMMA Numbered_Updates ==
  ASSUME Typed, Distinct, NEW ids, NEW r \in 0 .. MaxRev, events' = Updated(ids, r)
  PROVE  Descend /\ Distinct'
  <1>1. \A f \in events' : \E e \in events :
          /\ Id(f) = Id(e) /\ f.day = e.day /\ (f.own <=> e.own)
          /\ f = IF Id(e) \in ids THEN [e EXCEPT !.rev = r] ELSE e
    BY Updates
  <1>2. Descend
    BY <1>1 DEF Descend, From
  <1>3. ASSUME NEW f \in events', NEW g \in events', Id(f) = Id(g) PROVE f = g
    <2>1. PICK e \in events : Id(f) = Id(e) /\ f = IF Id(e) \in ids THEN [e EXCEPT !.rev = r] ELSE e
      BY <1>1
    <2>2. PICK h \in events : Id(g) = Id(h) /\ g = IF Id(h) \in ids THEN [h EXCEPT !.rev = r] ELSE h
      BY <1>1
    <2>3. e = h
      BY <1>3, <2>1, <2>2 DEF Distinct
    <2> QED
      BY <2>1, <2>2, <2>3
  <1>4. Distinct'
    BY <1>3 DEF Distinct, Id
  <1> QED
    BY <1>2, <1>4

\* patches that only give up rows
LEMMA AimedBy ==
  ASSUME Typed, Aimed, Descend,
         \A p \in Patchers : /\ patch'[p].todo \subseteq patch[p].todo
                             /\ patch'[p].todo = {} \/ patch'[p].at = patch[p].at
  PROVE  Aimed'
  <1> SUFFICES ASSUME NEW p \in Patchers, NEW f \in events', Id(f) \in patch'[p].todo
               PROVE  f.own \/ f.day >= patch'[p].at
    BY DEF Aimed, Id
  <1>1. Id(f) \in patch[p].todo /\ patch'[p].at = patch[p].at
    OBVIOUS
  <1>2. f.ins \in 1 .. ins /\ ins \in Nat
    BY <1>1 DEF Typed, Patch, EventIds, Id
  <1>3. PICK e \in events : From(f, e)
    BY <1>2 DEF Descend
  <1> QED
    BY <1>1, <1>3 DEF From, Aimed

\* steps of no PATCH and no cron call
LEMMA NumbersBy ==
  ASSUME Typed, Numbers, UNCHANGED <<patch, cron>>, Descend, Distinct'
  PROVE  Numbers'
  <1>1. Aimed'
    BY AimedBy DEF Numbers
  <1>2. Planning'
    BY DEF Numbers, Planning
  <1> QED
    BY <1>1, <1>2 DEF Numbers

\* the steps of a PATCH after its reads
LEMMA NumbersPatch ==
  ASSUME Typed, Numbers, NEW p \in Patchers, PatchStep(p)
  PROVE  Numbers'
  <1>1. Planning'
    <2>1. UNCHANGED cron
      BY DEF PatchStep, PatchApply, PatchBase, PatchRefetch, PatchShrink
    <2> QED
      BY <2>1 DEF Numbers, Planning
  <1>2. Distinct /\ Aimed
    BY DEF Numbers
  <1>3. ASSUME NEW ids, PatchApply(p, ids) PROVE Distinct' /\ Aimed'
    <2>1. /\ patch'[p].todo = patch[p].todo \ ids /\ patch'[p].at = patch[p].at
          /\ \A q \in Patchers : q # p => patch'[q] = patch[q]
          /\ events' = events \/ events' = Updated(ids, patch[p].rev)
      BY <1>3, DoesPatchApply
    <2>2. Descend /\ Distinct'
      <3>1. CASE events' = events
        BY <1>2, <3>1, Fewer
      <3>2. CASE events' = Updated(ids, patch[p].rev)
        <4>1. patch[p].rev \in 0 .. MaxRev
          BY DEF Typed, Patch
        <4> QED
          BY <1>2, <3>2, <4>1, Numbered_Updates
      <3> QED
        BY <2>1, <3>1, <3>2
    <2>3. \A q \in Patchers : /\ patch'[q].todo \subseteq patch[q].todo
                              /\ patch'[q].todo = {} \/ patch'[q].at = patch[q].at
      BY <2>1
    <2> QED
      BY <1>2, <2>2, <2>3, AimedBy
  <1>4. CASE PatchBase(p)
    <2>1. /\ patch'[p].todo = {} /\ \A q \in Patchers : q # p => patch'[q] = patch[q]
      BY <1>4, DoesPatchBase, IdleMade
    <2>2. UNCHANGED events
      BY <1>4 DEF PatchBase
    <2>3. \A q \in Patchers : /\ patch'[q].todo \subseteq patch[q].todo
                              /\ patch'[q].todo = {} \/ patch'[q].at = patch[q].at
      BY <2>1
    <2> QED
      BY <1>1, <1>2, <2>2, <2>3, AimedBy, Fewer DEF Numbers
  <1>5. CASE PatchRefetch(p)
    <2>1. /\ \/ patch'[p] = IdlePatch
             \/ /\ patch'[p].at = patch[p].at
                /\ \E gone \in SUBSET Upcoming(patch[p].sid, patch[p].at) :
                     patch'[p].todo = {Id(e) : e \in gone}
          /\ \A q \in Patchers : q # p => patch'[q] = patch[q]
      BY <1>5, DoesPatchRefetch
    <2>2. UNCHANGED events
      BY <1>5 DEF PatchRefetch
    <2>3. ASSUME NEW q \in Patchers, NEW e \in events, Id(e) \in patch'[q].todo
          PROVE  e.own \/ e.day >= patch'[q].at
      <3>1. CASE q # p
        BY <1>2, <2>1, <2>3, <3>1 DEF Aimed
      <3>2. CASE q = p
        <4>1. patch'[p].todo # {} /\ patch'[p] # IdlePatch
          BY <2>3, <3>2, IdleMade
        <4>2. PICK gone \in SUBSET Upcoming(patch[p].sid, patch[p].at) :
                /\ patch'[p].todo = {Id(g) : g \in gone} /\ patch'[p].at = patch[p].at
          BY <2>1, <4>1
        <4>3. PICK g \in Upcoming(patch[p].sid, patch[p].at) : Id(g) = Id(e)
          BY <2>3, <3>2, <4>2
        <4>4. g \in events /\ g.day >= patch[p].at
          BY DEF Upcoming, Instances
        <4>5. g = e
          BY <1>2, <4>3, <4>4 DEF Distinct
        <4> QED
          BY <3>2, <4>2, <4>4, <4>5
      <3> QED
        BY <3>1, <3>2
    <2>4. Aimed'
      BY <2>2, <2>3 DEF Aimed, Id
    <2> QED
      BY <1>1, <1>2, <2>2, <2>4, Fewer DEF Numbers
  <1>6. CASE PatchShrink(p)
    <2>1. /\ patch'[p] = IdlePatch /\ \A q \in Patchers : q # p => patch'[q] = patch[q]
          /\ events' \subseteq events
      BY <1>6, DoesPatchShrink
    <2>2. \A q \in Patchers : /\ patch'[q].todo \subseteq patch[q].todo
                              /\ patch'[q].todo = {} \/ patch'[q].at = patch[q].at
      BY <2>1, IdleMade
    <2> QED
      BY <1>1, <1>2, <2>1, <2>2, AimedBy, Fewer DEF Numbers
  <1> QED
    BY <1>1, <1>3, <1>4, <1>5, <1>6 DEF PatchStep, Numbers

LEMMA NumbersFetch ==
  ASSUME Typed, Numbers, NEW p \in Patchers, NEW s \in Series, NEW edit \in BOOLEAN, NEW each \in BOOLEAN,
         NEW keep \in Counts \cup {NoCount}, PatchFetch(p, s, edit, each, keep)
  PROVE  Numbers'
  <1>1. UNCHANGED <<events, cron, ins>>
    BY DEF PatchFetch
  <1>2. /\ patch'[p].at = now /\ patch'[p].todo = {Id(e) : e \in Upcoming(s, now)}
        /\ \A q \in Patchers : q # p => patch'[q] = patch[q]
    BY DoesPatchFetch
  <1>3. ASSUME NEW q \in Patchers, NEW e \in events, Id(e) \in patch'[q].todo
        PROVE  e.own \/ e.day >= patch'[q].at
    <2>1. CASE q # p
      BY <1>2, <1>3, <2>1 DEF Numbers, Aimed
    <2>2. CASE q = p
      <3>1. PICK g \in Upcoming(s, now) : Id(g) = Id(e)
        BY <1>2, <1>3, <2>2
      <3>2. g \in events /\ g.day >= now
        BY DEF Upcoming, Instances
      <3>3. g = e
        BY <3>1, <3>2 DEF Numbers, Distinct
      <3> QED
        BY <1>2, <2>2, <3>2, <3>3
    <2> QED
      BY <2>1, <2>2
  <1>4. Aimed'
    BY <1>1, <1>3 DEF Aimed, Id
  <1>5. Distinct' /\ Planning'
    BY <1>1 DEF Numbers, Distinct, Planning, Id
  <1> QED
    BY <1>4, <1>5 DEF Numbers

LEMMA NumbersDelete ==
  ASSUME Typed, Numbers, NEW d \in Deleters, DeleteStep(d)
  PROVE  Numbers'
  <1>1. UNCHANGED <<patch, cron>>
    BY DEF DeleteStep, DeleteInstances, DeleteRow
  <1>2. CASE DeleteInstances(d)
    <2>1. events' \subseteq events
      BY <1>2, DoesDeleteInstances
    <2> QED
      BY <1>1, <2>1, Fewer, NumbersBy DEF Numbers
  <1>3. CASE DeleteRow(d)
    <2>1. \A f \in events' : \E e \in events :
            /\ Id(f) = Id(e) /\ f.day = e.day /\ (f.own <=> e.own)
            /\ f = IF e.sid = del[d].sid THEN [e EXCEPT !.sid = None] ELSE e
      BY <1>3, DoesDeleteRow
    <2>2. Descend
      BY <2>1 DEF Descend, From
    <2>3. ASSUME NEW f \in events', NEW g \in events', Id(f) = Id(g) PROVE f = g
      <3>1. PICK e \in events : /\ Id(f) = Id(e)
                                /\ f = IF e.sid = del[d].sid THEN [e EXCEPT !.sid = None] ELSE e
        BY <2>1
      <3>2. PICK h \in events : /\ Id(g) = Id(h)
                                /\ g = IF h.sid = del[d].sid THEN [h EXCEPT !.sid = None] ELSE h
        BY <2>1
      <3>3. e = h
        BY <2>3, <3>1, <3>2 DEF Numbers, Distinct
      <3> QED
        BY <3>1, <3>2, <3>3
    <2>4. Distinct'
      BY <2>3 DEF Distinct, Id
    <2> QED
      BY <1>1, <2>2, <2>4, NumbersBy
  <1> QED
    BY <1>2, <1>3 DEF DeleteStep

LEMMA NumbersCron ==
  ASSUME Typed, Numbers, NEW c \in Crons, CronStep(c)
  PROVE  Numbers'
  <1>1. UNCHANGED patch
    BY DEF CronStep, CronSelect, CronLoad, CronLast, CronInsert
  <1>2. ASSUME NEW s \in Series, CronLast(c, s) PROVE Planning' /\ UNCHANGED events
    <2>1. /\ cron'[c] = IdleCron \/ cron'[c].rows = {} \/ Plan(cron'[c].rows)
          /\ \A q \in Crons : q # c => cron'[q] = cron[q]
      BY <1>2, DoesCronLast
    <2> QED
      BY <1>2, <2>1, IdleMade DEF Numbers, Planning, Plan, CronLast
  <1>3. CASE CronInsert(c)
    <2> DEFINE s == cron[c].sid
               r == cron[c].base[s]
    <2>1. /\ s \in Series /\ r \in 0 .. MaxRev
          /\ cron'[c] = IdleCron \/ cron'[c].rows = {}
          /\ events' = events \/ (ins' = ins + 1 /\ events' = events \cup Rows(s, cron[c].rows, r))
          /\ \A q \in Crons : q # c => cron'[q] = cron[q]
      BY <1>3, DoesCronInsert
    <2>2. Planning'
      BY <2>1, IdleMade DEF Numbers, Planning, Plan
    <2>3. Plan(cron[c].rows) /\ Distinct
      BY DEF Numbers, Planning
    <2> HIDE DEF s, r
    <2>4. Descend /\ Distinct'
      BY <2>1, <2>3, Fewer, More
    <2> QED
      BY <1>1, <2>2, <2>4, AimedBy DEF Numbers
  <1>4. CASE CronSelect(c)
    <2>1. Planning' /\ UNCHANGED events
      BY <1>4, DoesCronSelect DEF Numbers, Planning, Plan, CronSelect
    <2> QED
      BY <1>1, <2>1, Fewer, AimedBy DEF Numbers
  <1>5. CASE CronLoad(c)
    <2>1. /\ cron'[c] = IdleCron \/ cron'[c].rows = cron[c].rows
          /\ \A q \in Crons : q # c => cron'[q] = cron[q]
      BY <1>5, DoesCronLoad
    <2>2. Planning' /\ UNCHANGED events
      BY <1>5, <2>1, IdleMade DEF Numbers, Planning, Plan, CronLoad
    <2> QED
      BY <1>1, <2>2, Fewer, AimedBy DEF Numbers
  <1>6. CASE \E s \in Series : CronLast(c, s)
    BY <1>1, <1>2, <1>6, Fewer, AimedBy DEF Numbers
  <1> QED
    BY <1>3, <1>4, <1>5, <1>6 DEF CronStep

LEMMA NumbersEvent ==
  ASSUME Typed, Numbers, NEW e \in events, DeleteEvent(e) \/ \E day \in 0 .. MaxDay : EditEvent(e, day)
  PROVE  Numbers'
  <1>1. UNCHANGED <<patch, cron>>
    BY DEF DeleteEvent, EditEvent
  <1>2. CASE DeleteEvent(e)
    BY <1>1, <1>2, DoesDeleteEvent, Fewer, NumbersBy DEF Numbers
  <1>3. ASSUME NEW day \in 0 .. MaxDay, EditEvent(e, day) PROVE Numbers'
    <2> DEFINE f == [e EXCEPT !.day = day, !.own = TRUE]
    <2>1. events' = (events \ {e}) \cup {f}
      BY <1>3 DEF EditEvent
    <2>2. Id(f) = Id(e) /\ f.own
      BY DEF Id, Typed, Born, Event
    <2> HIDE DEF f
    <2>3. Descend
      BY <2>1, <2>2 DEF Descend, From
    <2>4. ASSUME NEW g \in events', NEW h \in events', Id(g) = Id(h) PROVE g = h
      BY <2>1, <2>2, <2>4 DEF Numbers, Distinct
    <2>5. Distinct'
      BY <2>4 DEF Distinct, Id
    <2> QED
      BY <1>1, <2>3, <2>5, NumbersBy
  <1> QED
    BY <1>2, <1>3

LEMMA NumbersStep == Typed /\ Numbers /\ [Next]_vars => Numbers'
  <1> SUFFICES ASSUME Typed, Numbers, [Next]_vars PROVE Numbers'
    OBVIOUS
  <1>1. CASE \E s \in Series : CreateSeries(s)
    BY <1>1, Fewer, NumbersBy DEF CreateSeries, Numbers
  <1>2. CASE CreateStep
    <2>1. PICK s \in Series, start \in Starts, count \in Counts : CreateInstances(s, start, count)
      BY <1>2 DEF CreateStep
    <2> DEFINE plan == Numbered(start, Length(count), 0)
               r == series[s].base
    <2>2. Plan(plan) /\ r \in 0 .. MaxRev
      BY Planned, Lengths, CadenceAssumption DEF Plan, Typed, SeriesRow
    <2>3. events' = events \/ (ins' = ins + 1 /\ events' = events \cup Rows(s, plan, r))
      BY <2>1, DoesCreateInstances
    <2>4. UNCHANGED <<patch, cron>>
      BY <2>1 DEF CreateInstances
    <2> HIDE DEF plan, r
    <2>5. Descend /\ Distinct'
      BY <2>2, <2>3, Fewer, More DEF Numbers
    <2> QED
      BY <2>4, <2>5, NumbersBy
  <1>3. CASE \E p \in Patchers, s \in Series, edit, each \in BOOLEAN, keep \in Counts \cup {NoCount} :
               PatchFetch(p, s, edit, each, keep)
    BY <1>3, NumbersFetch
  <1>4. CASE \E p \in Patchers : PatchStep(p)
    BY <1>4, NumbersPatch
  <1>5. CASE \E d \in Deleters, s \in Series : DeleteSeries(d, s)
    BY <1>5, Fewer, NumbersBy DEF DeleteSeries, Numbers
  <1>6. CASE \E d \in Deleters : DeleteStep(d)
    BY <1>6, NumbersDelete
  <1>7. CASE \E c \in Crons : CronStep(c)
    BY <1>7, NumbersCron
  <1>8. CASE \E e \in events : DeleteEvent(e) \/ \E day \in 0 .. MaxDay : EditEvent(e, day)
    BY <1>8, NumbersEvent
  <1>9. CASE Tick
    BY <1>9, Fewer, NumbersBy DEF Tick, Numbers
  <1>10. CASE UNCHANGED vars
    BY <1>10, Fewer, NumbersBy DEF vars, Numbers
  <1> QED
    BY <1>1, <1>2, <1>3, <1>4, <1>5, <1>6, <1>7, <1>8, <1>9, <1>10 DEF Next, Request

LEMMA AlwaysNumbers == Spec => [](Typed /\ Numbers)
  <1>1. Init => Typed /\ Numbers
    <2>1. Init => Numbers
      BY DEF Init, Numbers, Distinct, Planning, Aimed, Plan, IdleCron, IdlePatch
    <2> QED
      BY <2>1, InitTyped
  <1>2. Typed /\ Numbers /\ [Next]_vars => Typed' /\ Numbers'
    BY TypedStep, NumbersStep
  <1> QED
    BY <1>1, <1>2, PTL DEF Spec

\* A PATCH changes or removes no instance of a day before the one it was received
\* on, whatever else is under way: what it writes are rows it fetched as upcoming.
LEMMA PastStep ==
  ASSUME Typed, Numbers, [Next]_vars, NEW p \in Patchers, patch[p].pc \in {"apply", "shrink"},
         patch'[p] # patch[p]
  PROVE  {e \in events : e.day < patch[p].at /\ ~e.own} \subseteq events'
  <1>1. PatchStep(p)
    <2>1. ASSUME UNCHANGED patch PROVE FALSE
      BY <2>1
    <2>2. ASSUME NEW q \in Patchers, PatchStep(q) PROVE q = p
      BY <2>2, DoesPatchApply, DoesPatchBase, DoesPatchRefetch, DoesPatchShrink DEF PatchStep
    <2>3. ASSUME NEW q \in Patchers, NEW s \in Series, NEW edit \in BOOLEAN, NEW each \in BOOLEAN,
                 NEW keep \in Counts \cup {NoCount}, PatchFetch(q, s, edit, each, keep)
          PROVE  FALSE
      BY <2>3, DoesPatchFetch
    <2>4. ~CreateStep /\ ~Tick /\ ~(\E d \in Deleters : DeleteStep(d)) /\ ~(\E c \in Crons : CronStep(c))
          /\ ~(\E e \in events : DeleteEvent(e) \/ \E day \in 0 .. MaxDay : EditEvent(e, day))
          /\ ~(\E s \in Series : CreateSeries(s)) /\ ~(\E d \in Deleters, s \in Series : DeleteSeries(d, s))
          /\ ~(UNCHANGED vars)
      BY <2>1 DEF CreateStep, CreateInstances, Tick, DeleteStep, DeleteInstances, DeleteRow, CronStep,
                 CronSelect, CronLoad, CronLast, CronInsert, DeleteEvent, EditEvent, CreateSeries,
                 DeleteSeries, vars
    <2> QED
      BY <2>2, <2>3, <2>4 DEF Next, Request
  <1>2. ASSUME NEW e \in events, e.day < patch[p].at, ~e.own PROVE Id(e) \notin patch[p].todo
    BY <1>2 DEF Numbers, Aimed, Typed, Patch, Born, Event
  <1>3. ASSUME NEW ids, PatchApply(p, ids) PROVE {e \in events : e.day < patch[p].at /\ ~e.own} \subseteq events'
    <2>1. ids \subseteq patch[p].todo /\ (events' = events \/ events' = Updated(ids, patch[p].rev))
      BY <1>3, DoesPatchApply
    <2>2. patch[p].rev \in 0 .. MaxRev
      BY DEF Typed, Patch
    <2> QED
      BY <1>2, <2>1, <2>2, Updates
  <1>4. CASE PatchShrink(p)
    BY <1>2, <1>4, DoesPatchShrink
  <1>5. ~PatchBase(p) /\ ~PatchRefetch(p)
    BY DEF PatchBase, PatchRefetch
  <1> QED
    BY <1>1, <1>3, <1>4, <1>5 DEF PatchStep

\* A PATCH changes or removes no instance of a day before the one it was received
\* on, but for those moved there singly, whatever it overlaps with.
THEOREM Past_Preserved == Spec => PastPreserved
  <1>1. Typed /\ Numbers /\ [Next]_vars
          => [\A p \in Patchers :
                (patch[p].pc \in {"apply", "shrink"} /\ patch'[p] # patch[p])
                  => {e \in events : e.day < patch[p].at /\ ~e.own} \subseteq events']_vars
    BY PastStep
  <1> QED
    BY <1>1, AlwaysNumbers, PTL DEF Spec, PastPreserved

-----------------------------------------------------------------------------
(* While requests and cron calls do not overlap: at most one is under way, *)
(* and what it read of a series is still so when it writes.                *)

PatchersIdle == \A p \in Patchers : patch[p].pc = "idle"
DeletersIdle == \A d \in Deleters : del[d].pc = "idle"
CronsIdle    == \A c \in Crons : cron[c].pc = "idle"
NoneMaking   == \A s \in Series : series[s].st # "making"

Solo ==
  /\ \A p \in Patchers : patch[p].pc # "idle" =>
       (\A q \in Patchers : q # p => patch[q].pc = "idle") /\ DeletersIdle /\ CronsIdle /\ NoneMaking
  /\ \A d \in Deleters : del[d].pc # "idle" =>
       PatchersIdle /\ (\A q \in Deleters : q # d => del[q].pc = "idle") /\ CronsIdle /\ NoneMaking
  /\ \A c \in Crons : cron[c].pc # "idle" =>
       PatchersIdle /\ DeletersIdle /\ (\A q \in Crons : q # c => cron[q].pc = "idle") /\ NoneMaking
  /\ \A s \in Series : series[s].st = "making" =>
       PatchersIdle /\ DeletersIdle /\ CronsIdle /\ (\A t \in Series : t # s => series[t].st # "making")

\* every event has a series whose row is there
Housed == \A e \in events : e.sid \in Series /\ series[e.sid].st = "row"

\* a DELETE has every instance of its series in hand, and then there is none
Doomed ==
  \A d \in Deleters :
    /\ del[d].pc = "events" => \A e \in Instances(del[d].sid) : Id(e) \in del[d].todo
    /\ del[d].pc = "row" => Instances(del[d].sid) = {}

\* the cron's rows are of days on which the series has none
New ==
  \A c \in Crons :
    /\ cron[c].pc # "idle" => cron[c].at >= now - 1
    /\ cron[c].pc = "insert" =>
         \A x \in cron[c].rows, e \in Instances(cron[c].sid) : e.own \/ e.day # x.day

Intact == Solo /\ Housed /\ Doomed /\ New /\ NoTwinInstances

\* the rows after a step are rows before it of the same series
Heirs == \A f \in events' : \E e \in events : From(f, e) /\ f.sid = e.sid

LEMMA FewerHeirs == ASSUME events' \subseteq events PROVE Heirs
  BY DEF Heirs, From

LEMMA SoloBy ==
  ASSUME Solo, \A p \in Patchers : patch'[p].pc # "idle" => patch[p].pc # "idle",
         \A d \in Deleters : del'[d].pc # "idle" => del[d].pc # "idle",
         \A c \in Crons : cron'[c].pc # "idle" => cron[c].pc # "idle",
         \A s \in Series : series'[s].st = "making" => series[s].st = "making"
  PROVE  Solo'
  <1>1. \A p \in Patchers : patch[p].pc = "idle" => patch'[p].pc = "idle"
    OBVIOUS
  <1>2. \A d \in Deleters : del[d].pc = "idle" => del'[d].pc = "idle"
    OBVIOUS
  <1>3. \A c \in Crons : cron[c].pc = "idle" => cron'[c].pc = "idle"
    OBVIOUS
  <1> QED
    BY <1>1, <1>2, <1>3 DEF Solo, PatchersIdle, DeletersIdle, CronsIdle, NoneMaking

LEMMA HousedBy ==
  ASSUME Housed, Heirs, \A s \in Series : series[s].st = "row" => series'[s].st = "row"
  PROVE  Housed'
  BY DEF Housed, Heirs

LEMMA TwinsBy ==
  ASSUME NoTwinInstances, Heirs, Distinct'
  PROVE  NoTwinInstances'
  <1> SUFFICES ASSUME NEW e \in events', NEW f \in events',
                      e.sid # None /\ e.sid = f.sid /\ e.day = f.day /\ ~e.own /\ ~f.own
               PROVE  e = f
    BY DEF NoTwinInstances
  <1>1. PICK g \in events : From(e, g) /\ e.sid = g.sid
    BY DEF Heirs
  <1>2. PICK h \in events : From(f, h) /\ f.sid = h.sid
    BY DEF Heirs
  <1>3. g = h
    BY <1>1, <1>2 DEF From, NoTwinInstances
  <1>4. Id(e) = Id(f)
    BY <1>1, <1>2, <1>3 DEF From
  <1> QED
    BY <1>4 DEF Distinct, Id

LEMMA DoomedBy ==
  ASSUME Doomed, Heirs, \A d \in Deleters : del'[d].pc # "idle" => del'[d] = del[d]
  PROVE  Doomed'
  <1> SUFFICES ASSUME NEW d \in Deleters
               PROVE  /\ del'[d].pc = "events" => \A f \in events' : f.sid = del'[d].sid => Id(f) \in del'[d].todo
                      /\ del'[d].pc = "row" => \A f \in events' : f.sid # del'[d].sid
    BY DEF Doomed, Instances, Id
  <1>1. ASSUME NEW f \in events' PROVE \E e \in events : Id(f) = Id(e) /\ f.sid = e.sid
    BY DEF Heirs, From
  <1> QED
    BY <1>1 DEF Doomed, Instances

LEMMA NewBy ==
  ASSUME New, Heirs, UNCHANGED now,
         \A c \in Crons : cron'[c].pc # "idle" => cron[c].pc # "idle" /\ cron'[c].at = cron[c].at,
         \A c \in Crons : cron'[c].pc = "insert" => cron'[c] = cron[c]
  PROVE  New'
  <1> SUFFICES ASSUME NEW c \in Crons
               PROVE  /\ cron'[c].pc # "idle" => cron'[c].at >= now - 1
                      /\ cron'[c].pc = "insert" =>
                           \A x \in cron'[c].rows, f \in events' :
                             f.sid = cron'[c].sid => f.own \/ f.day # x.day
    BY DEF New, Instances
  <1>1. cron'[c].pc # "idle" => cron'[c].at >= now - 1
    BY DEF New
  <1>2. ASSUME cron'[c].pc = "insert", NEW x \in cron'[c].rows, NEW f \in events', f.sid = cron'[c].sid
        PROVE  f.own \/ f.day # x.day
    <2>1. f \in events' /\ f.sid = cron[c].sid /\ cron[c].pc = "insert" /\ x \in cron[c].rows
      BY <1>2
    <2>2. PICK e \in events : From(f, e) /\ f.sid = e.sid
      BY <2>1 DEF Heirs
    <2>3. e.own \/ e.day # x.day
      BY <2>1, <2>2 DEF New, Instances
    <2> QED
      BY <2>2, <2>3 DEF From
  <1> QED
    BY <1>1, <1>2

\* a step that begins nothing and inserts nothing
LEMMA IntactBy ==
  ASSUME Intact, Distinct', Heirs, UNCHANGED now,
         \A s \in Series : series[s].st = "row" => series'[s].st = "row",
         \A s \in Series : series'[s].st = "making" => series[s].st = "making",
         \A p \in Patchers : patch'[p].pc # "idle" => patch[p].pc # "idle",
         \A d \in Deleters : del'[d].pc # "idle" => del'[d] = del[d],
         \A c \in Crons : cron'[c].pc # "idle" => cron[c].pc # "idle" /\ cron'[c].at = cron[c].at,
         \A c \in Crons : cron'[c].pc = "insert" => cron'[c] = cron[c]
  PROVE  Intact'
  <1>1. Solo'
    BY SoloBy DEF Intact
  <1>2. Housed'
    BY HousedBy DEF Intact
  <1>3. Doomed'
    BY DoomedBy DEF Intact
  <1>4. New'
    BY NewBy DEF Intact
  <1>5. NoTwinInstances'
    BY TwinsBy DEF Intact
  <1> QED
    BY <1>1, <1>2, <1>3, <1>4, <1>5 DEF Intact

\* rows of days on which the series has none
LEMMA TwinsMore ==
  ASSUME Typed, NoTwinInstances, NEW s \in Series, NEW plan, Plan(plan), NEW r \in 0 .. MaxRev,
         ins' = ins + 1, events' = events \cup Rows(s, plan, r),
         \A x \in plan, e \in Instances(s) : e.own \/ e.day # x.day
  PROVE  NoTwinInstances'
  <1> DEFINE new == Rows(s, plan, r)
  <1>1. /\ \A e \in new : e.sid = s /\ \E x \in plan : e.day = x.day /\ e.num = x.num
        /\ \A e, f \in new : e.day = f.day /\ e.num = f.num => e = f
    BY Added DEF Plan
  <1>2. events' = events \cup new
    OBVIOUS
  <1> HIDE DEF new
  <1> SUFFICES ASSUME NEW e \in events', NEW f \in events',
                      e.sid # None, e.sid = f.sid, e.day = f.day, ~e.own, ~f.own
               PROVE  e = f
    BY DEF NoTwinInstances
  <1>3. CASE e \in events /\ f \in events
    BY <1>3 DEF NoTwinInstances
  <1>4. CASE e \in new /\ f \in new
    <2>1. PICK x \in plan : e.day = x.day /\ e.num = x.num
      BY <1>1, <1>4
    <2>2. PICK y \in plan : f.day = y.day /\ f.num = y.num
      BY <1>1, <1>4
    <2>3. x = y
      BY <2>1, <2>2 DEF Plan
    <2> QED
      BY <1>1, <1>4, <2>1, <2>2, <2>3
  <1>5. ~(e \in new /\ f \in events)
    BY <1>1 DEF Instances
  <1>6. ~(e \in events /\ f \in new)
    BY <1>1 DEF Instances
  <1> QED
    BY <1>2, <1>3, <1>4, <1>5, <1>6

LEMMA QuietIs ==
  ASSUME Exclusive, MayStart
  PROVE  PatchersIdle /\ DeletersIdle /\ CronsIdle /\ NoneMaking
  BY DEF MayStart, Quiet, PatchersIdle, DeletersIdle, CronsIdle, NoneMaking

LEMMA IntactCreate ==
  ASSUME Exclusive, Typed, Numbers, Intact, Distinct', NEW s \in Series, CreateSeries(s)
  PROVE  Intact'
  <1>1. /\ PatchersIdle /\ DeletersIdle /\ CronsIdle /\ NoneMaking /\ series[s].st = "none"
        /\ UNCHANGED <<now, events, patch, del, cron>>
    BY QuietIs DEF CreateSeries
  <1>2. \A t \in Series : t # s => series'[t] = series[t]
    BY DoesCreateSeries
  <1>3. Heirs
    BY <1>1, FewerHeirs
  <1>4. Solo'
    BY <1>1, <1>2 DEF Solo, PatchersIdle, DeletersIdle, CronsIdle, NoneMaking
  <1>5. Housed'
    BY <1>1, <1>2, <1>3, HousedBy DEF Intact
  <1>6. Doomed' /\ New' /\ NoTwinInstances'
    BY <1>1, <1>3, DoomedBy, NewBy, TwinsBy DEF Intact, DeletersIdle, CronsIdle
  <1> QED
    BY <1>4, <1>5, <1>6 DEF Intact

LEMMA IntactInstances ==
  ASSUME Typed, Numbers, Intact, Distinct', NEW s \in Series, NEW start \in Starts, NEW count \in Counts,
         CreateInstances(s, start, count)
  PROVE  Intact'
  <1> DEFINE plan == Numbered(start, Length(count), 0)
             r == series[s].base
  <1>1. Plan(plan) /\ r \in 0 .. MaxRev
    BY Planned, Lengths, CadenceAssumption DEF Plan, Typed, SeriesRow
  <1>2. /\ series[s].st = "making" /\ series'[s].st \in {"row", "gone"}
        /\ \A t \in Series : t # s => series'[t] = series[t]
        /\ \/ events' = events
           \/ /\ series'[s].st = "row" /\ ins' = ins + 1
              /\ events' = events \cup Rows(s, plan, r)
    BY DoesCreateInstances
  <1>3. UNCHANGED <<now, patch, del, cron>>
    BY DEF CreateInstances
  <1> HIDE DEF plan, r
  <1>4. \A t \in Series : series[t].st = "row" => series'[t].st = "row"
    BY <1>2
  <1>5. CASE events' = events
    BY <1>2, <1>3, <1>4, <1>5, FewerHeirs, IntactBy
  <1>6. CASE /\ series'[s].st = "row" /\ ins' = ins + 1
             /\ events' = events \cup Rows(s, plan, r)
    <2>1. DeletersIdle /\ CronsIdle
      BY <1>2 DEF Intact, Solo
    <2>2. Solo'
      BY <1>2, <1>3, SoloBy DEF Intact
    <2>3. \A e \in Rows(s, plan, r) : e.sid = s
      BY <1>1, <1>6, Added DEF Plan
    <2>4. Housed'
      BY <1>4, <1>6, <2>3 DEF Intact, Housed
    <2>5. Doomed' /\ New'
      BY <1>3, <2>1 DEF Doomed, New, DeletersIdle, CronsIdle
    <2>6. \A e \in events : e.sid # s
      BY <1>2 DEF Intact, Housed
    <2>7. NoTwinInstances'
      BY <1>1, <1>6, <2>6, TwinsMore DEF Instances, Intact
    <2> QED
      BY <2>2, <2>4, <2>5, <2>7 DEF Intact
  <1> QED
    BY <1>2, <1>5, <1>6

LEMMA IntactFetch ==
  ASSUME Exclusive, Typed, Numbers, Intact, Distinct', NEW p \in Patchers, NEW s \in Series,
         NEW edit \in BOOLEAN, NEW each \in BOOLEAN, NEW keep \in Counts \cup {NoCount},
         PatchFetch(p, s, edit, each, keep)
  PROVE  Intact'
  <1>1. /\ PatchersIdle /\ DeletersIdle /\ CronsIdle /\ NoneMaking
        /\ UNCHANGED <<now, series, events, del, cron>>
    BY QuietIs DEF PatchFetch
  <1>2. \A q \in Patchers : q # p => patch'[q] = patch[q]
    BY DoesPatchFetch
  <1>3. Heirs
    BY <1>1, FewerHeirs
  <1>4. Solo'
    BY <1>1, <1>2 DEF Solo, PatchersIdle, DeletersIdle, CronsIdle, NoneMaking
  <1>5. Housed' /\ Doomed' /\ New' /\ NoTwinInstances'
    BY <1>1, <1>3, HousedBy, DoomedBy, NewBy, TwinsBy DEF Intact, DeletersIdle, CronsIdle
  <1> QED
    BY <1>4, <1>5 DEF Intact

LEMMA IntactPatch ==
  ASSUME Typed, Numbers, Intact, Distinct', NEW p \in Patchers, PatchStep(p)
  PROVE  Intact'
  <1>1. /\ patch[p].pc # "idle" /\ \A q \in Patchers : q # p => patch'[q] = patch[q]
    BY DoesPatchApply, DoesPatchBase, DoesPatchRefetch, DoesPatchShrink DEF PatchStep
  <1>2. UNCHANGED <<now, del, cron>>
    BY DEF PatchStep, PatchApply, PatchBase, PatchRefetch, PatchShrink
  <1>3. \A s \in Series : series'[s].st = series[s].st
    <2>1. CASE PatchBase(p)
      BY <2>1, DoesPatchBase
    <2>2. CASE UNCHANGED series
      BY <2>2
    <2> QED
      BY <2>1, <2>2 DEF PatchStep, PatchApply, PatchRefetch, PatchShrink
  <1>4. Heirs
    <2>1. ASSUME NEW ids, PatchApply(p, ids) PROVE Heirs
      <3>1. patch[p].rev \in 0 .. MaxRev
        BY DEF Typed, Patch
      <3>2. CASE events' = events
        BY <3>2, FewerHeirs
      <3>3. CASE events' = Updated(ids, patch[p].rev)
        BY <3>1, <3>3, Updates DEF Heirs, From
      <3> QED
        BY <2>1, <3>2, <3>3, DoesPatchApply
    <2>2. CASE events' \subseteq events
      BY <2>2, FewerHeirs
    <2>3. PatchShrink(p) => events' \subseteq events
      BY DoesPatchShrink
    <2> QED
      BY <2>1, <2>2, <2>3 DEF PatchStep, PatchBase, PatchRefetch
  <1> QED
    BY <1>1, <1>2, <1>3, <1>4, IntactBy

LEMMA IntactDelete ==
  ASSUME Exclusive, Typed, Numbers, Intact, Distinct', NEW d \in Deleters, NEW s \in Series, DeleteSeries(d, s)
  PROVE  Intact'
  <1>1. /\ PatchersIdle /\ DeletersIdle /\ CronsIdle /\ NoneMaking
        /\ UNCHANGED <<now, series, events, patch, cron>>
    BY QuietIs DEF DeleteSeries
  <1>2. /\ del'[d].pc = "events" /\ del'[d].sid = s
        /\ \A e \in Instances(s) : Id(e) \in del'[d].todo
        /\ \A q \in Deleters : q # d => del'[q] = del[q]
    BY DoesDeleteSeries
  <1>3. Heirs
    BY <1>1, FewerHeirs
  <1>4. Solo'
    BY <1>1, <1>2 DEF Solo, PatchersIdle, DeletersIdle, CronsIdle, NoneMaking
  <1>5. Housed' /\ New' /\ NoTwinInstances'
    BY <1>1, <1>3, HousedBy, NewBy, TwinsBy DEF Intact, CronsIdle
  <1>6. Doomed'
    BY <1>1, <1>2 DEF Doomed, DeletersIdle, Instances, Id
  <1> QED
    BY <1>4, <1>5, <1>6 DEF Intact

LEMMA IntactDeleteStep ==
  ASSUME Typed, Numbers, Intact, Distinct', NEW d \in Deleters, DeleteStep(d)
  PROVE  Intact'
  <1>1. UNCHANGED <<now, patch, cron>>
    BY DEF DeleteStep, DeleteInstances, DeleteRow
  <1>2. CASE DeleteInstances(d)
    <2>1. /\ del[d].pc = "events"
          /\ \/ del'[d] = IdleDel /\ events' = events
             \/ /\ del'[d].pc = "row" /\ del'[d].sid = del[d].sid
                /\ events' = {e \in events : Id(e) \notin del[d].todo}
          /\ \A q \in Deleters : q # d => del'[q] = del[q]
      BY <1>2, DoesDeleteInstances
    <2>2. UNCHANGED series
      BY <1>2 DEF DeleteInstances
    <2>3. Heirs
      BY <2>1, FewerHeirs
    <2>4. CASE del'[d] = IdleDel
      BY <1>1, <2>1, <2>2, <2>3, <2>4, IdleMade, IntactBy
    <2>5. CASE /\ del'[d].pc = "row" /\ del'[d].sid = del[d].sid
               /\ events' = {e \in events : Id(e) \notin del[d].todo}
      <3>1. Solo'
        BY <1>1, <2>1, <2>2, SoloBy DEF Intact
      <3>2. Housed' /\ New' /\ NoTwinInstances'
        BY <1>1, <2>2, <2>3, HousedBy, NewBy, TwinsBy DEF Intact
      <3>3. \A e \in events' : e.sid # del[d].sid
        BY <2>1, <2>5 DEF Intact, Doomed, Instances
      <3>4. \A q \in Deleters : q # d => del'[q].pc = "idle"
        BY <2>1 DEF Intact, Solo
      <3>5. Doomed'
        BY <2>5, <3>3, <3>4 DEF Doomed, Instances
      <3> QED
        BY <3>1, <3>2, <3>5 DEF Intact
    <2> QED
      BY <2>1, <2>4, <2>5
  <1>3. CASE DeleteRow(d)
    <2> DEFINE s == del[d].sid
    <2>1. /\ del[d].pc = "row" /\ s \in Series /\ del'[d] = IdleDel /\ series'[s].st = "gone"
          /\ \A t \in Series : t # s => series'[t] = series[t]
          /\ events' = {IF e.sid = s THEN [e EXCEPT !.sid = None] ELSE e : e \in events}
          /\ \A q \in Deleters : q # d => del'[q] = del[q]
      BY <1>3, DoesDeleteRow
    <2>2. \A e \in events : e.sid # s
      BY <2>1 DEF Intact, Doomed, Instances
    <2>3. events' = events
      BY <2>1, <2>2
    <2>4. Solo'
      BY <1>1, <2>1, IdleMade, SoloBy DEF Intact
    <2>5. Housed'
      BY <2>1, <2>2, <2>3 DEF Intact, Housed
    <2>6. Doomed' /\ New' /\ NoTwinInstances'
      BY <1>1, <2>1, <2>3, IdleMade, FewerHeirs, DoomedBy, NewBy, TwinsBy DEF Intact
    <2> QED
      BY <2>4, <2>5, <2>6 DEF Intact
  <1> QED
    BY <1>2, <1>3 DEF DeleteStep

LEMMA IntactCron ==
  ASSUME Exclusive, Typed, Numbers, Intact, Distinct', NEW c \in Crons, CronStep(c)
  PROVE  Intact'
  <1>1. UNCHANGED <<now, series, patch, del>>
    BY DEF CronStep, CronSelect, CronLoad, CronLast, CronInsert
  <1>2. CASE CronSelect(c)
    <2>1. PatchersIdle /\ DeletersIdle /\ CronsIdle /\ NoneMaking /\ UNCHANGED events
      BY <1>2, QuietIs DEF CronSelect
    <2>2. /\ cron'[c].pc = "load" /\ cron'[c].at = now
          /\ \A q \in Crons : q # c => cron'[q] = cron[q]
      BY <1>2, DoesCronSelect
    <2>3. Solo'
      BY <1>1, <2>1, <2>2 DEF Solo, PatchersIdle, DeletersIdle, CronsIdle, NoneMaking
    <2>4. Housed' /\ Doomed' /\ NoTwinInstances'
      BY <1>1, <2>1, FewerHeirs, HousedBy, DoomedBy, TwinsBy DEF Intact
    <2>5. now \in Nat
      BY DEF Typed
    <2>6. New'
      BY <1>1, <2>1, <2>2, <2>5 DEF New, CronsIdle
    <2> QED
      BY <2>3, <2>4, <2>6 DEF Intact
  <1>3. CASE CronLoad(c)
    <2>1. /\ cron[c].pc = "load" /\ UNCHANGED events
          /\ cron'[c] = IdleCron \/ (cron'[c].pc = "loop" /\ cron'[c].at = cron[c].at)
          /\ \A q \in Crons : q # c => cron'[q] = cron[q]
      BY <1>3, DoesCronLoad DEF CronLoad
    <2> QED
      BY <1>1, <2>1, IdleMade, FewerHeirs, IntactBy
  <1>4. ASSUME NEW s \in Series, CronLast(c, s) PROVE Intact'
    <2>1. /\ cron[c].pc = "loop"
          /\ \/ cron'[c] = IdleCron
             \/ cron'[c].pc = "loop" /\ cron'[c].at = cron[c].at
             \/ /\ cron'[c].pc = "insert" /\ cron'[c].sid = s /\ cron'[c].at = cron[c].at
                /\ cron[c].at >= now - 1 => \A x \in cron'[c].rows, e \in Instances(s) : e.day # x.day
          /\ \A q \in Crons : q # c => cron'[q] = cron[q]
      BY <1>4, DoesCronLast
    <2>2. UNCHANGED events
      BY <1>4 DEF CronLast
    <2>3. Heirs
      BY <2>2, FewerHeirs
    <2>4. Solo'
      BY <1>1, <2>1, SoloBy DEF Intact
    <2>5. Housed' /\ Doomed' /\ NoTwinInstances'
      BY <1>1, <2>3, HousedBy, DoomedBy, TwinsBy DEF Intact
    <2>6. cron[c].at >= now - 1
      BY <2>1 DEF Intact, New
    <2>7. \A q \in Crons : q # c => cron'[q].pc = "idle"
      BY <2>1 DEF Intact, Solo
    <2>8. New'
      <3> SUFFICES ASSUME NEW q \in Crons
                   PROVE  /\ cron'[q].pc # "idle" => cron'[q].at >= now - 1
                          /\ cron'[q].pc = "insert" =>
                               \A x \in cron'[q].rows, e \in events :
                                 e.sid = cron'[q].sid => e.own \/ e.day # x.day
        BY <1>1, <2>2 DEF New, Instances
      <3>1. CASE q # c
        BY <2>7, <3>1
      <3>2. CASE q = c
        BY <2>1, <2>6, <3>2, IdleMade DEF Instances
      <3> QED
        BY <3>1, <3>2
    <2> QED
      BY <2>4, <2>5, <2>8 DEF Intact
  <1>5. CASE CronInsert(c)
    <2> DEFINE s == cron[c].sid
               r == cron[c].base[s]
               rows == cron[c].rows
    <2>1. /\ cron[c].pc = "insert" /\ s \in Series /\ r \in 0 .. MaxRev
          /\ cron'[c] = IdleCron \/ (cron'[c].pc = "loop" /\ cron'[c].at = cron[c].at)
          /\ events' = events \/ (Exists(s) /\ ins' = ins + 1 /\ events' = events \cup Rows(s, rows, r))
          /\ \A q \in Crons : q # c => cron'[q] = cron[q]
      BY <1>5, DoesCronInsert
    <2>2. Plan(rows)
      BY DEF Numbers, Planning
    <2>3. \A x \in rows, e \in Instances(s) : e.own \/ e.day # x.day
      BY <2>1 DEF Intact, New
    <2>4. DeletersIdle /\ NoneMaking /\ \A q \in Crons : q # c => cron[q].pc = "idle"
      BY <2>1 DEF Intact, Solo
    <2> HIDE DEF s, r, rows
    <2>5. CASE events' = events
      BY <1>1, <2>1, <2>5, IdleMade, FewerHeirs, IntactBy
    <2>6. CASE Exists(s) /\ ins' = ins + 1 /\ events' = events \cup Rows(s, rows, r)
      <3>1. series[s].st = "row"
        BY <2>1, <2>4, <2>6 DEF Exists, NoneMaking
      <3>2. \A e \in Rows(s, rows, r) : e.sid = s
        BY <2>1, <2>2, <2>6, Added DEF Plan
      <3>3. Housed'
        BY <1>1, <2>1, <2>6, <3>1, <3>2 DEF Intact, Housed
      <3>4. Solo'
        BY <1>1, <2>1, IdleMade, SoloBy DEF Intact
      <3>5. Doomed'
        BY <1>1, <2>4 DEF Doomed, DeletersIdle
      <3>6. New'
        BY <1>1, <2>1, <2>4, IdleMade DEF Intact, New
      <3>7. NoTwinInstances'
        BY <2>1, <2>2, <2>3, <2>6, TwinsMore DEF Intact
      <3> QED
        BY <3>3, <3>4, <3>5, <3>6, <3>7 DEF Intact
    <2> QED
      BY <2>1, <2>5, <2>6
  <1> QED
    BY <1>2, <1>3, <1>4, <1>5 DEF CronStep

LEMMA IntactEvent ==
  ASSUME Typed, Numbers, Intact, Distinct', NEW e \in events,
         DeleteEvent(e) \/ \E day \in 0 .. MaxDay : EditEvent(e, day)
  PROVE  Intact'
  <1>1. UNCHANGED <<now, series, patch, del, cron>>
    BY DEF DeleteEvent, EditEvent
  <1>2. CASE DeleteEvent(e)
    BY <1>1, <1>2, DoesDeleteEvent, FewerHeirs, IntactBy
  <1>3. ASSUME NEW day \in 0 .. MaxDay, EditEvent(e, day) PROVE Intact'
    <2>1. Heirs
      BY <1>3, DoesEditEvent DEF Heirs, From
    <2> QED
      BY <1>1, <2>1, IntactBy
  <1> QED
    BY <1>2, <1>3

LEMMA IntactTick ==
  ASSUME Typed, Intact, Distinct', Tick
  PROVE  Intact'
  <1>1. /\ UNCHANGED <<series, events, patch, del, cron>> /\ now' = now + 1 /\ now \in Nat
        /\ \A c \in Crons : cron[c].pc # "idle" => cron[c].at = now
    BY DEF Tick, Typed
  <1>2. Solo' /\ Housed' /\ Doomed' /\ NoTwinInstances'
    BY <1>1, FewerHeirs, SoloBy, HousedBy, DoomedBy, TwinsBy DEF Intact
  <1>3. New'
    BY <1>1 DEF Intact, New, Instances
  <1> QED
    BY <1>2, <1>3 DEF Intact

LEMMA IntactStep ==
  ASSUME Exclusive, Typed, Numbers, Intact, [Next]_vars
  PROVE  Intact'
  <1>0. Distinct'
    BY NumbersStep DEF Numbers
  <1>1. CASE \E s \in Series : CreateSeries(s)
    BY <1>0, <1>1, IntactCreate
  <1>2. CASE CreateStep
    BY <1>0, <1>2, IntactInstances DEF CreateStep
  <1>3. CASE \E p \in Patchers, s \in Series, edit, each \in BOOLEAN, keep \in Counts \cup {NoCount} :
               PatchFetch(p, s, edit, each, keep)
    BY <1>0, <1>3, IntactFetch
  <1>4. CASE \E p \in Patchers : PatchStep(p)
    BY <1>0, <1>4, IntactPatch
  <1>5. CASE \E d \in Deleters, s \in Series : DeleteSeries(d, s)
    BY <1>0, <1>5, IntactDelete
  <1>6. CASE \E d \in Deleters : DeleteStep(d)
    BY <1>0, <1>6, IntactDeleteStep
  <1>7. CASE \E c \in Crons : CronStep(c)
    BY <1>0, <1>7, IntactCron
  <1>8. CASE \E e \in events : DeleteEvent(e) \/ \E day \in 0 .. MaxDay : EditEvent(e, day)
    BY <1>0, <1>8, IntactEvent
  <1>9. CASE Tick
    BY <1>0, <1>9, IntactTick
  <1>10. CASE UNCHANGED vars
    BY <1>0, <1>10, FewerHeirs, IntactBy DEF vars
  <1> QED
    BY <1>1, <1>2, <1>3, <1>4, <1>5, <1>6, <1>7, <1>8, <1>9, <1>10 DEF Next, Request

LEMMA IntactInit == Init => Intact
  BY IdleMade DEF Init, Intact, Solo, PatchersIdle, DeletersIdle, CronsIdle, NoneMaking, Housed, Doomed,
                  New, NoTwinInstances

\* While requests and cron calls do not overlap, the cron gives a series no
\* second instance of a day, and a DELETE leaves no event without its series.
THEOREM Series_Intact ==
  ASSUME Exclusive
  PROVE  Spec => []SeriesIntact
  <1>1. Init => Typed /\ Numbers /\ Intact
    <2>1. Init => Numbers
      BY DEF Init, Numbers, Distinct, Planning, Aimed, Plan, IdleCron, IdlePatch
    <2> QED
      BY <2>1, InitTyped, IntactInit
  <1>2. Typed /\ Numbers /\ Intact /\ [Next]_vars => Typed' /\ Numbers' /\ Intact'
    BY TypedStep, NumbersStep, IntactStep
  <1>3. Intact => SeriesIntact
    BY IdsAssumption DEF Intact, Housed, SeriesIntact, NoOrphans
  <1> QED
    BY <1>1, <1>2, <1>3, PTL DEF Spec

-----------------------------------------------------------------------------
(* The template and the instances that show it *)

Shows(s, r) == \A e \in Upcoming(s, now) : e.own \/ e.rev = r

\* no PATCH is between its first write and that of the template
Settled(s) == \A p \in Patchers : patch[p].sid = s => patch[p].pc \in {"count", "shrink"}

Shown   == \A s \in Series : Exists(s) /\ series[s].whole /\ Settled(s) => Shows(s, series[s].base)
Pending == \A p \in Patchers : patch[p].whole /\ patch[p].pc \in {"apply", "base"} =>
             \A e \in Upcoming(patch[p].sid, now) :
               e.own \/ e.rev = patch[p].rev \/ (patch[p].pc = "apply" /\ Id(e) \in patch[p].todo)
OwnRows == \A p \in Patchers, e \in events : Id(e) \in patch[p].todo => e.sid = patch[p].sid
Copied  == \A c \in Crons : cron[c].pc \in {"loop", "insert"} =>
             \A s \in Series : cron[c].base[s] = series[s].base

Templated == Shown /\ Pending /\ OwnRows /\ Copied

\* the rows after a step are rows before it that show what they showed
Likes == \A f \in events' : \E e \in events :
           From(f, e) /\ f.sid = e.sid /\ (f.own \/ f.rev = e.rev)

LEMMA FewerLikes == ASSUME events' \subseteq events PROVE Likes
  BY DEF Likes, From

\* what a series shows, after a step that changes none of its rows' template
LEMMA ShowsBy ==
  ASSUME Typed, Likes, now' \in Nat, now <= now', NEW s \in Series, NEW r, Shows(s, r)
  PROVE  \A f \in events' : f.sid = s /\ f.day >= now' => f.own \/ f.rev = r
  <1> SUFFICES ASSUME NEW f \in events', f.sid = s, f.day >= now', ~f.own
               PROVE  f.rev = r
    OBVIOUS
  <1>1. PICK e \in events : From(f, e) /\ f.sid = e.sid /\ f.rev = e.rev
    BY DEF Likes
  <1>2. ~e.own /\ e.day = f.day
    BY <1>1 DEF From
  <1>3. now \in Nat /\ e.day \in Nat
    BY DEF Typed, Born, Event
  <1>4. e \in Upcoming(s, now)
    BY <1>1, <1>2, <1>3 DEF Upcoming, Instances
  <1> QED
    BY <1>1, <1>2, <1>4 DEF Shows

\* a step that leaves the PATCHes alone
LEMMA TemplatedBy ==
  ASSUME Typed, Templated, Likes, Copied', now' \in Nat, now <= now', UNCHANGED patch,
         \A s \in Series : Exists(s)' => Exists(s) /\ series'[s].base = series[s].base
                                /\ (series'[s].whole => series[s].whole)
  PROVE  Templated'
  <1>1. Shown'
    <2> SUFFICES ASSUME NEW s \in Series, Exists(s)', series'[s].whole, Settled(s)'
                 PROVE  \A f \in events' : f.sid = s /\ f.day >= now' => f.own \/ f.rev = series'[s].base
      BY DEF Shown, Shows, Upcoming, Instances
    <2>1. Settled(s)
      BY DEF Settled
    <2>2. Shows(s, series[s].base)
      BY <2>1 DEF Templated, Shown
    <2>3. \A f \in events' : f.sid = s /\ f.day >= now' => f.own \/ f.rev = series[s].base
      BY <2>2, ShowsBy
    <2> QED
      BY <2>3
  <1>2. Pending'
    <2> SUFFICES ASSUME NEW p \in Patchers, patch[p].whole, patch[p].pc \in {"apply", "base"},
                        NEW f \in events', f.sid = patch[p].sid, f.day >= now', ~f.own
                 PROVE  f.rev = patch[p].rev \/ (patch[p].pc = "apply" /\ Id(f) \in patch[p].todo)
      BY DEF Pending, Upcoming, Instances, Id
    <2>1. PICK e \in events : From(f, e) /\ f.sid = e.sid /\ f.rev = e.rev
      BY DEF Likes
    <2>2. ~e.own /\ e.day = f.day /\ Id(f) = Id(e)
      BY <2>1 DEF From
    <2>3. now \in Nat /\ e.day \in Nat
      BY DEF Typed, Born, Event
    <2>4. e \in Upcoming(patch[p].sid, now)
      BY <2>1, <2>2, <2>3 DEF Upcoming, Instances
    <2>5. e.rev = patch[p].rev \/ (patch[p].pc = "apply" /\ Id(e) \in patch[p].todo)
      BY <2>2, <2>4 DEF Templated, Pending
    <2> QED
      BY <2>1, <2>2, <2>5
  <1>3. OwnRows'
    <2> SUFFICES ASSUME NEW p \in Patchers, NEW f \in events', Id(f) \in patch[p].todo
                 PROVE  f.sid = patch[p].sid
      BY DEF OwnRows, Id
    <2> QED
      BY DEF Likes, From, Templated, OwnRows
  <1> QED
    BY <1>1, <1>2, <1>3 DEF Templated

LEMMA IdlePatches ==
  ASSUME Typed, PatchersIdle
  PROVE  /\ \A s \in Series : Settled(s)
         /\ Pending /\ OwnRows
         /\ \A p \in Patchers : patch[p] = IdlePatch
  <1>1. \A p \in Patchers : patch[p] = IdlePatch
    BY DEF Typed, Sited, PatchersIdle
  <1>2. \A p \in Patchers : patch[p].sid = None /\ patch[p].todo = {} /\ patch[p].pc = "idle"
    BY <1>1, IdleMade
  <1> QED
    BY <1>1, <1>2, IdsAssumption DEF Settled, Pending, OwnRows

\* a step that inserts rows of a series, while there is no PATCH
LEMMA TemplatedMore ==
  ASSUME Typed, Typed', Templated, PatchersIdle, UNCHANGED <<now, patch>>, Copied',
         NEW s \in Series, NEW plan \in SUBSET RowPlan, NEW r \in 0 .. MaxRev, ins' = ins + 1,
         events' = events \cup Rows(s, plan, r), r = series[s].base,
         \A t \in Series : Exists(t)' => Exists(t) /\ series'[t].base = series[t].base
                                /\ (series'[t].whole => series[t].whole)
  PROVE  Templated'
  <1>1. \A t \in Series : Settled(t)
    BY IdlePatches
  <1>2. PatchersIdle'
    BY DEF PatchersIdle
  <1>3. Pending' /\ OwnRows'
    <2>1. \A p \in Patchers : patch[p] = IdlePatch
      BY IdlePatches
    <2>2. \A p \in Patchers : patch'[p].todo = {} /\ patch'[p].pc = "idle"
      BY <2>1, IdleMade
    <2> QED
      BY <2>2 DEF Pending, OwnRows
  <1>4. Shown'
    <2> SUFFICES ASSUME NEW t \in Series, Exists(t)', series'[t].whole,
                        NEW f \in events', f.sid = t, f.day >= now
                 PROVE  f.own \/ f.rev = series'[t].base
      BY DEF Shown, Shows, Upcoming, Instances
    <2>1. Exists(t) /\ series'[t].base = series[t].base /\ series[t].whole
      OBVIOUS
    <2>2. CASE f \in events
      BY <1>1, <2>1, <2>2 DEF Templated, Shown, Shows, Upcoming, Instances
    <2>3. CASE f \in Rows(s, plan, r)
      BY <2>1, <2>3, Added
    <2> QED
      BY <2>2, <2>3
  <1> QED
    BY <1>3, <1>4 DEF Templated

LEMMA TemplatedCreate ==
  ASSUME Exclusive, Typed, Intact, Templated, NEW s \in Series, CreateSeries(s)
  PROVE  Templated'
  <1>1. /\ PatchersIdle /\ CronsIdle /\ series[s].st = "none"
        /\ UNCHANGED <<now, events, patch, cron>>
    BY QuietIs DEF CreateSeries
  <1>2. \A t \in Series : t # s => series'[t] = series[t]
    BY DoesCreateSeries
  <1>3. (\A t \in Series : Settled(t)) /\ Pending /\ OwnRows
    BY <1>1, IdlePatches
  <1>4. Pending' /\ OwnRows' /\ Copied'
    BY <1>1, <1>3 DEF Pending, OwnRows, Copied, Upcoming, Instances, Id, CronsIdle
  <1>5. Shown'
    <2> SUFFICES ASSUME NEW t \in Series, Exists(t)', series'[t].whole
                 PROVE  \A e \in events : e.sid = t /\ e.day >= now => e.own \/ e.rev = series'[t].base
      BY <1>1 DEF Shown, Shows, Upcoming, Instances
    <2>1. CASE t = s
      BY <1>1, <2>1 DEF Intact, Housed
    <2>2. CASE t # s
      BY <1>2, <1>3, <2>2 DEF Templated, Shown, Shows, Upcoming, Instances, Exists
    <2> QED
      BY <2>1, <2>2
  <1> QED
    BY <1>4, <1>5 DEF Templated

LEMMA TemplatedInstances ==
  ASSUME Typed, Typed', Intact, Templated, NEW s \in Series, NEW start \in Starts, NEW count \in Counts,
         CreateInstances(s, start, count)
  PROVE  Templated'
  <1> DEFINE plan == Numbered(start, Length(count), 0)
             r == series[s].base
  <1>1. plan \in SUBSET RowPlan /\ r \in 0 .. MaxRev /\ r = series[s].base
    BY Planned, Lengths, CadenceAssumption DEF Typed, SeriesRow
  <1>2. /\ series[s].st = "making" /\ series'[s].base = series[s].base /\ (series'[s].whole <=> series[s].whole)
        /\ \A t \in Series : t # s => series'[t] = series[t]
        /\ events' = events \/ (ins' = ins + 1 /\ events' = events \cup Rows(s, plan, r))
    BY DoesCreateInstances
  <1>3. UNCHANGED <<now, patch, cron>> /\ now \in Nat
    BY DEF CreateInstances, Typed
  <1> HIDE DEF plan, r
  <1>4. PatchersIdle /\ CronsIdle
    BY <1>2 DEF Intact, Solo
  <1>5. Copied'
    BY <1>3, <1>4 DEF Copied, CronsIdle
  <1>6. \A t \in Series : Exists(t)' => Exists(t) /\ series'[t].base = series[t].base
                                       /\ (series'[t].whole => series[t].whole)
    BY <1>2 DEF Exists
  <1>7. CASE events' = events
    BY <1>3, <1>5, <1>6, <1>7, FewerLikes, TemplatedBy
  <1>8. CASE ins' = ins + 1 /\ events' = events \cup Rows(s, plan, r)
    BY <1>1, <1>3, <1>4, <1>5, <1>6, <1>8, TemplatedMore
  <1> QED
    BY <1>2, <1>7, <1>8

LEMMA TemplatedFetch ==
  ASSUME Exclusive, Typed, Numbers, Intact, Templated, NEW p \in Patchers, NEW s \in Series,
         NEW edit \in BOOLEAN, NEW each \in BOOLEAN, NEW keep \in Counts \cup {NoCount},
         PatchFetch(p, s, edit, each, keep)
  PROVE  Templated'
  <1>1. /\ PatchersIdle /\ CronsIdle /\ UNCHANGED <<now, series, events, cron>>
    BY QuietIs DEF PatchFetch
  <1>2. /\ patch'[p].sid = s /\ patch'[p].pc \in {"apply", "base"}
        /\ patch'[p].todo = {Id(e) : e \in Upcoming(s, now)}
        /\ patch'[p].pc = "base" => patch'[p].rev = series[s].base /\ (patch'[p].whole => series[s].whole)
        /\ Exists(s)
        /\ \A q \in Patchers : q # p => patch'[q] = patch[q]
    BY DoesPatchFetch
  <1>3. /\ \A t \in Series : Settled(t)
        /\ \A q \in Patchers : q # p => patch'[q] = IdlePatch
    BY <1>1, <1>2, IdlePatches
  <1>4. \A q \in Patchers : q # p => patch'[q].pc = "idle" /\ patch'[q].todo = {}
    BY <1>3, IdleMade
  <1>5. Copied'
    BY <1>1 DEF Copied, CronsIdle
  <1>6. Shown'
    BY <1>1, <1>2, <1>3 DEF Templated, Shown, Settled, Shows, Upcoming, Instances, Exists
  <1>7. OwnRows'
    <2> SUFFICES ASSUME NEW e \in events, Id(e) \in patch'[p].todo PROVE e.sid = patch'[p].sid
      BY <1>1, <1>4 DEF OwnRows, Id
    <2>1. PICK g \in Upcoming(s, now) : Id(e) = Id(g)
      BY <1>2
    <2>2. g \in events /\ g.sid = s
      BY DEF Upcoming, Instances
    <2>3. g = e
      BY <2>1, <2>2 DEF Numbers, Distinct
    <2> QED
      BY <1>2, <2>2, <2>3
  <1>8. Pending'
    <2> SUFFICES ASSUME patch'[p].whole, NEW e \in Upcoming(s, now), ~e.own
                 PROVE  e.rev = patch'[p].rev \/ (patch'[p].pc = "apply" /\ Id(e) \in patch'[p].todo)
      BY <1>1, <1>2, <1>4 DEF Pending, Upcoming, Instances, Id
    <2>1. CASE patch'[p].pc = "apply"
      BY <1>2, <2>1
    <2>2. CASE patch'[p].pc = "base"
      BY <1>2, <1>3, <2>2 DEF Templated, Shown, Shows
    <2> QED
      BY <1>2, <2>1, <2>2
  <1> QED
    BY <1>5, <1>6, <1>7, <1>8 DEF Templated

LEMMA TemplatedApply ==
  ASSUME Typed, Intact, Templated, NEW p \in Patchers, NEW ids, PatchApply(p, ids)
  PROVE  Templated'
  <1> DEFINE r == patch[p].rev
             s == patch[p].sid
  <1>1. /\ patch[p].pc = "apply" /\ patch'[p].pc \in {"apply", "base"} /\ ids \subseteq patch[p].todo
        /\ patch'[p].todo = patch[p].todo \ ids /\ (patch'[p].pc = "base" => patch'[p].todo = {})
        /\ patch'[p].sid = s /\ patch'[p].rev = r
        /\ patch'[p].whole => patch[p].whole /\ events' = Updated(ids, r)
        /\ events' = events \/ events' = Updated(ids, r)
        /\ \A q \in Patchers : q # p => patch'[q] = patch[q]
    BY DoesPatchApply
  <1>2. UNCHANGED <<now, series, cron>>
    BY DEF PatchApply
  <1>3. CronsIdle /\ \A q \in Patchers : q # p => patch[q] = IdlePatch
    BY <1>1 DEF Intact, Solo, Typed, Sited
  <1>4. \A q \in Patchers : q # p => patch'[q].pc = "idle" /\ patch'[q].todo = {} /\ patch'[q].sid = None
    BY <1>1, <1>3, IdleMade
  <1>5. r \in 0 .. MaxRev
    BY DEF Typed, Patch
  <1>6. \A f \in events' : \E e \in events :
          /\ Id(f) = Id(e) /\ f.sid = e.sid /\ f.day = e.day /\ (f.own <=> e.own)
          /\ f = e \/ (Id(e) \in ids /\ f.rev = r)
          /\ Id(e) \in ids /\ events' = Updated(ids, r) => f.rev = r
    <2>1. CASE events' = Updated(ids, r)
      BY <1>5, <2>1, Updates
    <2>2. CASE events' = events /\ events # Updated(ids, r)
      BY <2>2
    <2> QED
      BY <1>1, <2>1, <2>2
  <1> HIDE DEF r, s
  <1>7. Copied'
    BY <1>2, <1>3 DEF Copied, CronsIdle
  <1>8. OwnRows'
    <2> SUFFICES ASSUME NEW f \in events', Id(f) \in patch'[p].todo PROVE f.sid = s
      BY <1>1, <1>4 DEF OwnRows, Id
    <2> QED
      BY <1>1, <1>6 DEF Templated, OwnRows, s
  <1>9. Shown'
    <2> SUFFICES ASSUME NEW t \in Series, Exists(t), series[t].whole, Settled(t)',
                        NEW f \in events', f.sid = t, f.day >= now, ~f.own
                 PROVE  f.rev = series[t].base
      BY <1>2 DEF Shown, Shows, Upcoming, Instances, Exists
    <2>1. t # s
      BY <1>1 DEF Settled
    <2>2. Settled(t)
      BY <1>1, <1>3, <2>1, IdleMade, IdsAssumption DEF Settled, s
    <2>3. PICK e \in events : /\ Id(f) = Id(e) /\ f.sid = e.sid /\ f.day = e.day /\ (f.own <=> e.own)
                              /\ f = e \/ Id(e) \in ids
      BY <1>6
    <2>4. f = e
      BY <1>1, <2>1, <2>3 DEF Templated, OwnRows, s
    <2> QED
      BY <2>2, <2>3, <2>4 DEF Templated, Shown, Shows, Upcoming, Instances
  <1>10. Pending'
    <2> SUFFICES ASSUME patch'[p].whole, NEW f \in events', f.sid = s, f.day >= now, ~f.own
                 PROVE  f.rev = r \/ (patch'[p].pc = "apply" /\ Id(f) \in patch'[p].todo)
      BY <1>1, <1>2, <1>4 DEF Pending, Upcoming, Instances, Id
    <2>1. PICK e \in events : /\ Id(f) = Id(e) /\ f.sid = e.sid /\ f.day = e.day /\ (f.own <=> e.own)
                              /\ f = e \/ (Id(e) \in ids /\ f.rev = r)
                              /\ Id(e) \in ids /\ events' = Updated(ids, r) => f.rev = r
      BY <1>6
    <2>2. CASE Id(e) \in ids
      BY <1>1, <2>1, <2>2
    <2>3. CASE Id(e) \notin ids
      <3>1. f = e /\ e \in Upcoming(patch[p].sid, now)
        BY <2>1, <2>3 DEF Upcoming, Instances, s
      <3>2. e.rev = patch[p].rev \/ Id(e) \in patch[p].todo
        BY <1>1, <2>1, <3>1 DEF Templated, Pending
      <3> QED
        BY <1>1, <2>3, <3>1, <3>2 DEF r
    <2> QED
      BY <2>2, <2>3
  <1> QED
    BY <1>7, <1>8, <1>9, <1>10 DEF Templated

LEMMA TemplatedBase ==
  ASSUME Typed, Intact, Templated, NEW p \in Patchers, PatchBase(p)
  PROVE  Templated'
  <1> DEFINE s == patch[p].sid
  <1>1. /\ patch[p].pc = "base" /\ s \in Series
        /\ patch'[p] = IdlePatch \/ (patch'[p].pc = "count" /\ patch'[p].todo = {} /\ patch'[p].sid = s)
        /\ \A q \in Patchers : q # p => patch'[q] = patch[q]
        /\ \A t \in Series : t # s => series'[t] = series[t]
        /\ series'[s].st = series[s].st
        /\ Exists(s) => series'[s].base = patch[p].rev /\ (series'[s].whole <=> patch[p].whole)
    BY DoesPatchBase
  <1>2. UNCHANGED <<now, events, cron>>
    BY DEF PatchBase
  <1>3. CronsIdle /\ \A q \in Patchers : q # p => patch[q] = IdlePatch
    BY <1>1 DEF Intact, Solo, Typed, Sited
  <1>4. \A q \in Patchers : patch'[q].pc \in {"idle", "count"} /\ patch'[q].todo = {}
    BY <1>1, <1>3, IdleMade
  <1>5. Copied'
    BY <1>2, <1>3 DEF Copied, CronsIdle
  <1>6. Pending' /\ OwnRows'
    BY <1>4 DEF Pending, OwnRows
  <1>7. Shown'
    <2> SUFFICES ASSUME NEW t \in Series, Exists(t)', series'[t].whole,
                        NEW e \in Upcoming(t, now), ~e.own
                 PROVE  e.rev = series'[t].base
      BY <1>2 DEF Shown, Shows, Upcoming, Instances
    <2>1. CASE t = s
      <3>1. Exists(s)
        BY <1>1, <2>1 DEF Exists
      <3> QED
        BY <1>1, <2>1, <3>1 DEF Templated, Pending
    <2>2. CASE t # s
      <3>1. Settled(t) /\ Exists(t)
        BY <1>1, <1>3, <2>2, IdleMade, IdsAssumption DEF Settled, Exists
      <3> QED
        BY <1>1, <2>2, <3>1 DEF Templated, Shown, Shows
    <2> QED
      BY <2>1, <2>2
  <1> QED
    BY <1>5, <1>6, <1>7 DEF Templated

\* the count: after the template, and with no row changed but removed
LEMMA TemplatedCount ==
  ASSUME Typed, Numbers, Intact, Templated, NEW p \in Patchers, PatchRefetch(p) \/ PatchShrink(p)
  PROVE  Templated'
  <1>1. /\ patch[p].pc \in {"count", "shrink"}
        /\ \/ patch'[p] = IdlePatch
           \/ /\ patch'[p].pc = "shrink" /\ patch'[p].sid = patch[p].sid
              /\ \E gone \in SUBSET Upcoming(patch[p].sid, patch[p].at) :
                   patch'[p].todo = {Id(e) : e \in gone}
        /\ \A q \in Patchers : q # p => patch'[q] = patch[q]
    BY DoesPatchRefetch, DoesPatchShrink
  <1>2. UNCHANGED <<now, series, cron>> /\ events' \subseteq events
    BY DoesPatchShrink DEF PatchRefetch, PatchShrink
  <1>3. CronsIdle /\ \A q \in Patchers : q # p => patch[q] = IdlePatch
    BY <1>1 DEF Intact, Solo, Typed, Sited
  <1>4. \A q \in Patchers : q # p => patch'[q].pc = "idle" /\ patch'[q].todo = {} /\ patch[q].sid = None
    BY <1>1, <1>3, IdleMade
  <1>5. Copied'
    BY <1>2, <1>3 DEF Copied, CronsIdle
  <1>6. patch'[p].pc \in {"idle", "shrink"}
    BY <1>1, IdleMade
  <1>7. Pending'
    BY <1>4, <1>6 DEF Pending
  <1>8. Shown'
    <2>1. \A t \in Series : Settled(t)
      BY <1>1, <1>4, IdsAssumption DEF Settled
    <2> QED
      BY <1>2, <2>1 DEF Templated, Shown, Shows, Upcoming, Instances, Exists
  <1>9. OwnRows'
    <2> SUFFICES ASSUME NEW e \in events, Id(e) \in patch'[p].todo PROVE e.sid = patch'[p].sid
      BY <1>2, <1>4 DEF OwnRows, Id
    <2>1. PICK gone \in SUBSET Upcoming(patch[p].sid, patch[p].at) : patch'[p].todo = {Id(g) : g \in gone}
      BY <1>1, IdleMade
    <2>2. PICK g \in Upcoming(patch[p].sid, patch[p].at) : Id(e) = Id(g)
      BY <2>1
    <2>3. g \in events /\ g.sid = patch[p].sid
      BY DEF Upcoming, Instances
    <2>4. g = e
      BY <2>2, <2>3 DEF Numbers, Distinct
    <2> QED
      BY <1>1, <2>3, <2>4, IdleMade
  <1> QED
    BY <1>5, <1>7, <1>8, <1>9 DEF Templated

LEMMA TemplatedCron ==
  ASSUME Typed, Typed', Numbers, Intact, Templated, NEW c \in Crons, CronStep(c)
  PROVE  Templated'
  <1>1. UNCHANGED <<now, series, patch>> /\ now \in Nat
    BY DEF CronStep, CronSelect, CronLoad, CronLast, CronInsert, Typed
  <1>2. /\ \A q \in Crons : q # c => cron'[q] = cron[q]
        /\ cron'[c].pc \in {"loop", "insert"} => \A s \in Series : cron'[c].base[s] = series[s].base
    <2>1. CASE CronSelect(c)
      BY <2>1, DoesCronSelect
    <2>2. CASE CronLoad(c)
      BY <2>2, DoesCronLoad, IdleMade
    <2>3. ASSUME cron[c].pc \in {"loop", "insert"}, cron'[c] = IdleCron \/ cron'[c].base = cron[c].base
          PROVE  cron'[c].pc \in {"loop", "insert"} => \A s \in Series : cron'[c].base[s] = series[s].base
      BY <2>3, IdleMade DEF Templated, Copied
    <2>4. CASE \E s \in Series : CronLast(c, s)
      BY <2>3, <2>4, DoesCronLast
    <2>5. CASE CronInsert(c)
      BY <2>3, <2>5, DoesCronInsert
    <2> QED
      BY <2>1, <2>2, <2>4, <2>5 DEF CronStep
  <1>3. Copied'
    BY <1>1, <1>2 DEF Templated, Copied
  <1>4. \A t \in Series : Exists(t)' => Exists(t) /\ series'[t].base = series[t].base
                                       /\ (series'[t].whole => series[t].whole)
    BY <1>1 DEF Exists
  <1>5. CASE events' = events
    BY <1>1, <1>3, <1>4, <1>5, FewerLikes, TemplatedBy
  <1>6. CASE CronInsert(c)
    <2> DEFINE s == cron[c].sid
               r == cron[c].base[s]
               rows == cron[c].rows
    <2>1. /\ cron[c].pc = "insert" /\ s \in Series /\ r \in 0 .. MaxRev /\ rows \in SUBSET RowPlan
          /\ events' = events \/ (ins' = ins + 1 /\ events' = events \cup Rows(s, rows, r))
      BY <1>6, DoesCronInsert
    <2>2. PatchersIdle
      BY <2>1 DEF Intact, Solo
    <2>3. r = series[s].base
      BY <2>1 DEF Templated, Copied
    <2> HIDE DEF s, r, rows
    <2>4. CASE ins' = ins + 1 /\ events' = events \cup Rows(s, rows, r)
      BY <1>1, <1>3, <1>4, <2>1, <2>2, <2>3, <2>4, TemplatedMore
    <2> QED
      BY <1>5, <2>1, <2>4
  <1> QED
    BY <1>5, <1>6 DEF CronStep, CronSelect, CronLoad, CronLast

LEMMA TemplatedStep ==
  ASSUME Exclusive, Typed, Typed', Numbers, Intact, Templated, [Next]_vars
  PROVE  Templated'
  <1>1. CASE \E s \in Series : CreateSeries(s)
    BY <1>1, TemplatedCreate
  <1>2. CASE CreateStep
    BY <1>2, TemplatedInstances DEF CreateStep
  <1>3. CASE \E p \in Patchers, s \in Series, edit, each \in BOOLEAN, keep \in Counts \cup {NoCount} :
               PatchFetch(p, s, edit, each, keep)
    BY <1>3, TemplatedFetch
  <1>4. CASE \E p \in Patchers : PatchStep(p)
    BY <1>4, TemplatedApply, TemplatedBase, TemplatedCount DEF PatchStep
  <1>5. CASE \E c \in Crons : CronStep(c)
    BY <1>5, TemplatedCron
  <1>6. ASSUME Likes, UNCHANGED <<patch, cron>>, now' \in Nat, now <= now',
               \A s \in Series : series'[s] = series[s] \/ series'[s].st = "gone",
               UNCHANGED series \/ CronsIdle
        PROVE  Templated'
    <2>1. Copied'
      BY <1>6 DEF Templated, Copied, CronsIdle
    <2>2. \A s \in Series : Exists(s)' => Exists(s) /\ series'[s].base = series[s].base
                                         /\ (series'[s].whole => series[s].whole)
      BY <1>6 DEF Exists
    <2> QED
      BY <1>6, <2>1, <2>2, TemplatedBy
  <1>7. now \in Nat
    BY DEF Typed
  <1>8. CASE \E d \in Deleters, s \in Series : DeleteSeries(d, s)
    BY <1>6, <1>7, <1>8, FewerLikes DEF DeleteSeries
  <1>9. ASSUME NEW d \in Deleters, DeleteInstances(d) PROVE Templated'
    BY <1>6, <1>7, <1>9, FewerLikes DEF DeleteInstances
  <1>10. ASSUME NEW d \in Deleters, DeleteRow(d) PROVE Templated'
    <2> DEFINE s == del[d].sid
    <2>1. /\ del[d].pc = "row" /\ s \in Series /\ series'[s].st = "gone"
          /\ \A t \in Series : t # s => series'[t] = series[t]
          /\ events' = {IF e.sid = s THEN [e EXCEPT !.sid = None] ELSE e : e \in events}
      BY <1>10, DoesDeleteRow
    <2>2. \A e \in events : e.sid # s
      BY <2>1 DEF Intact, Doomed, Instances
    <2>3. events' = events
      BY <2>1, <2>2
    <2>4. CronsIdle
      BY <2>1 DEF Intact, Solo
    <2>5. UNCHANGED <<now, patch, cron>>
      BY <1>10 DEF DeleteRow
    <2> QED
      BY <1>6, <1>7, <2>1, <2>3, <2>4, <2>5, FewerLikes
  <1>11. CASE \E e \in events : DeleteEvent(e)
    BY <1>6, <1>7, <1>11, FewerLikes DEF DeleteEvent
  <1>12. CASE \E e \in events : \E day \in 0 .. MaxDay : EditEvent(e, day)
    <2>1. PICK e \in events, day \in 0 .. MaxDay : EditEvent(e, day)
      BY <1>12
    <2>2. Likes
      BY <2>1, DoesEditEvent DEF Likes, From
    <2> QED
      BY <1>6, <1>7, <2>1, <2>2 DEF EditEvent
  <1>13. CASE Tick
    BY <1>6, <1>7, <1>13, FewerLikes DEF Tick
  <1>14. CASE UNCHANGED vars
    BY <1>6, <1>7, <1>14, FewerLikes DEF vars
  <1> QED
    BY <1>1, <1>2, <1>3, <1>4, <1>5, <1>8, <1>9, <1>10, <1>11, <1>12, <1>13, <1>14
       DEF Next, Request, DeleteStep

\* "Template-first": while requests and cron calls do not overlap and no PATCH of
\* a series is under way, every upcoming instance that was not edited singly shows
\* the template the next ones will be made from, unless the last PATCH reported
\* fewer updates than instances.
THEOREM Upcoming_Follow ==
  ASSUME Exclusive
  PROVE  Spec => []UpcomingFollowTemplate
  <1>1. Init => Typed /\ Numbers /\ Intact /\ Templated
    <2>1. Init => Numbers
      BY DEF Init, Numbers, Distinct, Planning, Aimed, Plan, IdleCron, IdlePatch
    <2>2. Init => Templated
      BY IdleMade DEF Init, Templated, Shown, Pending, OwnRows, Copied, Exists
    <2> QED
      BY <2>1, <2>2, InitTyped, IntactInit
  <1>2. Typed /\ Numbers /\ Intact /\ Templated /\ [Next]_vars
          => Typed' /\ Numbers' /\ Intact' /\ Templated'
    BY TypedStep, NumbersStep, IntactStep, TemplatedStep
  <1>3. Templated => UpcomingFollowTemplate
    BY DEF Templated, Shown, Settled, Shows, UpcomingFollowTemplate
  <1> QED
    BY <1>1, <1>2, <1>3, PTL DEF Spec

-----------------------------------------------------------------------------
(* RRULEs told and read *)

\* sets of days of the week of no day and of one
LEMMA FewDays ==
  /\ \A day : Cardinality({day}) = 1
  /\ Cardinality({}) = 0
  /\ \A D \in SUBSET (0 .. 6) : /\ Cardinality(D) \in Nat /\ (Cardinality(D) = 0 <=> D = {})
                                /\ Cardinality(D) = 1 <=> \E day \in 0 .. 6 : D = {day}
  <1>1. \A day : Cardinality({day}) = 1
    BY FS_Singleton
  <1>2. Cardinality({}) = 0
    BY FS_EmptySet
  <1>3. ASSUME NEW D \in SUBSET (0 .. 6)
        PROVE  /\ Cardinality(D) \in Nat /\ (Cardinality(D) = 0 <=> D = {})
               /\ Cardinality(D) = 1 <=> \E day \in 0 .. 6 : D = {day}
    <2>1. IsFiniteSet(D)
      <3>1. IsFiniteSet(0 .. 6)
        BY 0 \in Int /\ 6 \in Int, FS_Interval
      <3> QED
        BY <3>1, FS_Subset
    <2>2. Cardinality(D) \in Nat /\ (Cardinality(D) = 0 <=> D = {})
      BY <2>1, FS_CardinalityType, FS_EmptySet
    <2>3. Cardinality(D) = 1 <=> \E day : D = {day}
      BY <2>1, FS_Singleton
    <2> QED
      BY <2>2, <2>3
  <1> QED
    BY <1>1, <1>2, <1>3

\* What ToRRule makes of each recurrence, and FromRRule of each kind of RRULE.
LEMMA Told ==
  ASSUME NEW count
  PROVE  /\ ToRRule(Periodic("daily"), count) = RRule("DAILY", 1, {}, 0, count)
         /\ ToRRule(Periodic("weekly"), count) = RRule("WEEKLY", 1, {}, 0, count)
         /\ ToRRule(Periodic("biweekly"), count) = RRule("WEEKLY", 2, {}, 0, count)
         /\ ToRRule(Periodic("monthly"), count) = RRule("MONTHLY", 1, {}, 0, count)
         /\ \A D : ToRRule(WeeklyDays(D), count) = RRule("WEEKLY", 1, D, 0, count)
         /\ \A n, day : ToRRule(Ordinal(n, day), count) = RRule("MONTHLY", 1, {day}, n, count)
  BY DEF ToRRule, Periodic, WeeklyDays, Ordinal

LEMMA Understood ==
  ASSUME NEW r, r.byday \in SUBSET (0 .. 6), r.interval \in Nat, r.nth \in Nat
  PROVE  /\ r.freq = "DAILY" /\ r.interval = 1 /\ r.byday = {} => FromRRule(r) = Periodic("daily")
         /\ r.freq = "WEEKLY" /\ r.interval = 2 /\ r.byday = {} => FromRRule(r) = Periodic("biweekly")
         /\ r.freq = "WEEKLY" /\ r.interval = 1 /\ r.nth = 0 =>
              FromRRule(r) = IF Cardinality(r.byday) \in {0, 1} THEN Periodic("weekly")
                                                                ELSE WeeklyDays(r.byday)
         /\ \A day : r.freq = "MONTHLY" /\ r.nth \in 1 .. 5 /\ r.byday = {day} =>
              FromRRule(r) = Ordinal(r.nth, day)
         /\ r.freq = "MONTHLY" /\ r.interval = 1 /\ r.byday = {} => FromRRule(r) = Periodic("monthly")
  <1>1. \A day : Cardinality({day}) = 1
    BY FewDays
  <1>2. Cardinality({}) = 0
    BY FewDays
  <1>3. ASSUME r.freq = "DAILY", r.interval = 1, r.byday = {} PROVE FromRRule(r) = Periodic("daily")
    BY <1>3 DEF FromRRule
  <1>4. ASSUME r.freq = "WEEKLY", r.interval = 2, r.byday = {} PROVE FromRRule(r) = Periodic("biweekly")
    BY <1>4 DEF FromRRule
  <1>5. ASSUME r.freq = "WEEKLY", r.interval = 1, r.nth = 0
        PROVE  FromRRule(r) = IF Cardinality(r.byday) \in {0, 1} THEN Periodic("weekly")
                                                                ELSE WeeklyDays(r.byday)
    BY <1>5 DEF FromRRule
  <1>6. ASSUME NEW day, r.freq = "MONTHLY", r.nth \in 1 .. 5, r.byday = {day}
        PROVE  FromRRule(r) = Ordinal(r.nth, day)
    <2>1. Cardinality(r.byday) = 1 /\ r.byday # {}
      BY <1>1, <1>6
    <2>2. FromRRule(r) = Ordinal(r.nth, CHOOSE x \in r.byday : TRUE)
      BY <1>6, <2>1 DEF FromRRule
    <2>3. (CHOOSE x \in r.byday : TRUE) = day
      BY <1>6
    <2> QED
      BY <2>2, <2>3
  <1>7. ASSUME r.freq = "MONTHLY", r.interval = 1, r.byday = {}
        PROVE  FromRRule(r) = Periodic("monthly")
    BY <1>2, <1>7 DEF FromRRule
  <1> QED
    BY <1>3, <1>4, <1>5, <1>6, <1>7

\* What FromRRule accepts.
LEMMA Accepted ==
  ASSUME NEW r, r.byday \in SUBSET (0 .. 6), r.interval \in Nat, r.nth \in Nat,
         FromRRule(r) # Unsupported
  PROVE  \/ r.freq = "DAILY" /\ r.interval = 1 /\ r.byday = {}
         \/ r.freq = "WEEKLY" /\ r.interval = 2 /\ r.byday = {}
         \/ r.freq = "WEEKLY" /\ r.interval = 1 /\ r.nth = 0
         \/ r.freq = "MONTHLY" /\ r.nth \in 1 .. 5 /\ \E day \in 0 .. 6 : r.byday = {day}
         \/ r.freq = "MONTHLY" /\ r.interval = 1 /\ r.byday = {}
  <1>1. Cardinality(r.byday) = 1 <=> \E day \in 0 .. 6 : r.byday = {day}
    BY FewDays
  <1> QED
    BY <1>1 DEF FromRRule

\* What is told of a recurrence reads as the same one, and what is accepted is told
\* again as it came, but for lists of one weekday and ordinal rules of an interval:
\* for every first day and every count.
THEOREM Rule_Survives == RecurrenceInit => RuleSurvives
  <1> SUFFICES ASSUME RecurrenceInit PROVE RuleSurvives
    OBVIOUS
  <1> DEFINE count == asked.count
             kept  == \/ FromRRule(ToRRule(asked.rule, count)) = asked.rule
                      \/ asked.rule.kind = "weekly_days" /\ Cardinality(asked.rule.days) = 1
             back  == ToRRule(FromRRule(read), 0)
  <1>1. kept
    <2>1. asked.rule \in Rules
      BY DEF RecurrenceInit
    <2>2. \A f, i, D, n : LET r == RRule(f, i, D, n, count) IN
            r.freq = f /\ r.interval = i /\ r.byday = D /\ r.nth = n
      BY DEF RRule
    <2>3. ASSUME NEW kind \in {"daily", "weekly", "biweekly", "monthly"}, asked.rule = Periodic(kind)
          PROVE  kept
      <3>1. FromRRule(ToRRule(Periodic(kind), count)) = Periodic(kind)
        BY <2>2, Told, Understood, FewDays
      <3> QED
        BY <2>3, <3>1
    <2>4. ASSUME NEW D \in (SUBSET (0 .. 6)) \ {{}}, asked.rule = WeeklyDays(D) PROVE kept
      <3>1. WeeklyDays(D).kind = "weekly_days" /\ WeeklyDays(D).days = D
        BY DEF WeeklyDays
      <3>2. CASE Cardinality(D) = 1
        BY <2>4, <3>1, <3>2
      <3>3. CASE Cardinality(D) # 1
        <4>1. Cardinality(D) \notin {0, 1}
          <5>1. D # {} /\ D \in SUBSET (0 .. 6)
            OBVIOUS
          <5>2. Cardinality(D) = 0 <=> D = {}
            BY <5>1, FewDays
          <5> QED
            BY <3>3, <5>1, <5>2
        <4>2. FromRRule(RRule("WEEKLY", 1, D, 0, count)) = WeeklyDays(D)
          <5> DEFINE r == RRule("WEEKLY", 1, D, 0, count)
          <5>1. r.freq = "WEEKLY" /\ r.interval = 1 /\ r.byday = D /\ r.nth = 0
            BY <2>2
          <5> HIDE DEF r
          <5>2. r.byday \in SUBSET (0 .. 6) /\ r.interval \in Nat /\ r.nth \in Nat
            BY <5>1
          <5>3. FromRRule(r) = WeeklyDays(r.byday)
            BY <4>1, <5>1, <5>2, Understood
          <5> QED
            BY <5>1, <5>3 DEF r
        <4> QED
          BY <2>4, <4>2, Told
      <3> QED
        BY <3>2, <3>3
    <2>5. ASSUME NEW n \in 1 .. 5, NEW day \in 0 .. 6, asked.rule = Ordinal(n, day) PROVE kept
      <3> DEFINE r == RRule("MONTHLY", 1, {day}, n, count)
      <3>1. r.freq = "MONTHLY" /\ r.interval = 1 /\ r.byday = {day} /\ r.nth = n
        BY <2>2
      <3>2. ToRRule(asked.rule, count) = r
        BY <2>5, Told
      <3> HIDE DEF r
      <3>3. r.byday \in SUBSET (0 .. 6) /\ r.interval \in Nat /\ r.nth \in 1 .. 5 /\ r.nth \in Nat
        BY <3>1
      <3>4. FromRRule(r) = Ordinal(n, day)
        BY <3>1, <3>3, Understood
      <3> QED
        BY <2>5, <3>2, <3>4
    <2> QED
      BY <2>1, <2>3, <2>4, <2>5 DEF Rules
  <1>2. ASSUME FromRRule(read) # Unsupported
        PROVE  \/ back = read
               \/ back = [read EXCEPT !.byday = {}] /\ read.freq = "WEEKLY"
                                                    /\ Cardinality(read.byday) = 1
               \/ back = [read EXCEPT !.interval = 1] /\ read.nth # 0
    <2>1. /\ read \in [freq : {"DAILY", "WEEKLY", "MONTHLY", "YEARLY"}, interval : 1 .. 3,
                       byday : SUBSET (0 .. 6), nth : 0 .. 6, count : {0}]
          /\ read.byday = {} => read.nth = 0
      BY DEF RecurrenceInit
    <2>2. read = RRule(read.freq, read.interval, read.byday, read.nth, 0)
      BY <2>1 DEF RRule
    <2>3. /\ [read EXCEPT !.byday = {}] = RRule(read.freq, read.interval, {}, read.nth, 0)
          /\ [read EXCEPT !.interval = 1] = RRule(read.freq, 1, read.byday, read.nth, 0)
      BY <2>1 DEF RRule
    <2>4. CASE read.freq = "DAILY" /\ read.interval = 1 /\ read.byday = {}
      BY <2>1, <2>2, <2>4, Told, Understood
    <2>5. CASE read.freq = "WEEKLY" /\ read.interval = 2 /\ read.byday = {}
      BY <2>1, <2>2, <2>5, Told, Understood
    <2>6. CASE read.freq = "WEEKLY" /\ read.interval = 1 /\ read.nth = 0
      <3>1. FromRRule(read) = IF Cardinality(read.byday) \in {0, 1} THEN Periodic("weekly")
                                                                    ELSE WeeklyDays(read.byday)
        BY <2>1, <2>6, Understood
      <3>2. CASE Cardinality(read.byday) \notin {0, 1}
        BY <2>2, <2>6, <3>1, <3>2, Told
      <3>3. CASE Cardinality(read.byday) = 0
        BY <2>1, <2>2, <2>6, <3>1, <3>3, Told, FewDays
      <3>4. CASE Cardinality(read.byday) = 1
        BY <2>3, <2>6, <3>1, <3>4, Told
      <3> QED
        BY <3>2, <3>3, <3>4
    <2>7. CASE read.freq = "MONTHLY" /\ read.nth \in 1 .. 5 /\ \E day \in 0 .. 6 : read.byday = {day}
      <3>1. PICK day \in 0 .. 6 : read.byday = {day}
        BY <2>7
      <3>2. FromRRule(read) = Ordinal(read.nth, day)
        BY <2>1, <2>7, <3>1, Understood
      <3> QED
        BY <2>3, <2>7, <3>1, <3>2, Told
    <2>8. CASE read.freq = "MONTHLY" /\ read.interval = 1 /\ read.byday = {}
      BY <2>1, <2>2, <2>8, Told, Understood
    <2>9. read.interval \in Nat /\ read.nth \in Nat
      BY <2>1
    <2> HIDE DEF back
    <2> QED
      BY <1>2, <2>1, <2>4, <2>5, <2>6, <2>7, <2>8, <2>9, Accepted
  <1> QED
    BY <1>1, <1>2 DEF RuleSurvives

-----------------------------------------------------------------------------
(* The calendar *)

\* leap years of the three kinds before a year and before the next
LEMMA Centuries ==
  ASSUME NEW y \in Nat
  PROVE  /\ (y + 1 + 3) \div 4 = (y + 3) \div 4 + (IF y % 4 = 0 THEN 1 ELSE 0)
         /\ (y + 1 + 99) \div 100 = (y + 99) \div 100 + (IF y % 100 = 0 THEN 1 ELSE 0)
         /\ (y + 1 + 399) \div 400 = (y + 399) \div 400 + (IF y % 400 = 0 THEN 1 ELSE 0)
         /\ y % 400 = 0 => y % 100 = 0
         /\ y % 100 = 0 => y % 4 = 0
  OBVIOUS

LEMMA YearLength ==
  ASSUME NEW y \in Nat
  PROVE  /\ NewYear(y) \in Nat
         /\ NewYear(y + 1) = NewYear(y) + 365 + (IF Leap(y) THEN 1 ELSE 0)
  <1>1. NewYear(y) \in Nat
    BY DEF NewYear
  <1>2. NewYear(y + 1) = NewYear(y) + 365 + (IF Leap(y) THEN 1 ELSE 0)
    BY Centuries DEF NewYear, Leap
  <1> QED
    BY <1>1, <1>2

LEMMA YearsFollow ==
  ASSUME NEW y \in Nat, NEW z \in Nat, y <= z
  PROVE  NewYear(y) <= NewYear(z)
  BY DEF NewYear

\* a year that is l days longer has s days before its month m, the first being 0
DaysBefore(m, l, s) ==
  /\ m = 0 => s = 0
  /\ m = 1 => s = 31
  /\ m = 2 => s = 59 + l
  /\ m = 3 => s = 90 + l
  /\ m = 4 => s = 120 + l
  /\ m = 5 => s = 151 + l
  /\ m = 6 => s = 181 + l
  /\ m = 7 => s = 212 + l
  /\ m = 8 => s = 243 + l
  /\ m = 9 => s = 273 + l
  /\ m = 10 => s = 304 + l
  /\ m = 11 => s = 334 + l

LEMMA MonthOfYear ==
  ASSUME NEW k \in Nat
  PROVE  /\ MonthStart(k) \in Nat
         /\ DaysBefore(k % 12, LeapIn(k), MonthStart(k) - NewYear(k \div 12))
  <1> DEFINE y == k \div 12
             m == k % 12
             l == LeapIn(k)
             T == <<0, 31, 59, 90, 120, 151, 181, 212, 243, 273, 304, 334>>
  <1>1. y \in Nat /\ m \in 0 .. 11
    OBVIOUS
  <1>2. /\ T[1] = 0 /\ T[2] = 31 /\ T[3] = 59 /\ T[4] = 90 /\ T[5] = 120 /\ T[6] = 151
        /\ T[7] = 181 /\ T[8] = 212 /\ T[9] = 243 /\ T[10] = 273 /\ T[11] = 304 /\ T[12] = 334
    OBVIOUS
  <1>3. MonthStart(k) = NewYear(y) + T[m + 1] + (IF m > 1 THEN l ELSE 0)
    BY DEF MonthStart
  <1>4. NewYear(y) \in Nat /\ l \in 0 .. 1
    BY <1>1, YearLength DEF LeapIn
  <1> HIDE DEF y, m, l, T
  <1>5. \A i \in 0 .. 11 : T[i + 1] \in Nat
    BY <1>2
  <1>6. MonthStart(k) \in Nat /\ MonthStart(k) - NewYear(y) = T[m + 1] + (IF m > 1 THEN l ELSE 0)
    BY <1>1, <1>3, <1>4, <1>5
  <1>7. DaysBefore(m, l, T[m + 1] + (IF m > 1 THEN l ELSE 0))
    BY <1>1, <1>2, <1>4 DEF DaysBefore
  <1> QED
    BY <1>6, <1>7 DEF y, m, l

LEMMA DaysOfMonth ==
  ASSUME NEW m \in 0 .. 10, NEW l \in 0 .. 1, NEW s \in Int, NEW t \in Int,
         DaysBefore(m, l, s), DaysBefore(m + 1, l, t)
  PROVE  t - s \in 28 .. 31
  BY DEF DaysBefore

\* every month has 28 to 31 days
LEMMA Months ==
  ASSUME NEW k \in Nat
  PROVE  /\ MonthStart(k) \in Nat /\ MonthLength(k) \in 28 .. 31
         /\ MonthStart(k + 1) = MonthStart(k) + MonthLength(k)
  <1> DEFINE y == k \div 12
             m == k % 12
             l == LeapIn(k)
             s == MonthStart(k)
             t == MonthStart(k + 1)
  <1>1. y \in Nat /\ m \in 0 .. 11 /\ l \in 0 .. 1 /\ k + 1 \in Nat
    BY DEF LeapIn
  <1>2. /\ s \in Nat /\ DaysBefore(m, l, s - NewYear(y))
        /\ t \in Nat /\ DaysBefore((k + 1) % 12, LeapIn(k + 1), t - NewYear((k + 1) \div 12))
    BY <1>1, MonthOfYear
  <1>3. NewYear(y) \in Nat /\ NewYear(y + 1) = NewYear(y) + 365 + l
    BY <1>1, YearLength DEF LeapIn
  <1>4. MonthLength(k) = t - s
    BY DEF MonthLength
  <1>5. CASE m = 11
    <2>1. (k + 1) \div 12 = y + 1 /\ (k + 1) % 12 = 0
      BY <1>5
    <2> HIDE DEF y, m, l, s, t
    <2>2. DaysBefore(0, LeapIn(k + 1), t - NewYear(y + 1)) /\ DaysBefore(11, l, s - NewYear(y))
      BY <1>2, <1>5, <2>1
    <2>3. t - NewYear(y + 1) = 0 /\ s - NewYear(y) = 334 + l
      BY <2>2 DEF DaysBefore
    <2>4. t - s = 31
      BY <1>1, <1>2, <1>3, <2>3
    <2> QED
      BY <1>2, <1>4, <2>4 DEF s, t
  <1>6. CASE m # 11
    <2>1. (k + 1) \div 12 = y /\ (k + 1) % 12 = m + 1
      BY <1>6
    <2>2. LeapIn(k + 1) = l
      BY <2>1 DEF LeapIn
    <2>3. m \in 0 .. 10
      BY <1>1, <1>6
    <2> HIDE DEF y, m, l, s, t
    <2>4. s - NewYear(y) \in Int /\ t - NewYear(y) \in Int
      BY <1>2, <1>3
    <2>5. (t - NewYear(y)) - (s - NewYear(y)) \in 28 .. 31
      BY <1>1, <1>2, <2>1, <2>2, <2>3, <2>4, DaysOfMonth
    <2>6. t - s \in 28 .. 31
      BY <1>2, <1>3, <2>5
    <2> QED
      BY <1>2, <1>4, <2>6 DEF s, t
  <1> QED
    BY <1>5, <1>6

\* a month begins in its year and the next one no later than the next year
LEMMA MonthInYear ==
  ASSUME NEW k \in Nat
  PROVE  /\ NewYear(k \div 12) <= MonthStart(k)
         /\ MonthStart(k) + MonthLength(k) <= NewYear(k \div 12 + 1)
  <1> DEFINE y == k \div 12
             m == k % 12
             l == LeapIn(k)
  <1>1. y \in Nat /\ m \in 0 .. 11 /\ l \in 0 .. 1 /\ k + 1 \in Nat
    BY DEF LeapIn
  <1>2. NewYear(y) \in Nat /\ NewYear(y + 1) = NewYear(y) + 365 + l
    BY <1>1, YearLength DEF LeapIn
  <1>3. MonthStart(k) \in Nat /\ DaysBefore(m, l, MonthStart(k) - NewYear(y))
    BY MonthOfYear
  <1>4. MonthStart(k + 1) \in Nat /\ MonthStart(k + 1) = MonthStart(k) + MonthLength(k)
    BY <1>1, Months
  <1>5. \A q \in 0 .. 11, s \in Int : DaysBefore(q, l, s) => 0 <= s /\ s <= 335
    BY <1>1 DEF DaysBefore
  <1>6. DaysBefore((k + 1) % 12, LeapIn(k + 1), MonthStart(k + 1) - NewYear((k + 1) \div 12))
    BY <1>1, MonthOfYear
  <1>7. IF m = 11 THEN (k + 1) \div 12 = y + 1 /\ (k + 1) % 12 = 0
                  ELSE (k + 1) \div 12 = y /\ (k + 1) % 12 = m + 1
    OBVIOUS
  <1>8. m # 11 => LeapIn(k + 1) = l
    BY <1>7 DEF LeapIn
  <1> HIDE DEF y, m, l
  <1>9. NewYear(y) <= MonthStart(k)
    <2>1. MonthStart(k) - NewYear(y) \in Int
      BY <1>2, <1>3
    <2> QED
      BY <1>1, <1>2, <1>3, <1>5, <2>1
  <1>10. MonthStart(k + 1) <= NewYear(y + 1)
    <2>1. CASE m = 11
      <3>1. DaysBefore(0, LeapIn(k + 1), MonthStart(k + 1) - NewYear(y + 1))
        BY <1>6, <1>7, <2>1
      <3>2. MonthStart(k + 1) - NewYear(y + 1) = 0 /\ NewYear(y + 1) \in Nat
        BY <1>1, <1>2, <3>1 DEF DaysBefore
      <3> QED
        BY <1>4, <3>2
    <2>2. CASE m # 11
      <3>1. DaysBefore(m + 1, l, MonthStart(k + 1) - NewYear(y)) /\ m + 1 \in 0 .. 11
        BY <1>1, <1>6, <1>7, <1>8, <2>2
      <3>2. MonthStart(k + 1) - NewYear(y) \in Int
        BY <1>2, <1>4
      <3>3. MonthStart(k + 1) - NewYear(y) <= 335
        BY <1>5, <3>1, <3>2
      <3> QED
        BY <1>1, <1>2, <1>4, <3>3
    <2> QED
      BY <2>1, <2>2
  <1> QED
    BY <1>4, <1>9, <1>10 DEF y

\* months do not overlap
LEMMA MonthsFollow ==
  ASSUME NEW k \in Nat, NEW j \in Nat, k < j
  PROVE  MonthStart(k) + MonthLength(k) <= MonthStart(j)
  <1> DEFINE y == k \div 12
             z == j \div 12
  <1>1. y \in Nat /\ z \in Nat /\ y <= z /\ y + 1 \in Nat
    OBVIOUS
  <1>2. /\ NewYear(y) \in Nat /\ NewYear(y + 1) \in Nat /\ NewYear(z) \in Nat
        /\ y + 1 <= z => NewYear(y + 1) <= NewYear(z)
    <2> HIDE DEF y, z
    <2>1. NewYear(y) \in Nat /\ NewYear(y + 1) \in Nat /\ NewYear(z) \in Nat
      BY <1>1, YearLength
    <2>2. ASSUME y + 1 <= z PROVE NewYear(y + 1) <= NewYear(z)
      BY <1>1, <2>2, YearsFollow
    <2> QED
      BY <2>1, <2>2
  <1>3. /\ MonthStart(k) \in Nat /\ MonthStart(j) \in Nat /\ MonthLength(k) \in 28 .. 31
        /\ MonthStart(k + 1) = MonthStart(k) + MonthLength(k)
    BY Months
  <1>4. CASE y < z
    <2>1. /\ MonthStart(k) + MonthLength(k) <= NewYear(y + 1) /\ NewYear(z) <= MonthStart(j)
      BY MonthInYear
    <2> HIDE DEF y, z
    <2> QED
      BY <1>1, <1>2, <1>3, <1>4, <2>1
  <1>5. CASE y = z
    <2> DEFINE m == (k + 1) % 12
               n == j % 12
               l == LeapIn(k)
    <2>1. (k + 1) \div 12 = y /\ m \in 0 .. 11 /\ n \in 0 .. 11 /\ m <= n /\ l \in 0 .. 1
      BY <1>5 DEF LeapIn
    <2>2. LeapIn(k + 1) = l /\ LeapIn(j) = l
      BY <1>5, <2>1 DEF LeapIn
    <2>3. /\ DaysBefore(m, l, MonthStart(k + 1) - NewYear(y))
          /\ DaysBefore(n, l, MonthStart(j) - NewYear(y))
      BY <1>5, <2>1, <2>2, k + 1 \in Nat, MonthOfYear
    <2>4. \A s, t \in Int : DaysBefore(m, l, s) /\ DaysBefore(n, l, t) => s <= t
      <3> HIDE DEF m, n, l
      <3> QED
        BY <2>1 DEF DaysBefore
    <2> HIDE DEF m, n, l, y, z
    <2>5. MonthStart(k + 1) - NewYear(y) \in Int /\ MonthStart(j) - NewYear(y) \in Int
      BY <1>2, <1>3
    <2>6. MonthStart(k + 1) - NewYear(y) <= MonthStart(j) - NewYear(y)
      BY <2>3, <2>4, <2>5
    <2> QED
      BY <1>2, <1>3, <2>6
  <1> QED
    BY <1>1, <1>4, <1>5

Days(k) == MonthStart(k) .. MonthStart(k) + MonthLength(k) - 1

\* a day is of the month it lies in, at its place there
LEMMA DayInMonth ==
  ASSUME NEW k \in FirstMonth .. LastMonth, NEW d \in Days(k)
  PROVE  MonthOf(d) = k /\ DayOfMonth(d) = d - MonthStart(k) + 1 /\ d \in Nat
  <1>1. /\ k \in Nat /\ MonthStart(k) \in Nat /\ MonthLength(k) \in 28 .. 31
        /\ MonthStart(k + 1) = MonthStart(k) + MonthLength(k)
    BY CalendarAssumption, Months
  <1>2. d \in Nat /\ MonthStart(k) <= d /\ d < MonthStart(k + 1)
    BY <1>1 DEF Days
  <1>3. ASSUME NEW j \in FirstMonth .. LastMonth, MonthStart(j) <= d, d < MonthStart(j + 1)
        PROVE  j = k
    <2>1. /\ j \in Nat /\ MonthStart(j) \in Nat /\ MonthLength(j) \in 28 .. 31
          /\ MonthStart(j + 1) = MonthStart(j) + MonthLength(j)
      BY CalendarAssumption, Months
    <2>2. ~(j < k) /\ ~(k < j)
      BY <1>1, <1>2, <1>3, <2>1, MonthsFollow
    <2> QED
      BY <1>1, <2>1, <2>2
  <1>4. MonthOf(d) = k
    BY <1>2, <1>3 DEF MonthOf
  <1> QED
    BY <1>2, <1>4 DEF DayOfMonth

-----------------------------------------------------------------------------
(* The dates of a recurrence *)

\* the fields of an RRULE
LEMMA RRuleFields ==
  ASSUME NEW f, NEW i, NEW D, NEW n, NEW count
  PROVE  LET r == RRule(f, i, D, n, count)
         IN /\ r.freq = f /\ r.interval = i /\ r.byday = D /\ r.nth = n
  BY DEF RRule

\* how many dates are made
LEMMA Totals ==
  ASSUME NEW kind \in {"daily", "weekly", "biweekly", "monthly"}, NEW count \in Nat
  PROVE  ResolveLimit(Periodic(kind), count) \in Nat \ {0}
  <1>1. Periodic(kind).kind = kind
    BY DEF Periodic
  <1>2. DefaultLimit(kind) \in Nat \ {0}
    BY DEF DefaultLimit
  <1> QED
    BY <1>1, <1>2 DEF ResolveLimit

\* dates a fixed number of days apart, and what they are: the days that lie a
\* multiple of it after the first.  The provers divide by numbers they are given,
\* so there is a lemma for each of the three distances.
Steady(dates, n, start, p) == \A i \in 1 .. n : dates[i] = start + (i - 1) * p
Multiples(dates, n, start, p) ==
  /\ dates[1] = start
  /\ \A i, j \in 1 .. n : i < j => dates[i] < dates[j]
  /\ \A d \in start .. dates[n] : (d - start) % p = 0 <=> \E i \in 1 .. n : dates[i] = d

LEMMA Every1 ==
  ASSUME NEW start \in Nat, NEW n \in Nat \ {0}, NEW dates,
         Steady(dates, n, start, 1)
  PROVE  Multiples(dates, n, start, 1)
  <1>1. dates[1] = start /\ dates[n] = start + (n - 1) * 1 /\ dates[n] \in Nat
    BY 1 \in 1 .. n, n \in 1 .. n DEF Steady
  <1>2. ASSUME NEW i \in 1 .. n, NEW j \in 1 .. n, i < j PROVE dates[i] < dates[j]
    <2>1. dates[i] = start + (i - 1) * 1 /\ dates[j] = start + (j - 1) * 1
      BY DEF Steady
    <2> QED
      BY <1>2, <2>1
  <1>3. ASSUME NEW d \in start .. dates[n], (d - start) % 1 = 0 PROVE \E i \in 1 .. n : dates[i] = d
    <2> DEFINE i == ((d - start) \div 1) + 1
    <2>1. i \in 1 .. n /\ d = start + (i - 1) * 1
      BY <1>1, <1>3
    <2> HIDE DEF i
    <2> QED
      BY <2>1 DEF Steady
  <1>4. ASSUME NEW d \in start .. dates[n], NEW i \in 1 .. n, dates[i] = d PROVE (d - start) % 1 = 0
    <2>1. d = start + (i - 1) * 1
      BY <1>4 DEF Steady
    <2> QED
      BY <2>1
  <1>5. \A d \in start .. dates[n] : (d - start) % 1 = 0 <=> \E i \in 1 .. n : dates[i] = d
    BY <1>3, <1>4
  <1> QED
    BY <1>1, <1>2, <1>5 DEF Multiples

LEMMA Every7 ==
  ASSUME NEW start \in Nat, NEW n \in Nat \ {0}, NEW dates,
         Steady(dates, n, start, 7)
  PROVE  Multiples(dates, n, start, 7)
  <1>1. dates[1] = start /\ dates[n] = start + (n - 1) * 7 /\ dates[n] \in Nat
    BY 1 \in 1 .. n, n \in 1 .. n DEF Steady
  <1>2. ASSUME NEW i \in 1 .. n, NEW j \in 1 .. n, i < j PROVE dates[i] < dates[j]
    <2>1. dates[i] = start + (i - 1) * 7 /\ dates[j] = start + (j - 1) * 7
      BY DEF Steady
    <2> QED
      BY <1>2, <2>1
  <1>3. ASSUME NEW d \in start .. dates[n], (d - start) % 7 = 0 PROVE \E i \in 1 .. n : dates[i] = d
    <2> DEFINE i == ((d - start) \div 7) + 1
    <2>1. i \in 1 .. n /\ d = start + (i - 1) * 7
      BY <1>1, <1>3
    <2> HIDE DEF i
    <2> QED
      BY <2>1 DEF Steady
  <1>4. ASSUME NEW d \in start .. dates[n], NEW i \in 1 .. n, dates[i] = d PROVE (d - start) % 7 = 0
    <2>1. d = start + (i - 1) * 7
      BY <1>4 DEF Steady
    <2> QED
      BY <2>1
  <1>5. \A d \in start .. dates[n] : (d - start) % 7 = 0 <=> \E i \in 1 .. n : dates[i] = d
    BY <1>3, <1>4
  <1> QED
    BY <1>1, <1>2, <1>5 DEF Multiples

LEMMA Every14 ==
  ASSUME NEW start \in Nat, NEW n \in Nat \ {0}, NEW dates,
         Steady(dates, n, start, 14)
  PROVE  Multiples(dates, n, start, 14)
  <1>1. dates[1] = start /\ dates[n] = start + (n - 1) * 14 /\ dates[n] \in Nat
    BY 1 \in 1 .. n, n \in 1 .. n DEF Steady
  <1>2. ASSUME NEW i \in 1 .. n, NEW j \in 1 .. n, i < j PROVE dates[i] < dates[j]
    <2>1. dates[i] = start + (i - 1) * 14 /\ dates[j] = start + (j - 1) * 14
      BY DEF Steady
    <2> QED
      BY <1>2, <2>1
  <1>3. ASSUME NEW d \in start .. dates[n], (d - start) % 14 = 0 PROVE \E i \in 1 .. n : dates[i] = d
    <2> DEFINE i == ((d - start) \div 14) + 1
    <2>1. i \in 1 .. n /\ d = start + (i - 1) * 14
      BY <1>1, <1>3
    <2> HIDE DEF i
    <2> QED
      BY <2>1 DEF Steady
  <1>4. ASSUME NEW d \in start .. dates[n], NEW i \in 1 .. n, dates[i] = d PROVE (d - start) % 14 = 0
    <2>1. d = start + (i - 1) * 14
      BY <1>4 DEF Steady
    <2> QED
      BY <2>1
  <1>5. \A d \in start .. dates[n] : (d - start) % 14 = 0 <=> \E i \in 1 .. n : dates[i] = d
    BY <1>3, <1>4
  <1> QED
    BY <1>1, <1>2, <1>5 DEF Multiples

\* A daily, weekly or biweekly recurrence of any first day and count is dated on
\* every day of the RRULE readers are told, up to its last date, and no other.
THEOREM Periodic_Dates ==
  ASSUME NEW start \in Nat, NEW kind \in {"daily", "weekly", "biweekly"}, NEW count \in Nat
  PROVE  LET rule  == Periodic(kind)
             n     == ResolveLimit(rule, count)
             dates == GenerateInstanceDates(start, rule, count)
         IN /\ dates[1] = start
            /\ \A i, j \in 1 .. n : i < j => dates[i] < dates[j]
            /\ \A d \in start .. dates[n] :
                 On(d, ToRRule(rule, count), start) <=> \E i \in 1 .. n : dates[i] = d
  <1> DEFINE rule  == Periodic(kind)
             n     == ResolveLimit(rule, count)
             dates == GenerateInstanceDates(start, rule, count)
             r     == ToRRule(rule, count)
  <1>1. rule.kind = kind
    BY DEF Periodic
  <1>2. n \in Nat \ {0}
    BY Totals
  <1>3. CASE kind = "daily"
    <2>1. Steady(dates, n, start, 1)
      BY <1>1, <1>2, <1>3 DEF GenerateInstanceDates, Steady
    <2>2. r.freq = "DAILY" /\ r.interval = 1
      BY <1>3, Told, RRuleFields
    <2> HIDE DEF rule, n, dates, r
    <2>3. \A d : On(d, r, start) <=> (d - start) % 1 = 0
      BY <2>2 DEF On
    <2>4. Multiples(dates, n, start, 1)
      BY <1>2, <2>1, Every1
    <2>5. \A d \in start .. dates[n] : On(d, r, start) <=> \E i \in 1 .. n : dates[i] = d
      BY <2>3, <2>4 DEF Multiples
    <2> QED
      BY <2>4, <2>5 DEF Multiples, rule, n, dates, r
  <1>4. CASE kind = "weekly"
    <2>1. Steady(dates, n, start, 7)
      BY <1>1, <1>2, <1>4 DEF GenerateInstanceDates, Steady
    <2>2. r.freq = "WEEKLY" /\ r.interval = 1 /\ r.byday = {}
      BY <1>4, Told, RRuleFields
    <2> HIDE DEF rule, n, dates, r
    <2>3. \A d : On(d, r, start) <=> (d - start) % 7 = 0
      BY <2>2 DEF On
    <2>4. Multiples(dates, n, start, 7)
      BY <1>2, <2>1, Every7
    <2>5. \A d \in start .. dates[n] : On(d, r, start) <=> \E i \in 1 .. n : dates[i] = d
      BY <2>3, <2>4 DEF Multiples
    <2> QED
      BY <2>4, <2>5 DEF Multiples, rule, n, dates, r
  <1>5. CASE kind = "biweekly"
    <2>1. Steady(dates, n, start, 14)
      BY <1>1, <1>2, <1>5 DEF GenerateInstanceDates, Steady
    <2>2. r.freq = "WEEKLY" /\ r.interval = 2 /\ r.byday = {}
      BY <1>5, Told, RRuleFields
    <2> HIDE DEF rule, n, dates, r
    <2>3. \A d : On(d, r, start) <=> (d - start) % 14 = 0
      BY <2>2 DEF On
    <2>4. Multiples(dates, n, start, 14)
      BY <1>2, <2>1, Every14
    <2>5. \A d \in start .. dates[n] : On(d, r, start) <=> \E i \in 1 .. n : dates[i] = d
      BY <2>3, <2>4 DEF Multiples
    <2> QED
      BY <2>4, <2>5 DEF Multiples, rule, n, dates, r
  <1> QED
    BY <1>3, <1>4, <1>5

\* the e-th day of a month that begins on day s is the n-th day of the week of its
\* kind there just when it is where NthWeekday looks for it
NthIs(s, e, n, day) ==
  Weekday(s + e - 1) = day /\ (e + 6) \div 7 = n
    <=> e = 1 + ((day - Weekday(s) + 7) % 7) + (n - 1) * 7

LEMMA PlaceInMonth ==
  ASSUME NEW s \in Nat, NEW day \in 0 .. 6, NEW n \in 1 .. 5, NEW e \in 1 .. 31
  PROVE  NthIs(s, e, n, day)
  <1> DEFINE w == (s + 6) % 7
             v == (s + 6) \div 7
             q == (day - w + 7) % 7
             m == (e + 6) \div 7
             p == (e + 6) % 7
  <1>1. w \in 0 .. 6 /\ v \in Nat /\ s + 6 = 7 * v + w
    OBVIOUS
  <1>2. q = IF day >= w THEN day - w ELSE day - w + 7
    BY <1>1
  <1>3. m \in 1 .. 5 /\ p \in 0 .. 6 /\ e + 6 = 7 * m + p
    OBVIOUS
  <1>4. ((s + e - 1) + 6) % 7 = IF w + p >= 7 THEN w + p - 7 ELSE w + p
    <2>1. (s + e - 1) + 6 = 7 * (v + m - 1) + (w + p)
      BY <1>1, <1>3
    <2> HIDE DEF w, v, m, p
    <2> QED
      BY <1>1, <1>3, <2>1
  <1> HIDE DEF w, v, q, m, p
  <1>5. ((s + e - 1) + 6) % 7 = day /\ m = n <=> e = 1 + q + (n - 1) * 7
    BY <1>1, <1>2, <1>3, <1>4
  <1> QED
    BY <1>5 DEF NthIs, Weekday, q, m, w

\* of month k, an ordinal recurrence begun at start has the one day that is a day
\* of its RRULE, or none where there is none
OrdinalIn(k, n, day, count, start) ==
  LET rule == Ordinal(n, day)
      date == NthWeekday(k, rule.day, rule.nth)
  IN /\ date \in Days(k) \cup {NoDay}
     /\ date = NoDay => n = 5
     /\ \A d \in Days(k) : On(d, ToRRule(rule, count), start) <=> d = date

\* An ordinal recurrence takes of every month of the calendar the one day of it
\* that the RRULE readers are told of falls on, and none of a month without one,
\* which only rules for a fifth weekday meet.
THEOREM Ordinal_Dates ==
  ASSUME NEW first \in FirstMonth .. LastMonth, NEW start \in Days(first), NEW count \in Nat,
         NEW n \in 1 .. 5, NEW day \in 0 .. 6, NEW k \in FirstMonth .. LastMonth
  PROVE  OrdinalIn(k, n, day, count, start)
  <1> DEFINE date == NthWeekday(k, day, n)
             r    == ToRRule(Ordinal(n, day), count)
             s    == MonthStart(k)
             l    == MonthLength(k)
             off  == (day - Weekday(s) + 7) % 7
             t    == 1 + off + (n - 1) * 7
  <1>1. s \in Nat /\ l \in 28 .. 31
    BY CalendarAssumption, Months
  <1>2. Ordinal(n, day).day = day /\ Ordinal(n, day).nth = n
    BY DEF Ordinal
  <1>3. date = IF t > l THEN NoDay ELSE s + t - 1
    BY DEF NthWeekday
  <1>4. off \in 0 .. 6
    <2>1. Weekday(s) \in 0 .. 6
      BY <1>1 DEF Weekday
    <2> QED
      BY <2>1
  <1>5. t \in Nat /\ t >= 1 /\ (n # 5 => t <= 28)
    BY <1>4
  <1>6. ASSUME NEW d \in Days(k) PROVE On(d, r, start) <=> d = date
    <2> DEFINE e == d - s + 1
    <2>1. e \in 1 .. 31 /\ e <= l /\ d = s + e - 1 /\ d \in Nat
      BY <1>1 DEF Days
    <2>2. MonthOf(d) = k /\ MonthOf(start) = first /\ DayOfMonth(d) = e
      BY DayInMonth
    <2>3. r.freq = "MONTHLY" /\ r.interval = 1 /\ r.byday = {day} /\ r.nth = n
      <3>1. r = RRule("MONTHLY", 1, {day}, n, count)
        BY Told
      <3> QED
        BY <3>1, RRuleFields
    <2> HIDE DEF r, e
    <2>4. On(d, r, start) <=> Weekday(d) = day /\ (e + 6) \div 7 = n
      <3>1. (MonthOf(d) - MonthOf(start)) % 1 = 0
        BY <2>2, CalendarAssumption
      <3> QED
        BY <2>2, <2>3, <3>1 DEF On
    <2>5. Weekday(d) = day /\ (e + 6) \div 7 = n <=> e = t
      <3> HIDE DEF s
      <3>1. NthIs(s, e, n, day)
        BY <1>1, <2>1, PlaceInMonth
      <3> QED
        BY <2>1, <3>1 DEF NthIs
    <2> HIDE DEF s, l, t, date
    <2>6. d = date <=> e = t
      BY <1>1, <1>3, <1>5, <2>1 DEF NoDay
    <2> QED
      BY <2>4, <2>5, <2>6
  <1>7. date \in Days(k) \cup {NoDay} /\ (date = NoDay => n = 5)
    <2> HIDE DEF off, t, date
    <2> QED
      BY <1>1, <1>3, <1>5 DEF Days, NoDay
  <1> QED
    BY <1>2, <1>6, <1>7 DEF OrdinalIn

\* the i-th date of a monthly recurrence lies in the i-th month from that of its
\* first: on the one day of its RRULE there, or on the last where there is none
MonthlyIn(i, first, count, start) ==
  LET rule == Periodic("monthly")
      k    == first + i - 1
      date == GenerateInstanceDates(start, rule, count)[i]
  IN /\ date \in Days(k)
     /\ i = 1 => date = start
     /\ IF DayOfMonth(start) <= MonthLength(k)
        THEN \A d \in Days(k) : On(d, ToRRule(rule, count), start) <=> d = date
        ELSE date = MonthStart(k) + MonthLength(k) - 1

\* A monthly recurrence that stays within the calendar has one date in each month
\* from that of its first day: the only day of it that is a day of the RRULE
\* readers are told, or, in a month that has none, the last.
THEOREM Monthly_Dates ==
  ASSUME NEW first \in FirstMonth .. LastMonth, NEW start \in Days(first), NEW count \in Nat,
         NEW i \in 1 .. ResolveLimit(Periodic("monthly"), count), first + i - 1 <= LastMonth
  PROVE  MonthlyIn(i, first, count, start)
  <1> DEFINE k     == first + i - 1
             date  == GenerateInstanceDates(start, Periodic("monthly"), count)[i]
             r     == ToRRule(Periodic("monthly"), count)
             s     == MonthStart(k)
             l     == MonthLength(k)
             place == DayOfMonth(start)
  <1>1. Periodic("monthly").kind = "monthly"
    BY DEF Periodic
  <1>2. ResolveLimit(Periodic("monthly"), count) \in Nat \ {0}
    BY Totals
  <1>3. k \in FirstMonth .. LastMonth /\ k \in Nat /\ k = first + (i - 1)
    BY <1>2, CalendarAssumption
  <1>4. MonthOf(start) = first /\ place = start - MonthStart(first) + 1
    BY DayInMonth
  <1>5. s \in Nat /\ l \in 28 .. 31
    BY <1>3, Months
  <1>6. MonthStart(first) \in Nat /\ MonthLength(first) \in 28 .. 31
    BY CalendarAssumption, Months
  <1>7. place \in 1 .. MonthLength(first) /\ place \in Nat /\ start \in Nat
    BY <1>4, <1>6 DEF Days
  <1>8. date = Clamped(start, i - 1)
    BY <1>1 DEF GenerateInstanceDates
  <1>9. date = s + (IF place < l THEN place ELSE l) - 1
    BY <1>3, <1>4, <1>8 DEF Clamped
  <1>10. r.freq = "MONTHLY" /\ r.interval = 1 /\ r.byday = {}
    BY Told, RRuleFields
  <1>11. ASSUME NEW d \in Days(k) PROVE On(d, r, start) <=> d - s + 1 = place
    <2>1. MonthOf(d) = k /\ DayOfMonth(d) = d - s + 1
      BY <1>3, DayInMonth
    <2>2. (MonthOf(d) - MonthOf(start)) % 1 = 0
      BY <1>3, <1>4, <2>1, CalendarAssumption
    <2> HIDE DEF r
    <2> QED
      BY <1>10, <2>1, <2>2 DEF On
  <1>12. i = 1 => date = start
    <2>1. i = 1 => k = first
      BY CalendarAssumption
    <2> QED
      BY <1>4, <1>6, <1>7, <1>9, <2>1
  <1> HIDE DEF k, date, r, place
  <1>13. date \in Days(k)
    BY <1>5, <1>7, <1>9 DEF Days
  <1>14. IF place <= l THEN \A d \in Days(k) : On(d, r, start) <=> d = date ELSE date = s + l - 1
    <2>1. \A d \in Days(k) : d \in Nat
      BY <1>5 DEF Days
    <2> QED
      BY <1>5, <1>7, <1>9, <1>11, <2>1
  <1> QED
    BY <1>12, <1>13, <1>14 DEF MonthlyIn, k, date, r, place

-----------------------------------------------------------------------------
(* The dates of a recurrence and the days of its RRULE *)

Rises(dates, start) ==
  /\ dates \in Seq(Int) /\ Len(dates) \in Nat \ {0} /\ dates[1] = start
  /\ \A i, j \in 1 .. Len(dates) : i < j => dates[i] < dates[j]

\* dates are all the days of R after the first and up to the last
AllOf(dates, start, R) ==
  \A d \in start + 1 .. dates[Len(dates)] : d \in R <=> \E i \in 1 .. Len(dates) : dates[i] = d

\* what follows the first date is what is kept of the days from it to the last
Follows(dates, start, R) ==
  LET after == [i \in 1 .. dates[Len(dates)] - start |-> start + i]
  IN Tail(dates) = Kept(after, {i \in DOMAIN after : after[i] \in R})

LEMMA FollowIs ==
  ASSUME NEW start \in Int, NEW dates, Rises(dates, start), NEW R, AllOf(dates, start, R)
  PROVE  Follows(dates, start, R)
  <1> DEFINE n   == Len(dates)
             end == dates[n]
  <1>0. /\ n \in Nat \ {0} /\ end \in Int /\ dates \in Seq(Int)
        /\ Len(dates) = n /\ dates[1] = start /\ dates[n] = end
        /\ \A i, j \in 1 .. n : i < j => dates[i] < dates[j]
        /\ \A d \in start + 1 .. end : d \in R <=> \E i \in 1 .. n : dates[i] = d
    BY DEF Rises, AllOf
  <1> HIDE DEF n, end
  <1> DEFINE last  == end - start
             after == [i \in 1 .. last |-> start + i]
             P     == {i \in DOMAIN after : after[i] \in R}
             m     == n - 1
             a     == [i \in 1 .. m |-> dates[i + 1] - start]
  <1>1. /\ last \in Int /\ end = start + last /\ m \in Nat /\ n = m + 1
        /\ \A i \in 1 .. n : dates[i] \in Int
    BY <1>0
  <1>2. /\ DOMAIN after = 1 .. last
        /\ \A i \in 1 .. last : after[i] = start + i
        /\ DOMAIN a = 1 .. m
        /\ \A i \in 1 .. m : a[i] = dates[i + 1] - start
    OBVIOUS
  <1>3. \A x : x \in P <=> x \in 1 .. last /\ start + x \in R
    OBVIOUS
  <1>10. Tail(dates) = [k \in 1 .. m |-> dates[k + 1]]
    <2> DEFINE t == Tail(dates)
    <2>1. dates # <<>> /\ t \in Seq(Int) /\ Len(t) = m /\ \A k \in 1 .. m : t[k] = dates[k + 1]
      BY <1>0
    <2> HIDE DEF t, m
    <2>2. t = [k \in 1 .. m |-> t[k]]
      BY <2>1
    <2>3. [k \in 1 .. m |-> t[k]] = [k \in 1 .. m |-> dates[k + 1]]
      BY <2>1
    <2> QED
      BY <2>2, <2>3 DEF t
  <1>11. Kept(after, P) = [k \in 1 .. Cardinality(P) |-> after[Nth(P, k)]]
    BY DEF Kept
  <1>12. a = [i \in 1 .. m |-> a[i]]
    OBVIOUS
  <1> HIDE DEF P, a, after, last, m
  <1>4. \A i \in 1 .. m : i \in Nat /\ i + 1 \in 1 .. n /\ 1 < i + 1 /\ dates[i + 1] \in Int /\ a[i] \in Int
    BY <1>1, <1>2
  <1>5. ASSUME NEW i \in 1 .. m, NEW j \in 1 .. m, i < j PROVE a[i] < a[j]
    <2>1. i + 1 < j + 1 /\ i + 1 \in 1 .. n /\ j + 1 \in 1 .. n
      BY <1>4, <1>5
    <2>2. dates[i + 1] < dates[j + 1]
      BY <1>0, <2>1
    <2> QED
      BY <1>2, <1>4, <2>2
  <1>6. ASSUME NEW i \in 1 .. m PROVE a[i] \in 1 .. last /\ start + a[i] = dates[i + 1]
    <2>1. 1 \in 1 .. n /\ n \in 1 .. n
      BY <1>0
    <2>2. start < dates[i + 1]
      BY <1>0, <1>4, <2>1
    <2>3. i + 1 = n \/ i + 1 < n
      BY <1>1
    <2>4. dates[i + 1] <= end
      BY <1>0, <1>4, <2>1, <2>3
    <2> DEFINE x == dates[i + 1]
    <2>5. a[i] = x - start /\ x \in Int
      BY <1>2, <1>4
    <2> HIDE DEF x
    <2>6. start < x /\ x <= end
      BY <2>2, <2>4 DEF x
    <2>7. x - start \in 1 .. last /\ start + (x - start) = x
      BY <1>1, <2>5, <2>6
    <2> QED
      BY <2>5, <2>7 DEF x
  <1>7. \A x : x \in P <=> \E i \in 1 .. m : a[i] = x
    <2>1. ASSUME NEW x \in P PROVE \E i \in 1 .. m : a[i] = x
      <3>1. x \in 1 .. last /\ start + x \in R /\ start + x \in start + 1 .. end
        BY <1>1, <1>3
      <3>2. PICK i \in 1 .. n : dates[i] = start + x
        BY <1>0, <3>1
      <3>3. i # 1
        BY <1>0, <1>1, <3>1, <3>2
      <3> DEFINE j == i - 1
      <3>4. j \in 1 .. m /\ j + 1 = i
        BY <1>1, <3>3
      <3> HIDE DEF j
      <3>5. a[j] = dates[i] - start
        BY <1>2, <3>4
      <3> QED
        BY <1>1, <3>1, <3>2, <3>4, <3>5
    <2>2. ASSUME NEW i \in 1 .. m PROVE a[i] \in P
      <3>1. a[i] \in 1 .. last /\ start + a[i] = dates[i + 1] /\ i + 1 \in 1 .. n
        BY <1>4, <1>6
      <3>2. start + a[i] \in start + 1 .. end
        BY <1>1, <3>1
      <3> QED
        BY <1>0, <1>3, <3>1, <3>2
    <2> QED
      BY <2>1, <2>2
  <1>8. a \in [1 .. m -> Int]
    BY <1>4, <1>12
  <1>9. Cardinality(P) = m /\ \A i \in 1 .. m : Nth(P, i) = a[i]
    <2>1. Ascending(a, m, P)
      BY <1>5, <1>7 DEF Ascending
    <2> QED
      BY <1>1, <1>8, <2>1, AscendingIs
  <1>13. Kept(after, P) = [k \in 1 .. m |-> after[Nth(P, k)]]
    BY <1>9, <1>11
  <1>14. \A k \in 1 .. m : after[Nth(P, k)] = dates[k + 1]
    BY <1>2, <1>6, <1>9
  <1>15. [k \in 1 .. m |-> after[Nth(P, k)]] = [k \in 1 .. m |-> dates[k + 1]]
    BY <1>14
  <1> QED
    BY <1>10, <1>13, <1>15 DEF Follows, P, after, last, end, n

\* a day of the calendar is in a month of it
LEMMA InAMonth ==
  ASSUME NEW f \in Nat, NEW l \in Nat, f <= l,
         NEW d \in MonthStart(f) .. MonthStart(l) + MonthLength(l) - 1
  PROVE  \E k \in f .. l : d \in Days(k)
  <1> DEFINE P == {k \in f .. l : d < MonthStart(k + 1)}
  <1>0. \A k \in Nat : MonthStart(k) \in Nat /\ MonthStart(k + 1) = MonthStart(k) + MonthLength(k)
                       /\ MonthLength(k) \in 28 .. 31
    BY Months
  <1>1. d \in Nat
    BY <1>0
  <1>2. P \in SUBSET Int /\ IsFiniteSet(P)
    <2>1. IsFiniteSet(f .. l)
      BY FS_Interval
    <2>2. P \in SUBSET (f .. l)
      OBVIOUS
    <2>3. P \in SUBSET Int
      BY <2>2
    <2> HIDE DEF P
    <2> QED
      BY <2>1, <2>2, <2>3, FS_Subset
  <1>3. l \in P
    BY <1>0, <1>1
  <1> HIDE DEF P
  <1>4. PICK k \in P : \A j \in P : k <= j
    BY <1>2, <1>3, Least
  <1>5. k \in f .. l /\ d < MonthStart(k + 1) /\ k \in Nat
    BY DEF P
  <1>6. MonthStart(k) <= d
    <2>1. CASE k = f
      BY <1>0, <1>1, <2>1
    <2>2. CASE k # f
      <3> DEFINE j == k - 1
      <3>1. j \in f .. l /\ j + 1 = k /\ ~(k <= j)
        BY <1>5, <2>2
      <3>2. j \notin P
        BY <1>4, <3>1
      <3> HIDE DEF j
      <3>3. ~(d < MonthStart(k))
        BY <3>1, <3>2 DEF P
      <3> QED
        BY <1>0, <1>1, <1>5, <3>3
    <2> QED
      BY <2>1, <2>2
  <1>7. d \in Days(k)
    BY <1>0, <1>1, <1>5, <1>6 DEF Days
  <1> QED
    BY <1>5, <1>7

\* a day after the first that readers are told of
OfRule(d, rule, count, start) ==
  /\ On(d, ToRRule(rule, count), start)
  /\ rule.kind = "ordinal_weekday" => MonthOf(d) # MonthOf(start)

Complete(dates, rule, count, start) ==
  \A d \in start + 1 .. dates[Len(dates)] :
    OfRule(d, rule, count, start) <=> \E i \in 1 .. Len(dates) : dates[i] = d

FollowsRule(dates, rule, count, start) ==
  LET after == [i \in 1 .. dates[Len(dates)] - start |-> start + i]
  IN Tail(dates) =
       Kept(after, {i \in DOMAIN after :
                      /\ On(after[i], ToRRule(rule, count), start)
                      /\ rule.kind = "ordinal_weekday" => MonthOf(after[i]) # MonthOf(start)})

LEMMA Followed ==
  ASSUME NEW start \in Nat, NEW rule, NEW count, NEW dates,
         Rises(dates, start), Complete(dates, rule, count, start)
  PROVE  FollowsRule(dates, rule, count, start)
  <1> DEFINE n     == Len(dates)
             end   == dates[n]
             R     == {d \in start + 1 .. end : OfRule(d, rule, count, start)}
             after == [i \in 1 .. end - start |-> start + i]
             P     == {i \in DOMAIN after : after[i] \in R}
  <1>2. end \in Int
    BY DEF Rises
  <1>3. AllOf(dates, start, R)
    BY DEF AllOf, Complete
  <1>4. \A i \in DOMAIN after : i \in 1 .. end - start /\ after[i] = start + i /\ after[i] \in start + 1 .. end
    BY <1>2
  <1>5. P = {i \in DOMAIN after : OfRule(after[i], rule, count, start)}
    <2>1. \A i \in DOMAIN after : after[i] \in R <=> OfRule(after[i], rule, count, start)
      BY <1>4
    <2> HIDE DEF after, R
    <2> QED
      BY <2>1
  <1> HIDE DEF R
  <1>6. Tail(dates) = Kept(after, P)
    <2>1. start \in Int
      OBVIOUS
    <2>2. Follows(dates, start, R)
      BY <1>3, <2>1, FollowIs
    <2> QED
      BY <2>2 DEF Follows
  <1> QED
    BY <1>5, <1>6 DEF OfRule, FollowsRule

\* days in their order, all after a first one
Later(K, start) ==
  /\ \A k \in 1 .. Len(K) : start < K[k]
  /\ \A j, k \in 1 .. Len(K) : j < k => K[j] < K[k]

\* dates are a first one and those of K
Heads(dates, K, start) ==
  /\ Rises(dates, start) /\ Len(dates) = Len(K) + 1
  /\ dates[Len(dates)] = IF Len(K) = 0 THEN start ELSE K[Len(K)]
  /\ \A d : start < d => ((\E i \in 1 .. Len(dates) : dates[i] = d)
                            <=> \E k \in 1 .. Len(K) : K[k] = d)

LEMMA Headed ==
  ASSUME NEW start \in Int, NEW K \in Seq(Int), Later(K, start)
  PROVE  Heads(<<start>> \o K, K, start)
  <1> DEFINE dates == <<start>> \o K
             c     == Len(K)
  <1>0. /\ \A k \in 1 .. c : start < K[k]
        /\ \A j, k \in 1 .. c : j < k => K[j] < K[k]
    BY DEF Later
  <1>1. /\ c \in Nat /\ dates \in Seq(Int) /\ Len(dates) = c + 1
        /\ dates[1] = start
        /\ \A i \in 1 .. c + 1 : i # 1 => dates[i] = K[i - 1]
    OBVIOUS
  <1>2. \A k \in 1 .. c : K[k] \in Int
    OBVIOUS
  <1> HIDE DEF dates, c
  <1>3. /\ \A k \in 1 .. c : k \in Nat /\ k + 1 \in 1 .. c + 1 /\ k + 1 # 1 /\ (k + 1) - 1 = k
        /\ \A i \in 1 .. c + 1 : i \in Nat /\ (i # 1 => i - 1 \in 1 .. c)
    BY <1>1
  <1>4. ASSUME NEW i \in 1 .. c + 1, NEW j \in 1 .. c + 1, i < j PROVE dates[i] < dates[j]
    <2>1. j # 1 /\ j - 1 \in 1 .. c /\ dates[j] = K[j - 1]
      BY <1>1, <1>3, <1>4
    <2>2. CASE i = 1
      BY <1>0, <1>1, <2>1, <2>2
    <2>3. CASE i # 1
      <3>1. i - 1 \in 1 .. c /\ dates[i] = K[i - 1] /\ i - 1 < j - 1
        BY <1>1, <1>3, <1>4, <2>3
      <3> QED
        BY <1>0, <2>1, <3>1
    <2> QED
      BY <2>2, <2>3
  <1>5. Rises(dates, start)
    BY <1>1, <1>4 DEF Rises
  <1>6. dates[Len(dates)] = IF c = 0 THEN start ELSE K[c]
    <2>1. c # 0 => c + 1 \in 1 .. c + 1 /\ c + 1 # 1 /\ (c + 1) - 1 = c
      BY <1>1
    <2> QED
      BY <1>1, <2>1
  <1>7. ASSUME NEW d, start < d PROVE (\E i \in 1 .. c + 1 : dates[i] = d) <=> \E k \in 1 .. c : K[k] = d
    <2>1. ASSUME NEW i \in 1 .. c + 1, dates[i] = d PROVE \E k \in 1 .. c : K[k] = d
      <3>1. i # 1
        BY <1>1, <1>7, <2>1
      <3> QED
        BY <1>1, <1>3, <2>1, <3>1
    <2>2. ASSUME NEW k \in 1 .. c, K[k] = d PROVE \E i \in 1 .. c + 1 : dates[i] = d
      <3>1. dates[k + 1] = K[k]
        BY <1>1, <1>3
      <3> QED
        BY <1>3, <2>2, <3>1
    <2> QED
      BY <2>1, <2>2
  <1> QED
    BY <1>1, <1>5, <1>6, <1>7 DEF Heads, dates, c

-----------------------------------------------------------------------------
LEMMA PeriodicFollow ==
  ASSUME NEW start \in Nat, NEW kind \in {"daily", "weekly", "biweekly"}, NEW count \in Nat
  PROVE  LET rule  == Periodic(kind)
             dates == GenerateInstanceDates(start, rule, count)
         IN /\ Len(dates) = ResolveLimit(rule, count)
            /\ Rises(dates, start) /\ Complete(dates, rule, count, start)
  <1> DEFINE rule  == Periodic(kind)
             n     == ResolveLimit(rule, count)
             dates == GenerateInstanceDates(start, rule, count)
  <1>1. rule.kind = kind /\ n \in Nat \ {0}
    BY Totals DEF Periodic
  <1>2. dates \in Seq(Int) /\ Len(dates) = n
    <2>1. PICK p \in {1, 7, 14} : dates = [i \in 1 .. n |-> start + (i - 1) * p]
      BY <1>1 DEF GenerateInstanceDates
    <2> HIDE DEF dates, n
    <2>2. \A i \in 1 .. n : start + (i - 1) * p \in Int
      BY <1>1
    <2> QED
      BY <1>1, <2>1, <2>2
  <1>3. /\ dates[1] = start
        /\ \A i, j \in 1 .. n : i < j => dates[i] < dates[j]
        /\ \A d \in start .. dates[n] :
             On(d, ToRRule(rule, count), start) <=> \E i \in 1 .. n : dates[i] = d
    <2>1. dates[1] = start
      BY Periodic_Dates
    <2>2. \A i, j \in 1 .. n : i < j => dates[i] < dates[j]
      BY Periodic_Dates
    <2>3. \A d \in start .. dates[n] :
             On(d, ToRRule(rule, count), start) <=> \E i \in 1 .. n : dates[i] = d
      BY Periodic_Dates
    <2> QED
      BY <2>1, <2>2, <2>3
  <1> HIDE DEF dates, n, rule
  <1>4. Rises(dates, start)
    BY <1>1, <1>2, <1>3 DEF Rises
  <1>5. Complete(dates, rule, count, start)
    <2>1. \A d \in start + 1 .. dates[n] : d \in start .. dates[n]
      BY <1>1, <1>2
    <2>2. \A d : OfRule(d, rule, count, start) <=> On(d, ToRRule(rule, count), start)
      BY <1>1 DEF OfRule
    <2> QED
      BY <1>2, <1>3, <2>1, <2>2 DEF Complete
  <1> QED
    BY <1>2, <1>4, <1>5 DEF dates, n, rule

\* days of a month come before those of a later one
LEMMA DayOrder ==
  ASSUME NEW k \in Nat, NEW j \in Nat, k < j, NEW d \in Days(k), NEW e \in Days(j)
  PROVE  d < e /\ d \in Nat /\ e \in Nat
  <1>1. /\ MonthStart(k) \in Nat /\ MonthLength(k) \in 28 .. 31
        /\ MonthStart(j) \in Nat /\ MonthLength(j) \in 28 .. 31
    BY Months
  <1>2. MonthStart(k) + MonthLength(k) <= MonthStart(j)
    BY MonthsFollow
  <1>3. d \in Nat /\ e \in Nat /\ d < MonthStart(k) + MonthLength(k) /\ MonthStart(j) <= e
    BY <1>1 DEF Days
  <1> QED
    BY <1>1, <1>2, <1>3

\* a day of the calendar between two months of it is in one of them
LEMMA InMonths ==
  ASSUME NEW f \in Nat, NEW l \in Nat, f <= l, NEW start \in Days(f), NEW end \in Days(l),
         NEW d \in start .. end
  PROVE  \E k \in f .. l : d \in Days(k)
  <1>1. /\ MonthStart(f) \in Nat /\ MonthLength(f) \in 28 .. 31
        /\ MonthStart(l) \in Nat /\ MonthLength(l) \in 28 .. 31
    BY Months
  <1>2. start \in Nat /\ MonthStart(f) <= start /\ end \in Nat /\ end <= MonthStart(l) + MonthLength(l) - 1
    BY <1>1 DEF Days
  <1>3. d \in MonthStart(f) .. MonthStart(l) + MonthLength(l) - 1
    BY <1>1, <1>2
  <1> QED
    BY <1>3, InAMonth

LEMMA OrdinalTotal ==
  ASSUME NEW n, NEW day, NEW count \in Nat
  PROVE  /\ ResolveLimit(Ordinal(n, day), count) = IF count > 0 THEN count ELSE 2
         /\ Ordinal(n, day).kind = "ordinal_weekday" /\ Ordinal(n, day).day = day /\ Ordinal(n, day).nth = n
  BY DEF Ordinal, ResolveLimit, DefaultLimit

LEMMA OrdinalFollow ==
  ASSUME NEW first \in FirstMonth .. LastMonth, NEW start \in Days(first), NEW count \in Nat,
         NEW nth \in 1 .. 5, NEW day \in 0 .. 6,
         first + ResolveLimit(Ordinal(nth, day), count) - 1 <= LastMonth
  PROVE  LET rule  == Ordinal(nth, day)
             total == ResolveLimit(rule, count)
             dates == GenerateInstanceDates(start, rule, count)
         IN /\ Len(dates) <= total /\ (nth # 5 => Len(dates) = total)
            /\ Rises(dates, start) /\ Complete(dates, rule, count, start)
  <1> DEFINE rule  == Ordinal(nth, day)
             total == ResolveLimit(rule, count)
             dates == GenerateInstanceDates(start, rule, count)
             r     == ToRRule(rule, count)
             m     == total - 1
             found == [i \in 1 .. m |-> NthWeekday(first + i, day, nth)]
             P     == {i \in 1 .. m : found[i] # NoDay}
             K     == Kept(found, P)
             c     == Cardinality(P)
  <1>1. /\ total \in Nat \ {0} /\ m \in Nat /\ total = m + 1
        /\ rule.kind = "ordinal_weekday" /\ rule.day = day /\ rule.nth = nth
    BY OrdinalTotal
  <1>2. first \in Nat /\ FirstMonth \in Nat /\ LastMonth \in Nat /\ first + m <= LastMonth /\ start \in Nat
        /\ MonthOf(start) = first
    <2>1. first \in Nat /\ FirstMonth \in Nat /\ LastMonth \in Nat
      BY CalendarAssumption
    <2>2. start \in Nat /\ MonthOf(start) = first
      BY DayInMonth
    <2>3. first + m <= LastMonth
      BY <1>1, <2>1
    <2> QED
      BY <2>1, <2>2, <2>3
  <1>3. dates = <<start>> \o K
    <2>1. DOMAIN found = 1 .. m
      OBVIOUS
    <2> QED
      BY <1>1, <1>2, <2>1 DEF GenerateInstanceDates
  <1>4. ASSUME NEW i \in 1 .. m
        PROVE  /\ first + i \in FirstMonth .. LastMonth /\ first + i \in Nat /\ i \in Nat
               /\ found[i] \in Days(first + i) \cup {NoDay} /\ found[i] \in Int
               /\ found[i] = NoDay => nth = 5
               /\ \A d \in Days(first + i) : On(d, r, start) <=> d = found[i]
    <2>1. first + i \in FirstMonth .. LastMonth /\ first + i \in Nat /\ i \in Nat
      BY <1>1, <1>2
    <2> DEFINE k == first + i
    <2>2. found[i] = NthWeekday(k, rule.day, rule.nth)
      BY <1>1
    <2> HIDE DEF k, found
    <2>3. k \in FirstMonth .. LastMonth
      BY <2>1 DEF k
    <2>4. /\ found[i] \in Days(k) \cup {NoDay}
          /\ found[i] = NoDay => nth = 5
          /\ \A d \in Days(k) : On(d, r, start) <=> d = found[i]
      <3>1. OrdinalIn(k, nth, day, count, start)
        BY <2>3, Ordinal_Dates
      <3> QED
        BY <2>2, <3>1 DEF OrdinalIn
    <2>5. found[i] \in Int
      <3>1. \A d \in Days(k) : d \in Nat
        BY <2>3, DayInMonth
      <3> QED
        BY <2>4, <3>1 DEF NoDay
    <2> QED
      BY <2>1, <2>4, <2>5 DEF k
  <1>5. found \in Seq(Int) /\ Len(found) = m
    <2>1. found \in [1 .. m -> Int]
      BY <1>4
    <2> HIDE DEF found
    <2> QED
      BY <1>1, <2>1
  <1> HIDE DEF found, dates, m, r
  <1>6. /\ c \in 0 .. m /\ K \in Seq(Int) /\ Len(K) = c
        /\ \A k \in 1 .. c : Nth(P, k) \in P /\ K[k] = found[Nth(P, k)]
        /\ \A j, k \in 1 .. c : j < k => Nth(P, j) < Nth(P, k)
        /\ \A i \in P : \E k \in 1 .. c : Nth(P, k) = i
    <2>1. P \in SUBSET (1 .. Len(found))
      BY <1>5
    <2> HIDE DEF P
    <2> QED
      BY <1>5, <2>1, KeptIs
  <1>7. nth # 5 => c = m
    <2> SUFFICES ASSUME nth # 5 PROVE c = m
      OBVIOUS
    <2>1. P = 1 .. m
      BY <1>4
    <2>2. Cardinality(1 .. m) = m
      BY <1>1, FS_Interval
    <2> QED
      BY <2>1, <2>2
  <1>8. \A i : i \in P <=> i \in 1 .. m /\ found[i] # NoDay
    OBVIOUS
  <1> HIDE DEF P, K, c
  <1>9. ASSUME NEW k \in 1 .. c
        PROVE  /\ Nth(P, k) \in 1 .. m /\ K[k] \in Days(first + Nth(P, k)) /\ start < K[k]
               /\ MonthOf(K[k]) # first /\ On(K[k], r, start)
    <2> PICK i \in P : i = Nth(P, k) /\ K[k] = found[i]
      BY <1>6
    <2>1. i \in 1 .. m /\ K[k] \in Days(first + i) /\ first + i \in Nat /\ first < first + i
          /\ first + i \in FirstMonth .. LastMonth
      BY <1>2, <1>4, <1>8
    <2>2. start < K[k]
      BY <1>2, <2>1, DayOrder
    <2>3. MonthOf(K[k]) = first + i
      BY <2>1, DayInMonth
    <2>4. On(K[k], r, start)
      BY <1>4, <2>1
    <2> QED
      BY <1>2, <2>1, <2>2, <2>3, <2>4
  <1>10. ASSUME NEW j \in 1 .. c, NEW k \in 1 .. c, j < k PROVE K[j] < K[k]
    <2> DEFINE x == Nth(P, j)
               y == Nth(P, k)
    <2>1. x < y /\ x \in 1 .. m /\ y \in 1 .. m /\ K[j] \in Days(first + x) /\ K[k] \in Days(first + y)
      BY <1>6, <1>9, <1>10
    <2> HIDE DEF x, y
    <2>2. first + x \in Nat /\ first + y \in Nat /\ first + x < first + y
      BY <1>1, <1>2, <2>1
    <2> QED
      BY <2>1, <2>2, DayOrder
  <1>11. /\ Rises(dates, start) /\ Len(dates) = c + 1
         /\ dates[Len(dates)] = IF c = 0 THEN start ELSE K[c]
         /\ \A d : start < d => ((\E i \in 1 .. Len(dates) : dates[i] = d) <=> \E k \in 1 .. c : K[k] = d)
    <2>1. start \in Int
      BY <1>2
    <2>2. Later(K, start)
      BY <1>6, <1>9, <1>10 DEF Later
    <2>3. Heads(dates, K, start)
      BY <1>3, <1>6, <2>1, <2>2, Headed
    <2> QED
      BY <1>6, <2>3 DEF Heads
  <1> DEFINE end == dates[Len(dates)]
  <1>12. \E q \in 0 .. m : end \in Days(first + q)
    <2>1. CASE c = 0
      <3>1. first + 0 = first /\ 0 \in 0 .. m
        BY <1>1, <1>2
      <3> QED
        BY <1>11, <2>1, <3>1
    <2>2. CASE c # 0
      <3>1. c \in 1 .. c
        BY <1>1, <1>6, <2>2
      <3>2. Nth(P, c) \in 0 .. m /\ K[c] \in Days(first + Nth(P, c))
        BY <1>1, <1>9, <3>1
      <3> QED
        BY <1>11, <2>2, <3>2
    <2> QED
      BY <2>1, <2>2
  <1> HIDE DEF end
  <1>13. ASSUME NEW d \in start + 1 .. end, OfRule(d, rule, count, start)
         PROVE  \E k \in 1 .. c : K[k] = d
    <2>1. PICK q \in 0 .. m : end \in Days(first + q)
      BY <1>12
    <2>2. first + q \in Nat /\ first <= first + q /\ first + q <= LastMonth
      BY <1>1, <1>2
    <2>3. end \in Nat
      BY <2>1, <2>2, Months DEF Days
    <2>4. d \in start .. end
      BY <1>2, <2>3
    <2>5. PICK k \in first .. first + q : d \in Days(k)
      BY <1>2, <2>1, <2>2, <2>4, InMonths
    <2>6. k \in FirstMonth .. LastMonth
      BY <1>2, <2>2
    <2>7. MonthOf(d) = k /\ MonthOf(d) # first /\ On(d, r, start)
      BY <1>1, <1>2, <1>13, <2>5, <2>6, DayInMonth DEF OfRule, r
    <2> DEFINE i == k - first
    <2>8. i \in 1 .. m /\ first + i = k
      BY <1>1, <1>2, <2>7
    <2> HIDE DEF i
    <2>9. d = found[i]
      BY <1>4, <2>5, <2>7, <2>8
    <2>10. d # NoDay
      BY <1>2, <2>3, <2>4 DEF NoDay
    <2>11. i \in P
      BY <1>8, <2>8, <2>9, <2>10
    <2> QED
      BY <1>6, <2>9, <2>11
  <1>14. ASSUME NEW k \in 1 .. c PROVE OfRule(K[k], rule, count, start)
    BY <1>2, <1>9 DEF OfRule, r
  <1>15. Complete(dates, rule, count, start)
    <2> SUFFICES ASSUME NEW d \in start + 1 .. end
                 PROVE  OfRule(d, rule, count, start) <=> \E i \in 1 .. Len(dates) : dates[i] = d
      BY DEF Complete, end
    <2>1. start < d
      <3>1. end \in Int
        BY <1>12, <1>2, <1>1, Months DEF Days
      <3> QED
        BY <1>2, <3>1
    <2> QED
      BY <1>11, <1>13, <1>14, <2>1
  <1>16. Len(dates) <= total /\ (nth # 5 => Len(dates) = total)
    BY <1>1, <1>6, <1>7, <1>11
  <1> QED
    BY <1>11, <1>15, <1>16 DEF dates

LEMMA MonthlyFollow ==
  ASSUME NEW first \in FirstMonth .. LastMonth, NEW start \in Days(first), NEW count \in Nat,
         first + ResolveLimit(Periodic("monthly"), count) - 1 <= LastMonth
  PROVE  LET rule  == Periodic("monthly")
             total == ResolveLimit(rule, count)
             dates == GenerateInstanceDates(start, rule, count)
         IN /\ Len(dates) = total /\ Rises(dates, start)
            /\ \A i \in 1 .. total : MonthOf(dates[i]) = MonthOf(start) + i - 1
            /\ DayOfMonth(start) <= 28 => Complete(dates, rule, count, start)
  <1> DEFINE rule  == Periodic("monthly")
             total == ResolveLimit(rule, count)
             dates == GenerateInstanceDates(start, rule, count)
             r     == ToRRule(rule, count)
  <1>1. total \in Nat \ {0} /\ rule.kind = "monthly"
    BY Totals DEF Periodic
  <1>2. first \in Nat /\ FirstMonth \in Nat /\ LastMonth \in Nat /\ start \in Nat /\ MonthOf(start) = first
        /\ first + total - 1 <= LastMonth
    BY CalendarAssumption, DayInMonth
  <1>3. dates = [i \in 1 .. total |-> Clamped(start, i - 1)]
    BY <1>1 DEF GenerateInstanceDates
  <1> HIDE DEF rule, total, dates, r
  <1>4. ASSUME NEW i \in 1 .. total
        PROVE  /\ i \in Nat /\ first + i - 1 \in FirstMonth .. LastMonth /\ first + i - 1 \in Nat
               /\ dates[i] \in Days(first + i - 1) /\ dates[i] \in Nat
               /\ MonthOf(dates[i]) = first + i - 1
               /\ i = 1 => dates[i] = start
               /\ DayOfMonth(start) <= 28 =>
                    \A d \in Days(first + i - 1) : On(d, r, start) <=> d = dates[i]
    <2>1. i \in Nat /\ first + i - 1 \in FirstMonth .. LastMonth /\ first + i - 1 \in Nat
      BY <1>1, <1>2
    <2> DEFINE k == first + i - 1
    <2>2. MonthlyIn(i, first, count, start)
      BY <1>1, <1>2, Monthly_Dates DEF total, rule
    <2>3. /\ dates[i] \in Days(k)
          /\ i = 1 => dates[i] = start
          /\ DayOfMonth(start) <= MonthLength(k) =>
               \A d \in Days(k) : On(d, r, start) <=> d = dates[i]
      BY <2>2 DEF MonthlyIn, dates, r, rule
    <2> HIDE DEF k
    <2>4. k \in FirstMonth .. LastMonth /\ k \in Nat
      BY <2>1 DEF k
    <2>5. MonthOf(dates[i]) = k /\ dates[i] \in Nat
      BY <2>3, <2>4, DayInMonth
    <2>6. DayOfMonth(start) \in Nat /\ MonthLength(k) \in 28 .. 31
      <3>1. DayOfMonth(start) = start - MonthStart(first) + 1
        BY DayInMonth
      <3>2. MonthStart(first) \in Nat /\ MonthLength(first) \in 28 .. 31
        BY <1>2, Months
      <3>3. start >= MonthStart(first)
        BY <1>2, <3>2 DEF Days
      <3>4. MonthLength(k) \in 28 .. 31
        BY <2>4, Months
      <3> QED
        BY <1>2, <3>1, <3>2, <3>3, <3>4
    <2>7. DayOfMonth(start) <= 28 => DayOfMonth(start) <= MonthLength(k)
      BY <2>6
    <2> QED
      BY <2>1, <2>3, <2>5, <2>7 DEF k
  <1>5. dates \in Seq(Int) /\ Len(dates) = total
    <2>1. \A i \in 1 .. total : dates[i] \in Int
      BY <1>4
    <2>2. \A i \in 1 .. total : Clamped(start, i - 1) \in Int
      BY <1>3, <2>1
    <2> QED
      BY <1>1, <1>3, <2>2
  <1>6. Rises(dates, start)
    <2>1. 1 \in 1 .. total
      BY <1>1
    <2>2. dates[1] = start
      BY <1>4, <2>1
    <2>3. ASSUME NEW i \in 1 .. total, NEW j \in 1 .. total, i < j PROVE dates[i] < dates[j]
      <3> DEFINE k == first + i - 1
                 l == first + j - 1
      <3>1. k \in Nat /\ l \in Nat /\ dates[i] \in Days(k) /\ dates[j] \in Days(l)
        BY <1>4
      <3>2. k < l
        BY <1>2, <1>4, <2>3
      <3> HIDE DEF k, l
      <3> QED
        BY <3>1, <3>2, DayOrder
    <2> QED
      BY <1>1, <1>5, <2>2, <2>3 DEF Rises
  <1>7. ASSUME DayOfMonth(start) <= 28 PROVE Complete(dates, rule, count, start)
    <2> DEFINE end == dates[total]
               last == first + total - 1
    <2>1. total \in 1 .. total
      BY <1>1
    <2>2. end \in Days(last) /\ end \in Nat /\ last \in Nat /\ first <= last /\ last <= LastMonth
      BY <1>1, <1>2, <1>4, <2>1
    <2>3. \A d : OfRule(d, rule, count, start) <=> On(d, r, start)
      BY <1>1 DEF OfRule, r
    <2> HIDE DEF end, last
    <2>4. ASSUME NEW d \in start + 1 .. end, On(d, r, start) PROVE \E i \in 1 .. total : dates[i] = d
      <3>1. d \in start .. end
        BY <1>2, <2>2
      <3>2. PICK k \in first .. last : d \in Days(k)
        BY <1>2, <2>2, <3>1, InMonths
      <3> DEFINE i == k - first + 1
      <3>3. i \in 1 .. total /\ first + i - 1 = k
        BY <1>1, <1>2, <2>2 DEF last
      <3> HIDE DEF i
      <3>4. d = dates[i]
        BY <1>4, <1>7, <2>4, <3>2, <3>3
      <3> QED
        BY <3>3, <3>4
    <2>5. ASSUME NEW i \in 1 .. total PROVE On(dates[i], r, start)
      BY <1>4, <1>7
    <2> QED
      BY <1>5, <2>3, <2>4, <2>5 DEF Complete, end
  <1>8. \A i \in 1 .. total : MonthOf(dates[i]) = MonthOf(start) + i - 1
    BY <1>2, <1>4
  <1> QED
    BY <1>5, <1>6, <1>7, <1>8 DEF dates, rule, total

\* the j-th day of the week day among those after start
NthDay(start, day, j) == 7 * (j - 1) + 1 + ((day - Weekday(start + 1) + 7) % 7)

LEMMA NthDayIs ==
  ASSUME NEW start \in Nat, NEW W \in Nat, NEW day \in 0 .. 6, NEW j \in 1 .. W
  PROVE  /\ NthDay(start, day, j) \in 1 .. 7 * W
         /\ Weekday(start + NthDay(start, day, j)) = day
         /\ (NthDay(start, day, j) - 1) \div 7 = j - 1
  <1> DEFINE w == (start + 7) % 7
             v == (start + 7) \div 7
             o == (day - w + 7) % 7
             b == j - 1
             x == 7 * b + 1 + o
  <1>1. w \in 0 .. 6 /\ v \in Nat /\ start + 7 = 7 * v + w
    OBVIOUS
  <1>2. o \in 0 .. 6 /\ o = IF day >= w THEN day - w ELSE day - w + 7
    BY <1>1
  <1>3. b \in Nat /\ b + 1 <= W
    OBVIOUS
  <1>4. NthDay(start, day, j) = x
    <2>1. Weekday(start + 1) = w
      BY DEF Weekday
    <2> QED
      BY <2>1 DEF NthDay
  <1> HIDE DEF w, v, o, b
  <1>5. x \in 1 .. 7 * W
    BY <1>2, <1>3
  <1>6. (x - 1) \div 7 = b
    BY <1>2, <1>3
  <1>7. (start + x + 6) % 7 = day
    <2>1. start + x + 6 = 7 * (v + b) + (w + o)
      BY <1>1, <1>2, <1>3
    <2>2. w + o = day \/ w + o = day + 7
      BY <1>1, <1>2
    <2>3. v + b \in Nat
      BY <1>1, <1>3
    <2> DEFINE q == v + b
    <2> HIDE DEF q, x
    <2>4. start + x + 6 = 7 * q + day \/ start + x + 6 = 7 * (q + 1) + day
      BY <1>1, <1>2, <2>1, <2>2, <2>3 DEF q
    <2>5. q \in Nat
      BY <2>3 DEF q
    <2> QED
      BY <2>4, <2>5
  <1> QED
    BY <1>4, <1>5, <1>6, <1>7 DEF Weekday, b

\* every week after start has each of the days once
LEMMA WeeksHold ==
  ASSUME NEW start \in Nat, NEW W \in Nat, NEW D \in SUBSET (0 .. 6)
  PROVE  LET P == {i \in 1 .. 7 * W : Weekday(start + i) \in D}
         IN IsFiniteSet(P) /\ Cardinality(P) \in Nat /\ Cardinality(D) * W <= Cardinality(P)
  <1> DEFINE P == {i \in 1 .. 7 * W : Weekday(start + i) \in D}
             T == D \X (1 .. W)
             f == [t \in T |-> NthDay(start, t[1], t[2])]
  <1>1. IsFiniteSet(P) /\ Cardinality(P) \in Nat
    <2>1. IsFiniteSet(1 .. 7 * W)
      <3>1. 1 \in Int /\ 7 * W \in Int
        OBVIOUS
      <3> QED
        BY <3>1, FS_Interval
    <2>2. IsFiniteSet(P)
      BY <2>1, FS_Subset
    <2> QED
      BY <2>2, FS_CardinalityType
  <1>2. /\ IsFiniteSet(D) /\ Cardinality(D) \in Nat
        /\ IsFiniteSet(1 .. W) /\ Cardinality(1 .. W) = W
    <2>1. IsFiniteSet(0 .. 6)
      BY 0 \in Int /\ 6 \in Int, FS_Interval
    <2>2. IsFiniteSet(D)
      BY <2>1, FS_Subset
    <2>3. Cardinality(D) \in Nat
      BY <2>2, FS_CardinalityType
    <2>4. 1 \in Int /\ W \in Int
      OBVIOUS
    <2>5. IsFiniteSet(1 .. W) /\ Cardinality(1 .. W) = W
      BY <2>4, FS_Interval
    <2> QED
      BY <2>2, <2>3, <2>5
  <1>3. Cardinality(T) = Cardinality(D) * W
    BY <1>2, FS_Product
  <1>4. ASSUME NEW day \in D, NEW j \in 1 .. W
        PROVE  /\ NthDay(start, day, j) \in P
               /\ Weekday(start + NthDay(start, day, j)) = day
               /\ (NthDay(start, day, j) - 1) \div 7 = j - 1
    <2>1. day \in 0 .. 6
      OBVIOUS
    <2> QED
      BY <2>1, NthDayIs
  <1>5. \A t \in T : t[1] \in D /\ t[2] \in 1 .. W /\ t = <<t[1], t[2]>>
    OBVIOUS
  <1>6. \A t \in T : f[t] = NthDay(start, t[1], t[2])
    OBVIOUS
  <1>7. f \in [T -> P]
    <2> HIDE DEF T, P
    <2>1. \A t \in T : NthDay(start, t[1], t[2]) \in P
      BY <1>4, <1>5
    <2> QED
      BY <2>1
  <1> HIDE DEF T, P, f
  <1>8. ASSUME NEW s \in T, NEW t \in T, f[s] = f[t] PROVE s = t
    <2>1. s[1] \in D /\ s[2] \in 1 .. W /\ t[1] \in D /\ t[2] \in 1 .. W
      BY <1>5
    <2>2. NthDay(start, s[1], s[2]) = NthDay(start, t[1], t[2])
      BY <1>6, <1>8
    <2>6. /\ Weekday(start + NthDay(start, s[1], s[2])) = s[1]
          /\ (NthDay(start, s[1], s[2]) - 1) \div 7 = s[2] - 1
      BY <1>4, <2>1
    <2>7. /\ Weekday(start + NthDay(start, t[1], t[2])) = t[1]
          /\ (NthDay(start, t[1], t[2]) - 1) \div 7 = t[2] - 1
      BY <1>4, <2>1
    <2>3. s[1] = t[1] /\ s[2] - 1 = t[2] - 1
      BY <2>2, <2>6, <2>7
    <2> DEFINE x == s[2]
               y == t[2]
    <2>4. x \in Int /\ y \in Int /\ x - 1 = y - 1
      BY <2>1, <2>3
    <2> HIDE DEF x, y
    <2>5. x = y
      BY <2>4
    <2> QED
      BY <1>5, <2>3, <2>5 DEF x, y
  <1>9. f \in Injection(T, P)
    <2>1. DOMAIN f = T
      BY <1>7
    <2> QED
      BY <1>7, <1>8, <2>1 DEF Injection, IsInjective
  <1>10. Cardinality(T) <= Cardinality(P)
    BY <1>1, <1>9, FS_Injection
  <1> QED
    BY <1>1, <1>3, <1>10 DEF P

LEMMA WeekSize ==
  ASSUME NEW D \in SUBSET (0 .. 6), D # {}
  PROVE  Cardinality(D) \in 1 .. 7
  <1>1. IsFiniteSet(0 .. 6) /\ Cardinality(0 .. 6) = 7
    <2>1. 0 \in Int /\ 6 \in Int
      OBVIOUS
    <2>2. IsFiniteSet(0 .. 6)
      BY <2>1, FS_Interval
    <2>3. Cardinality(0 .. 6) = IF 0 > 6 THEN 0 ELSE 6 - 0 + 1
      BY <2>1, FS_Interval
    <2> QED
      BY <2>2, <2>3
  <1>2. IsFiniteSet(D) /\ Cardinality(D) <= Cardinality(0 .. 6)
    BY <1>1, FS_Subset
  <1>3. Cardinality(D) \in Nat
    BY <1>2, FS_CardinalityType
  <1>4. Cardinality(D) # 0
    BY <1>2, FS_EmptySet
  <1> QED
    BY <1>1, <1>2, <1>3, <1>4

\* the weeks looked through hold the dates asked for
LEMMA WeeksEnough ==
  ASSUME NEW size \in 1 .. 7, NEW count \in Nat, count > 0
  PROVE  /\ (count + size - 1) \div size + 2 \in Nat
         /\ size * ((count + size - 1) \div size + 3) >= count
  <1> DEFINE Enough(s) == /\ (count + s - 1) \div s + 2 \in Nat
                          /\ s * ((count + s - 1) \div s + 3) >= count
  <1>1. Enough(1)
    OBVIOUS
  <1>2. Enough(2)
    OBVIOUS
  <1>3. Enough(3)
    OBVIOUS
  <1>4. Enough(4)
    OBVIOUS
  <1>5. Enough(5)
    OBVIOUS
  <1>6. Enough(6)
    OBVIOUS
  <1>7. Enough(7)
    OBVIOUS
  <1>8. size = 1 \/ size = 2 \/ size = 3 \/ size = 4 \/ size = 5 \/ size = 6 \/ size = 7
    OBVIOUS
  <1> HIDE DEF Enough
  <1>9. Enough(size)
    BY <1>1, <1>2, <1>3, <1>4, <1>5, <1>6, <1>7, <1>8
  <1> QED
    BY <1>9 DEF Enough

\* as many dates as a list of weekdays makes
WeeklyTotal(D, count) == IF count > 0 THEN count ELSE 6 * Cardinality(D)

\* the first e of the days after start that are of the week days D, of those up to n
FirstOf(K, e, n, D, start) ==
  LET P == {i \in 1 .. n : Weekday(start + i) \in D}
  IN /\ e \in 0 .. Cardinality(P) /\ K \in Seq(Int) /\ Len(K) = e
     /\ \A k \in 1 .. e : K[k] = start + Nth(P, k)

LEMMA WeeklyWalk ==
  ASSUME NEW start \in Nat, NEW D \in SUBSET (0 .. 6), D # {}, NEW count \in Nat
  PROVE  \E n \in Nat, K \in Seq(Int) :
           /\ FirstOf(K, WeeklyTotal(D, count) - 1, n, D, start)
           /\ GenerateInstanceDates(start, WeeklyDays(D), count) = <<start>> \o K
  <1> DEFINE rule   == WeeklyDays(D)
             size   == Cardinality(D)
             wanted == IF count > 0 THEN count ELSE 6 * size
             weeks  == IF count > 0 THEN (count + size - 1) \div size + 2 ELSE 6
             n      == weeks * 7 + 7
             ahead  == [i \in 1 .. n |-> start + i]
             P      == {i \in 1 .. n : Weekday(start + i) \in D}
             walked == Kept(ahead, P)
             c      == Cardinality(P)
             e      == wanted - 1
             K      == SubSeq(walked, 1, IF e < Len(walked) THEN e ELSE Len(walked))
  <1>1. rule.kind = "weekly_days" /\ rule.days = D
    BY DEF WeeklyDays
  <1>2. size \in 1 .. 7
    BY WeekSize
  <1>3. weeks \in Nat /\ size * (weeks + 1) >= wanted /\ wanted \in Nat \ {0}
    <2> HIDE DEF size
    <2>1. CASE count > 0
      <3> DEFINE w == (count + size - 1) \div size
      <3>1. w + 2 \in Nat /\ size * (w + 3) >= count
        BY <1>2, <2>1, WeeksEnough
      <3>2. weeks = w + 2 /\ weeks + 1 = w + 3
        <4>1. w \in Int
          BY <1>2
        <4> QED
          BY <2>1, <4>1
      <3> QED
        BY <2>1, <3>1, <3>2
    <2>2. CASE count = 0
      BY <1>2, <2>2
    <2> QED
      BY <2>1, <2>2
  <1>4. GenerateInstanceDates(start, rule, count) = <<start>> \o K
    <2>1. {i \in DOMAIN ahead : Weekday(ahead[i]) \in D} = P
      <3>1. DOMAIN ahead = 1 .. n
        OBVIOUS
      <3>2. \A i \in 1 .. n : ahead[i] = start + i
        OBVIOUS
      <3> HIDE DEF ahead, n
      <3> QED
        BY <3>1, <3>2
    <2> QED
      BY <1>1, <2>1 DEF GenerateInstanceDates
  <1> HIDE DEF size, wanted, weeks
  <1>5. n \in Nat /\ n = 7 * (weeks + 1) /\ weeks + 1 \in Nat
    BY <1>3
  <1>6. ahead \in Seq(Int) /\ Len(ahead) = n
    BY <1>5
  <1>7. /\ c \in Nat /\ walked \in Seq(Int) /\ Len(walked) = c
        /\ \A k \in 1 .. c : Nth(P, k) \in P /\ walked[k] = ahead[Nth(P, k)]
    <2>1. P \in SUBSET (1 .. Len(ahead))
      BY <1>6
    <2> HIDE DEF P, ahead
    <2>2. c \in 0 .. Len(ahead) /\ walked \in Seq(Int) /\ Len(walked) = c
      BY <1>6, <2>1, KeptIs
    <2>3. \A k \in 1 .. c : Nth(P, k) \in P /\ walked[k] = ahead[Nth(P, k)]
      BY <1>6, <2>1, KeptIs
    <2> QED
      BY <1>5, <1>6, <2>2, <2>3
  <1>8. size * (weeks + 1) <= c
    <2> DEFINE W == weeks + 1
    <2>1. n = 7 * W /\ W \in Nat
      BY <1>5
    <2> HIDE DEF n, W
    <2>2. size * W <= c
      BY <2>1, WeeksHold DEF size
    <2> QED
      BY <2>2 DEF W
  <1>9. e \in 0 .. c
    <2> DEFINE x == size * (weeks + 1)
    <2>1. x \in Nat
      BY <1>2, <1>3
    <2>2. x >= wanted /\ x <= c
      BY <1>3, <1>8
    <2> HIDE DEF x, c
    <2> QED
      BY <1>3, <1>7, <2>1, <2>2
  <1>10. \A i \in P : ahead[i] = start + i
    OBVIOUS
  <1> HIDE DEF P, ahead, walked, c, e, n
  <1>11. K = SubSeq(walked, 1, e)
    BY <1>7, <1>9
  <1>12. K \in Seq(Int) /\ Len(K) = e /\ \A k \in 1 .. e : K[k] = walked[k]
    <2> HIDE DEF K
    <2> QED
      BY <1>7, <1>9, <1>11
  <1> HIDE DEF K
  <1>13. ASSUME NEW k \in 1 .. e PROVE K[k] = start + Nth(P, k)
    <2>1. k \in 1 .. c
      BY <1>7, <1>9
    <2> QED
      BY <1>7, <1>10, <1>12, <2>1
  <1>14. FirstOf(K, e, n, D, start)
    BY <1>9, <1>12, <1>13 DEF FirstOf, P, c
  <1>15. e = WeeklyTotal(D, count) - 1
    BY DEF e, wanted, size, WeeklyTotal
  <1> QED
    BY <1>4, <1>5, <1>12, <1>14, <1>15

LEMMA WeeklyFollow ==
  ASSUME NEW start \in Nat, NEW D \in SUBSET (0 .. 6), D # {}, NEW count \in Nat
  PROVE  LET rule  == WeeklyDays(D)
             dates == GenerateInstanceDates(start, rule, count)
         IN /\ Len(dates) = WeeklyTotal(D, count)
            /\ Rises(dates, start) /\ Complete(dates, rule, count, start)
  <1> DEFINE rule  == WeeklyDays(D)
             dates == GenerateInstanceDates(start, rule, count)
             e     == WeeklyTotal(D, count) - 1
             r     == ToRRule(rule, count)
  <1>1. PICK n \in Nat, K \in Seq(Int) : FirstOf(K, e, n, D, start) /\ dates = <<start>> \o K
    BY WeeklyWalk
  <1>2. WeeklyTotal(D, count) \in Nat
    BY WeekSize DEF WeeklyTotal
  <1> DEFINE P == {i \in 1 .. n : Weekday(start + i) \in D}
             c == Cardinality(P)
  <1>3. /\ e \in 0 .. c /\ K \in Seq(Int) /\ Len(K) = e
        /\ \A k \in 1 .. e : K[k] = start + Nth(P, k)
    BY <1>1 DEF FirstOf
  <1>4. \A i : i \in P <=> i \in 1 .. n /\ Weekday(start + i) \in D
    OBVIOUS
  <1>5. /\ c \in Nat
        /\ \A k \in 1 .. c : Nth(P, k) \in P
        /\ \A j, k \in 1 .. c : j < k => Nth(P, j) < Nth(P, k)
        /\ \A i \in P : \E k \in 1 .. c : Nth(P, k) = i
    <2> DEFINE ahead == [i \in 1 .. n |-> start + i]
    <2>1. ahead \in Seq(Int) /\ Len(ahead) = n
      OBVIOUS
    <2>2. P \in SUBSET (1 .. Len(ahead))
      BY <2>1
    <2> HIDE DEF P, ahead
    <2>3. c \in 0 .. Len(ahead)
      BY <2>1, <2>2, KeptIs
    <2>4. \A k \in 1 .. c : Nth(P, k) \in P
      BY <2>1, <2>2, KeptIs
    <2>5. \A j, k \in 1 .. c : j < k => Nth(P, j) < Nth(P, k)
      BY <2>1, <2>2, KeptIs
    <2>6. \A i \in P : \E k \in 1 .. c : Nth(P, k) = i
      BY <2>1, <2>2, KeptIs
    <2> QED
      BY <2>1, <2>3, <2>4, <2>5, <2>6
  <1>6. r.freq = "WEEKLY" /\ r.interval = 1 /\ r.byday = D /\ rule.kind = "weekly_days"
    <2>1. r = RRule("WEEKLY", 1, D, 0, count)
      BY Told
    <2> QED
      BY <2>1, RRuleFields DEF WeeklyDays
  <1> HIDE DEF P, c, r, rule, dates
  <1>7. \A d : OfRule(d, rule, count, start) <=> Weekday(d) \in D
    <2>1. \A d : On(d, r, start) <=> Weekday(d) \in D
      BY <1>6 DEF On
    <2> QED
      BY <1>6, <2>1 DEF OfRule, r
  <1> HIDE DEF e
  <1>8. ASSUME NEW k \in 1 .. e
        PROVE  k \in 1 .. c /\ Nth(P, k) \in 1 .. n /\ K[k] = start + Nth(P, k) /\ start < K[k]
               /\ Weekday(K[k]) \in D
    <2>1. k \in 1 .. c
      BY <1>3, <1>5
    <2>2. Nth(P, k) \in P
      BY <1>5, <2>1
    <2>3. Nth(P, k) \in 1 .. n /\ Weekday(start + Nth(P, k)) \in D
      BY <1>4, <2>2
    <2>4. K[k] = start + Nth(P, k)
      BY <1>3
    <2> QED
      BY <2>1, <2>3, <2>4
  <1>9. ASSUME NEW j \in 1 .. e, NEW k \in 1 .. e, j < k PROVE K[j] < K[k]
    <2>1. Nth(P, j) < Nth(P, k)
      BY <1>5, <1>8, <1>9
    <2> QED
      BY <1>8, <2>1
  <1>10. /\ Rises(dates, start) /\ Len(dates) = e + 1
         /\ dates[Len(dates)] = IF e = 0 THEN start ELSE K[e]
         /\ \A d : start < d => ((\E i \in 1 .. Len(dates) : dates[i] = d) <=> \E k \in 1 .. e : K[k] = d)
    <2>1. start \in Int
      OBVIOUS
    <2>2. Later(K, start)
      BY <1>3, <1>8, <1>9 DEF Later
    <2>3. Heads(dates, K, start)
      BY <1>1, <1>3, <2>1, <2>2, Headed
    <2> QED
      BY <1>3, <2>3 DEF Heads
  <1> DEFINE end == dates[Len(dates)]
  <1>11. end \in Nat /\ (e = 0 => end = start) /\ (e # 0 => e \in 1 .. e /\ end = start + Nth(P, e))
    <2>1. CASE e = 0
      BY <1>10, <2>1
    <2>2. CASE e # 0
      <3>1. e \in 1 .. e
        BY <1>3, <1>5, <2>2
      <3>2. K[e] = start + Nth(P, e) /\ Nth(P, e) \in 1 .. n
        BY <1>8, <3>1
      <3> QED
        BY <1>10, <2>2, <3>1, <3>2
    <2> QED
      BY <2>1, <2>2
  <1> HIDE DEF end
  <1>12. ASSUME NEW d \in start + 1 .. end, Weekday(d) \in D PROVE \E k \in 1 .. e : K[k] = d
    <2> DEFINE i == d - start
    <2>1. e # 0 /\ e \in 1 .. e /\ end = start + Nth(P, e)
      BY <1>11
    <2>2. Nth(P, e) \in 1 .. n /\ e \in 1 .. c
      BY <1>8, <2>1
    <2>3. i \in 1 .. n /\ i <= Nth(P, e) /\ start + i = d
      BY <2>1, <2>2
    <2> HIDE DEF i
    <2>4. i \in P
      BY <1>4, <1>12, <2>3
    <2>5. PICK k \in 1 .. c : Nth(P, k) = i
      BY <1>5, <2>4
    <2>6. ~(e < k)
      <3>1. e < k => Nth(P, e) < i
        BY <1>5, <2>2, <2>5
      <3> QED
        BY <2>2, <2>3, <3>1
    <2>7. k \in 1 .. e
      BY <1>3, <1>5, <2>6
    <2> QED
      BY <1>8, <2>3, <2>5, <2>7
  <1>13. Complete(dates, rule, count, start)
    <2> SUFFICES ASSUME NEW d \in start + 1 .. end
                 PROVE  OfRule(d, rule, count, start) <=> \E i \in 1 .. Len(dates) : dates[i] = d
      BY DEF Complete, end
    <2>1. start < d
      BY <1>11
    <2> QED
      BY <1>7, <1>8, <1>10, <1>12, <2>1
  <1>14. Len(dates) = WeeklyTotal(D, count)
    BY <1>2, <1>10 DEF e
  <1> QED
    BY <1>10, <1>13, <1>14 DEF dates, rule

\* as many dates as a recurrence has
Total(rule, count) ==
  IF rule.kind = "weekly_days" /\ count = 0 THEN 6 * Cardinality(rule.days) ELSE ResolveLimit(rule, count)

LEMMA Kinds ==
  ASSUME NEW count \in Nat
  PROVE  /\ \A kind : Periodic(kind).kind = kind
         /\ \A D : WeeklyDays(D).kind = "weekly_days" /\ WeeklyDays(D).days = D
         /\ \A n, day : Ordinal(n, day).kind = "ordinal_weekday" /\ Ordinal(n, day).nth = n
         /\ \A kind \in {"daily", "weekly", "biweekly", "monthly"} :
              Total(Periodic(kind), count) = ResolveLimit(Periodic(kind), count)
         /\ \A n, day : Total(Ordinal(n, day), count) = ResolveLimit(Ordinal(n, day), count)
         /\ \A D : Total(WeeklyDays(D), count) = WeeklyTotal(D, count)
  BY DEF Periodic, WeeklyDays, Ordinal, Total, WeeklyTotal, ResolveLimit

\* the dates of a recurrence are a first one and all the days of its RRULE up to the last
Answers(start, rule, count) ==
  LET dates == GenerateInstanceDates(start, rule, count)
  IN /\ Rises(dates, start)
     /\ IF rule.kind = "ordinal_weekday" /\ rule.nth = 5 THEN Len(dates) <= Total(rule, count)
                                                       ELSE Len(dates) = Total(rule, count)
     /\ IF rule.kind = "monthly" /\ DayOfMonth(start) > 28
        THEN \A i \in 1 .. Len(dates) : MonthOf(dates[i]) = MonthOf(start) + i - 1
        ELSE Complete(dates, rule, count, start)

LEMMA AllAnswer ==
  ASSUME NEW first \in FirstMonth .. LastMonth, NEW start \in Days(first), NEW count \in Nat,
         \A total \in {count, 2} : first + total - 1 <= LastMonth, NEW rule \in Rules
  PROVE  Answers(start, rule, count)
  <1>1. start \in Nat
    BY DayInMonth
  <1>2. ASSUME NEW kind \in {"daily", "weekly", "biweekly"}, rule = Periodic(kind)
        PROVE  Answers(start, rule, count)
    <2>1. Len(GenerateInstanceDates(start, rule, count)) = ResolveLimit(rule, count)
      BY <1>1, <1>2, PeriodicFollow
    <2>2. Rises(GenerateInstanceDates(start, rule, count), start)
      BY <1>1, <1>2, PeriodicFollow
    <2>3. Complete(GenerateInstanceDates(start, rule, count), rule, count, start)
      BY <1>1, <1>2, PeriodicFollow
    <2>4. rule.kind = kind /\ Total(rule, count) = ResolveLimit(rule, count)
      BY <1>2, Kinds
    <2> QED
      BY <2>1, <2>2, <2>3, <2>4 DEF Answers
  <1>3. ASSUME rule = Periodic("monthly") PROVE Answers(start, rule, count)
    <2> DEFINE total == ResolveLimit(rule, count)
               dates == GenerateInstanceDates(start, rule, count)
    <2>0. rule.kind = "monthly" /\ Total(rule, count) = total
      BY <1>3, Kinds
    <2>1. first + total - 1 <= LastMonth
      <3>1. total \in {count, 2}
        BY <2>0 DEF ResolveLimit, DefaultLimit
      <3> QED
        BY <3>1
    <2>2. Len(dates) = total
      BY <1>3, <2>1, MonthlyFollow
    <2>3. Rises(dates, start)
      BY <1>3, <2>1, MonthlyFollow
    <2>4. \A i \in 1 .. total : MonthOf(dates[i]) = MonthOf(start) + i - 1
      BY <1>3, <2>1, MonthlyFollow
    <2>5. DayOfMonth(start) <= 28 => Complete(dates, rule, count, start)
      BY <1>3, <2>1, MonthlyFollow
    <2>6. DayOfMonth(start) > 28 \/ DayOfMonth(start) <= 28
      <3>1. DayOfMonth(start) = start - MonthStart(first) + 1 /\ MonthStart(first) \in Nat
        BY DayInMonth, CalendarAssumption, Months
      <3> QED
        BY <1>1, <3>1
    <2> HIDE DEF total, dates
    <2> QED
      BY <2>0, <2>2, <2>3, <2>4, <2>5, <2>6 DEF Answers, dates
  <1>4. ASSUME NEW D \in (SUBSET (0 .. 6)) \ {{}}, rule = WeeklyDays(D) PROVE Answers(start, rule, count)
    <2>0. D \in SUBSET (0 .. 6) /\ D # {}
      OBVIOUS
    <2>1. Len(GenerateInstanceDates(start, rule, count)) = WeeklyTotal(D, count)
      BY <1>1, <1>4, <2>0, WeeklyFollow
    <2>2. Rises(GenerateInstanceDates(start, rule, count), start)
      BY <1>1, <1>4, <2>0, WeeklyFollow
    <2>3. Complete(GenerateInstanceDates(start, rule, count), rule, count, start)
      BY <1>1, <1>4, <2>0, WeeklyFollow
    <2>4. rule.kind = "weekly_days" /\ Total(rule, count) = WeeklyTotal(D, count)
      BY <1>4, Kinds
    <2> QED
      BY <2>1, <2>2, <2>3, <2>4 DEF Answers
  <1>5. ASSUME NEW n \in 1 .. 5, NEW day \in 0 .. 6, rule = Ordinal(n, day)
        PROVE  Answers(start, rule, count)
    <2> DEFINE total == ResolveLimit(rule, count)
               dates == GenerateInstanceDates(start, rule, count)
    <2>0. rule.kind = "ordinal_weekday" /\ rule.nth = n /\ Total(rule, count) = total
      BY <1>5, Kinds
    <2>1. first + total - 1 <= LastMonth
      <3>1. total \in {count, 2}
        BY <2>0 DEF ResolveLimit, DefaultLimit
      <3> QED
        BY <3>1
    <2>2. Len(dates) <= total
      BY <1>5, <2>1, OrdinalFollow
    <2>3. n # 5 => Len(dates) = total
      BY <1>5, <2>1, OrdinalFollow
    <2>4. Rises(dates, start)
      BY <1>5, <2>1, OrdinalFollow
    <2>5. Complete(dates, rule, count, start)
      BY <1>5, <2>1, OrdinalFollow
    <2> HIDE DEF total, dates
    <2> QED
      BY <2>0, <2>2, <2>3, <2>4, <2>5 DEF Answers, dates
  <1> QED
    BY <1>2, <1>3, <1>4, <1>5 DEF Rules

\* A publisher's recurrence of any kind, first day and count is dated on the days
\* of the RRULE readers are told of, up to its last date and no other, and on as
\* many as were asked for, with the exceptions DatesFollowRule names.
THEOREM Dates_Follow == RecurrenceInit => DatesFollowRule
  <1> SUFFICES ASSUME RecurrenceInit PROVE DatesFollowRule
    OBVIOUS
  <1> DEFINE start == asked.start
             rule  == asked.rule
             count == asked.count
             dates == GenerateInstanceDates(start, rule, count)
             n     == Len(dates)
  <1>1. start \in RuleStarts /\ rule \in Rules /\ count \in RuleCounts
    BY DEF RecurrenceInit
  <1>2. count \in Nat
    BY <1>1, RuleAssumption
  <1>3. PICK first \in FirstMonth .. LastMonth :
          /\ start \in MonthStart(first) .. MonthStart(first + 1) - 1
          /\ \A total \in RuleCounts \cup {2} : first + total - 1 <= LastMonth
    BY <1>1, RuleAssumption
  <1>4. start \in Days(first)
    <2>1. first \in Nat
      BY CalendarAssumption
    <2>2. /\ MonthStart(first) \in Nat /\ MonthLength(first) \in Nat
          /\ MonthStart(first + 1) = MonthStart(first) + MonthLength(first)
      BY <2>1, Months
    <2>3. start \in MonthStart(first) .. MonthStart(first + 1) - 1
      BY <1>3
    <2> HIDE DEF start
    <2> QED
      BY <2>2, <2>3 DEF Days
  <1>5. start \in Nat
    BY <1>4, DayInMonth
  <1> HIDE DEF start, rule, count
  <1>6. Answers(start, rule, count)
    <2>1. \A total \in {count, 2} : first + total - 1 <= LastMonth
      BY <1>1, <1>3
    <2> QED
      BY <1>1, <1>2, <1>4, <2>1, AllAnswer
  <1> HIDE DEF dates
  <1>7. /\ Rises(dates, start)
        /\ IF rule.kind = "ordinal_weekday" /\ rule.nth = 5 THEN n <= Total(rule, count)
                                                          ELSE n = Total(rule, count)
        /\ IF rule.kind = "monthly" /\ DayOfMonth(start) > 28
           THEN \A i \in 1 .. n : MonthOf(dates[i]) = MonthOf(start) + i - 1
           ELSE Complete(dates, rule, count, start)
    BY <1>6 DEF Answers, dates
  <1>8. dates[1] = start
    BY <1>7 DEF Rises
  <1>9. ASSUME ~(rule.kind = "monthly" /\ DayOfMonth(start) > 28)
        PROVE  FollowsRule(dates, rule, count, start)
    BY <1>5, <1>7, <1>9, Followed
  <1> QED
    BY <1>7, <1>8, <1>9 DEF DatesFollowRule, FollowsRule, Total, dates, start, rule, count
=============================================================================
