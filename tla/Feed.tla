-------------------------------- MODULE Feed --------------------------------
(***************************************************************************)
(* What readers get of the Directory and of the events: the public lists   *)
(* and single rows (src/routes/v1*.ts), read page by page, and the feed of *)
(* changes (src/routes/public.ts), polled with a cursor.                   *)
(*                                                                         *)
(* Events change as EventLifecycle and EventSeries describe; here a write  *)
(* is one statement over one row or over the rows of a series.  A filter   *)
(* of GET /events only picks the events there are for that reader.         *)
(***************************************************************************)
EXTENDS Directory, Lists
LOCAL INSTANCE SequencesExt

CONSTANTS
  Events, Series,
  Horizon,      \* bound on the time
  Limit,        \* rows per page
  OverFetch,    \* pages fetched for a collapsed one (5)
  RssFetch,     \* and for one of RSS items (3)
  MaxStamp      \* bound on the statements that write events

ASSUME PageAssumption == Limit \in Nat \ {0} /\ OverFetch \in Nat \ {0}
                            /\ RssFetch \in 1 .. OverFetch
ASSUME BoundAssumption == Horizon \in Nat /\ MaxStamp \in Nat /\ IsFiniteSet(Events)

VARIABLES
  event, now,   \* the events; the time
  stamp,        \* the transaction time of the last write
  walk,         \* a reader that pages through GET /events
  sync,         \* a consumer that polls GET /api/events/changes
  odd           \* history: values of updated_at that several rows were given, or one
                \* after the consumer had read past it

table == <<event, now, stamp, odd>>
feed  == <<table, walk, sync>>

Event == [state   : {"none", "published", "hidden", "gone"},
          o       : Orgs \cup {None},        \* organizer_org_id
          series  : Series \cup {None},
          start   : 0 .. Horizon,            \* event_at
          open    : BOOLEAN,                 \* open_window
          updated : 0 .. MaxStamp]

NoEvent == [state |-> "none", o |-> None, series |-> None, start |-> 0, open |-> FALSE,
            updated |-> 0]
AtDesk  == [pc |-> "idle", collapse |-> FALSE, offset |-> 0, got |-> <<>>, from |-> {},
            left |-> FALSE, came |-> FALSE, tied |-> FALSE]

\* events may be there
FeedInit ==
  /\ event \in [Events -> {NoEvent} \cup {x \in Event : x.state = "published" /\ x.updated = 0}]
  /\ \A e \in Events : event[e].o # None => org[event[e].o].live
  /\ now = 0 /\ stamp = 0 /\ odd = {}
  /\ walk = AtDesk /\ sync = [cursor |-> 0, copy |-> [e \in Events |-> 0]]

\* Every variable keeps its type, those of the Directory included; the consumer is
\* never ahead of the table.
FeedTypeOK ==
  /\ TypeOK
  /\ event \in [Events -> Event] /\ now \in 0 .. Horizon /\ stamp \in 0 .. MaxStamp
  /\ odd \subseteq 1 .. MaxStamp
  /\ walk \in [pc : {"idle", "on", "done"}, collapse : BOOLEAN, offset : Nat, got : Seq(Events),
               from : SUBSET Events, left : BOOLEAN, came : BOOLEAN, tied : BOOLEAN]
  /\ sync \in [cursor : 0 .. stamp, copy : [Events -> 0 .. stamp]]

-----------------------------------------------------------------------------
(* GET /events and GET /events/:id *)

Published == {e \in Events : event[e].state = "published"}

\* the generated column of migration 088; an open window lasts for one unit of time
RelevantUntil(e) == event[e].start + (IF event[e].open THEN 1 ELSE 0)

Relevant == {e \in Published : RelevantUntil(e) >= now}

\* status of the account that owns the organizer
Suspended(e) ==
  LET o == event[e].o IN
  o # None /\ org[o].owner # None /\ acct[org[o].owner].suspended

Visible == {e \in Relevant : ~Suspended(e)}

\* ORDER BY one column: rows that tie come in any order, in every query anew
Ordered(S, column) ==
  {s \in SetToSeqs(S) : \A i, j \in DOMAIN s : i < j => column[s[i]] <= column[s[j]]}

\* Mutant: the last row of a page is the first of the next.
RowsAtMutant(s, offset, n) ==
  SubSeq(s, offset + 1, IF offset + n < Len(s) THEN offset + n + 1 ELSE Len(s))
\* .range(offset, offset + fetchLimit - 1)
RowsAt(s, offset, n) ==
  SubSeq(s, offset + 1, IF offset + n < Len(s) THEN offset + n ELSE Len(s))

\* deduplicateSeries
Deduplicated(s) ==
  Kept(s, {i \in DOMAIN s : \/ event[s[i]].series = None
                            \/ \A j \in 1 .. i - 1 : event[s[j]].series # event[s[i]].series})

\* queryFilteredEvents: of n rows, those of suspended accounts are left out
Shown(s, offset, n) ==
  LET rows == RowsAt(s, offset, n) IN Kept(rows, {i \in DOMAIN rows : ~Suspended(rows[i])})
Collapsed(s, offset, pages) == RowsAt(Deduplicated(Shown(s, offset, Limit * pages)), 0, Limit)

\* the page at an offset, of one order of the relevant events
Page(s, offset, collapse) == IF collapse THEN Collapsed(s, offset, OverFetch)
                                         ELSE Shown(s, offset, Limit)

\* GET /events.rss, and GET /events.ics, which reaches thirty days back
Rss(s, offset) == Collapsed(s, offset, RssFetch)
Ics(s, n)      == Deduplicated(Shown(s, 0, n))

EventById(e) == e \in Published /\ ~Suspended(e)

-----------------------------------------------------------------------------
(* A reader that fetches page after page *)

WalkStart(collapse) ==
  /\ walk.pc = "idle"
  /\ walk' = [AtDesk EXCEPT !.pc = "on", !.collapse = collapse, !.from = Visible]
  /\ UNCHANGED <<vars, table, sync>>

Tied == \E e, f \in Relevant : e # f /\ RelevantUntil(e) = RelevantUntil(f)

\* up to meta.total, which a collapsed listing does not tell: then up to an empty page
WalkPage ==
  /\ walk.pc = "on"
  /\ \E s \in Ordered(Relevant, [e \in Events |-> RelevantUntil(e)]) :
       LET page == Page(s, walk.offset, walk.collapse)
           last == IF walk.collapse THEN page = <<>>
                                    ELSE walk.offset + Limit >= Cardinality(Relevant)
       IN walk' = [walk EXCEPT !.got = @ \o page, !.offset = @ + Limit, !.tied = @ \/ Tied,
                               !.pc = IF last THEN "done" ELSE "on"]
  /\ UNCHANGED <<vars, table, sync>>

\* history of what happens to the listing once a walk has begun
Moved   == \E e \in Relevant \cap Relevant' : RelevantUntil(e)' # RelevantUntil(e)
Noticed ==
  walk' = IF walk.pc = "idle" THEN walk
          ELSE [walk EXCEPT !.left = @ \/ Moved \/ ~(Relevant \subseteq Relevant')
                                        \/ ~(Visible \subseteq Visible'),
                            !.came = @ \/ Moved \/ ~(Relevant' \subseteq Relevant)
                                        \/ ~(Visible' \subseteq Visible)]

-----------------------------------------------------------------------------
(* Writes of events, and the feed of their changes *)

\* update_updated_at: the time the transaction began, which another may share
Stamped(t, S) ==
  /\ t \in {stamp, stamp + 1} \cap (1 .. MaxStamp) /\ stamp' = t
  /\ odd' = IF t = stamp \/ t <= sync.cursor \/ Cardinality(S) > 1 THEN odd \cup {t} ELSE odd

\* one statement inserts an event, or instances of a series
Insert(S, o, s, start, open, t) ==
  /\ S # {} /\ \A e \in S : event[e].state = "none"
  /\ s = None => Cardinality(S) = 1
  /\ o # None => org[o].live
  /\ Stamped(t, S)
  /\ event' = [e \in Events |-> IF e \notin S THEN event[e]
                                ELSE [state |-> "published", o |-> o, series |-> s,
                                      start |-> start[e], open |-> open, updated |-> t]]
  /\ UNCHANGED now

\* or updates them
Rewrite(S, t) ==
  /\ S # {} /\ \A e \in S : event[e].state \in {"published", "hidden"}
  /\ \A e, f \in S : e # f => event[e].series # None /\ event[e].series = event[f].series
  /\ Stamped(t, S)
  /\ event' = [e \in Events |-> IF e \in S THEN [event[e] EXCEPT !.updated = t] ELSE event[e]]
  /\ UNCHANGED now

Reschedule(e, start, t) ==
  /\ event[e].state = "published" /\ start # event[e].start /\ Stamped(t, {e})
  /\ event' = [event EXCEPT ![e].start = start, ![e].updated = t]
  /\ UNCHANGED now

\* the status of a PATCH: published, or one of those readers do not see
SetStatus(e, t) ==
  /\ event[e].state \in {"published", "hidden"} /\ Stamped(t, {e})
  /\ event' = [event EXCEPT ![e].state = IF @ = "published" THEN "hidden" ELSE "published",
                            ![e].updated = t]
  /\ UNCHANGED now

Delete(e) ==
  /\ event[e].state \in {"published", "hidden"}
  /\ event' = [event EXCEPT ![e].state = "gone"]
  /\ UNCHANGED <<now, stamp, odd>>

Tick == now < Horizon /\ now' = now + 1 /\ UNCHANGED <<event, stamp, odd>>

UpdatedAt(e) == event[e].updated

\* toNeighborhoodEvent: an event as readers get it, told apart by the write it shows
Version(e) == event[e].updated

\* Mutant: the cursor is the latest change there is.
CursorMutant(page) == IF page = <<>> THEN sync.cursor ELSE stamp
\* updated_at of the last event of the page
Cursor(page) == IF page = <<>> THEN sync.cursor ELSE UpdatedAt(page[Len(page)])

\* GET /api/events/changes.  Its deleted_ids are the rows with an ended_at: nothing sets it.
Poll ==
  /\ \E s \in Ordered({e \in Published : UpdatedAt(e) > sync.cursor}, [e \in Events |-> UpdatedAt(e)]) :
       LET page == RowsAt(s, 0, Limit) IN
       /\ page # <<>>
       /\ sync' = [cursor |-> Cursor(page),
                   copy   |-> [e \in Events |-> IF \E i \in DOMAIN page : page[i] = e
                                                THEN Version(e) ELSE sync.copy[e]]]
  /\ UNCHANGED <<vars, table, walk>>

-----------------------------------------------------------------------------
(* The other lists and rows *)

OrganizationById(o) == org[o].live

\* hydrateVerificationsFor: an app that verified the organization, or nobody
ShownBy(o) == {x.k : x \in {y \in verif : y.o = o}}

\* resolveVerificationIdFilter: "empty", "all", or a set to include or to exclude
VerifiedOrgs(apps) == {x.o : x \in {y \in verif : y.k \in apps}}
IdFilter(verified, by, notBy) ==
  LET every   == VerifiedOrgs(Keys)
      start   == IF verified = "true" THEN every ELSE Orgs
      allowed == IF by = {} THEN start ELSE start \cap VerifiedOrgs(by)
      exclude == (IF verified = "false" THEN every ELSE {}) \cup VerifiedOrgs(notBy)
  IN CASE verified # "true" /\ by = {} /\ exclude = {} -> [kind |-> "all"]
       [] verified # "true" /\ by = {} /\ exclude # {} -> [kind |-> "exclude", ids |-> exclude]
       [] OTHER -> IF allowed \subseteq exclude THEN [kind |-> "empty"]
                   ELSE [kind |-> "include", ids |-> allowed \ exclude]
Admits(f, o) == CASE f.kind = "empty"   -> FALSE
                  [] f.kind = "all"     -> TRUE
                  [] f.kind = "include" -> o \in f.ids
                  [] f.kind = "exclude" -> o \notin f.ids

\* GET /organizations
OrganizationList(f) == {o \in Orgs : org[o].live /\ Admits(f, o)}

\* publisher_org_ids
PublisherOrgIds ==
  {event[e].o : e \in {x \in Published : event[x].o # None}}
    \cup {bc[b].o : b \in {x \in Broadcasts : bc[x].state \in {"active", "expired"}}}

\* Mutant: only events make a publisher.
IsPublisherOrgMutant(o) == \E e \in Published : event[e].o = o
\* isPublisherOrg
IsPublisherOrg(o) == \/ \E e \in Published : event[e].o = o
                     \/ \E b \in Broadcasts : bc[b].state \in {"active", "expired"} /\ bc[b].o = o

PublisherList(f) == {o \in OrganizationList(f) : o \in PublisherOrgIds}
PublisherById(o) == OrganizationById(o) /\ IsPublisherOrg(o)

BroadcastList(f) == {b \in Broadcasts : bc[b].state = "active" /\ Admits(f, bc[b].o)}
BroadcastById(b) == bc[b].state \in {"active", "expired"}

PlaceById(p) == p \in place

\* formatList: what is left of the items of a list that name events
ListedEvents == {e[2] : e \in items} \cap Published

\* next_instance of a series
NextInstances(s) ==
  LET S == {e \in Published : event[e].series = s /\ event[e].start >= now}
  IN {e \in S : \A f \in S : event[e].start <= event[f].start}

-----------------------------------------------------------------------------
WriteStep ==
  \/ \E S \in SUBSET Events, o \in Orgs \cup {None}, s \in Series \cup {None},
        open \in BOOLEAN, t \in 1 .. MaxStamp :
       \E start \in [S -> 0 .. Horizon] : Insert(S, o, s, start, open, t)
  \/ \E S \in SUBSET Events, t \in 1 .. MaxStamp : Rewrite(S, t)
  \/ \E e \in Events, start \in 0 .. Horizon, t \in 1 .. MaxStamp : Reschedule(e, start, t)
  \/ \E e \in Events, t \in 1 .. MaxStamp : SetStatus(e, t)
  \/ \E e \in Events : Delete(e)
  \/ Tick

ReadStep == WalkPage \/ Poll \/ \E collapse \in BOOLEAN : WalkStart(collapse)

\* a step of the Directory, a write of events, or a reader's request
FeedNext ==
  \/ Next      /\ UNCHANGED <<table, sync>> /\ Noticed
  \/ WriteStep /\ UNCHANGED <<vars, sync>>  /\ Noticed
  \/ ReadStep

FeedSpec == Init /\ FeedInit /\ [][FeedNext]_<<vars, feed>>

-----------------------------------------------------------------------------
Got == {walk.got[i] : i \in DOMAIN walk.got}
Alike(e, f) == e = f \/ (event[e].series # None /\ event[e].series = event[f].series)

\* A reader that has fetched every page has every event that was listed when it
\* began, unless one left the list meanwhile, and none twice, unless one came; in
\* a collapsed listing it has every series, first by its nearest instance.  Events
\* that stop being relevant at the same moment are not told apart by the order, and
\* a page of suspended accounts' events only ends a collapsed listing early.
WalkIsTheList ==
  walk.pc = "done" /\ ~walk.tied =>
    IF ~walk.collapse
    THEN /\ walk.left \/ walk.from \subseteq Got
         /\ walk.came \/ Len(walk.got) = Cardinality(Got)
    ELSE walk.left \/ walk.came \/ Relevant # Visible \/
         /\ \A e \in walk.from : \E f \in Got : Alike(e, f)
         /\ \A i \in DOMAIN walk.got : \A e \in walk.from :
              Alike(e, walk.got[i]) /\ RelevantUntil(e) < RelevantUntil(walk.got[i])
                => \E j \in 1 .. i - 1 :
                     Alike(e, walk.got[j]) /\ RelevantUntil(walk.got[j]) <= RelevantUntil(e)

\* A consumer that polls for changes holds the current version of every published
\* event its cursor is past, unless the event shares its updated_at with another,
\* as the instances of a series do, or was committed after the cursor passed.
CaughtUp ==
  \A e \in Published :
    UpdatedAt(e) <= sync.cursor /\ UpdatedAt(e) \notin odd => sync.copy[e] = Version(e)

\* The routes of events agree: what a list or a feed shows can be fetched by its
\* id (but lists and series also name events of suspended accounts, which only the
\* events' own routes look at), the calendar has every series and event there is,
\* RSS shows what the collapsed list begins with, and the next instance of a series
\* is the one a collapsed listing shows.
EventRoutesAgree ==
  /\ \A e \in Visible : EventById(e)
  /\ \A e \in ListedEvents \cup UNION {NextInstances(s) : s \in Series} :
       EventById(e) \/ Suspended(e)
  /\ \A s \in Ordered(Published, [e \in Events |-> RelevantUntil(e)]) :
       LET ics == Ics(s, Len(s)) IN
       /\ \A i \in DOMAIN ics : EventById(ics[i])
       /\ \A e \in Visible : \E i \in DOMAIN ics : Alike(e, ics[i])
  /\ \A s \in Ordered(Relevant, [e \in Events |-> RelevantUntil(e)]) :
       LET listed == Deduplicated(s)
           rss    == Rss(s, 0)
           page   == Page(s, 0, TRUE)
       IN
       /\ \A i \in DOMAIN rss : rss[i] = page[i]
       /\ ~Tied /\ Relevant = Visible /\ (\A f \in Relevant : ~event[f].open) =>
            \A i \in DOMAIN listed : event[listed[i]].series # None =>
              NextInstances(event[listed[i]].series) = {listed[i]}

\* The routes of organizations and broadcasts agree: every filter by verification
\* lists the organizations it names, each shown as verified if it was listed for
\* that; publishers are the organizations that can be fetched as such; a broadcast
\* is listed if its organization is, and can be fetched, it and its place; and
\* apps are told to verify the way the routes then admit.
DirectoryRoutesAgree ==
  /\ LET shown == [o \in {x \in Orgs : OrganizationById(x)} |-> ShownBy(o)] IN
     \A v \in {"true", "false", "any"}, by, notBy \in SUBSET Keys :
       LET f == IdFilter(v, by, notBy) IN
       /\ OrganizationList(f) =
            {o \in DOMAIN shown : /\ v = "true"  => shown[o] # {}
                                  /\ v = "false" => shown[o] = {}
                                  /\ by # {}     => shown[o] \cap by # {}
                                  /\ shown[o] \cap notBy = {}}
       /\ \A b \in BroadcastList(f) : BroadcastById(b) /\ bc[b].o \in OrganizationList(f)
  /\ LET f == IdFilter("any", {}, {}) IN
       PublisherList(f) = {o \in OrganizationList(f) : PublisherById(o)}
  /\ (\E b \in Broadcasts : BroadcastById(b)) => \E p \in Places : PlaceById(p)
  /\ \A o \in Orgs, i \in Ids : OrganizationById(o) =>
       CASE VerificationPath(o, i) = "mail" -> MailAdmits(o, i)
         [] VerificationPath(o, i) = "hand" -> HandAdmits(o, i)
         [] OTHER -> \E x \in verif : x.o = o /\ x.i = i

\* Whatever is written meanwhile, no reader finds one route contradict another.
RoutesAgree == EventRoutesAgree /\ DirectoryRoutesAgree
=============================================================================
