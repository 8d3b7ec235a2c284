------------------------------ MODULE FeedProofs ------------------------------
(***************************************************************************)
(* Theorems about Feed for every set of events and series, every length of *)
(* a page and any number of writes between two requests: a reader has the  *)
(* list it paged through, a consumer of the feed of changes is caught up,  *)
(* and the routes agree.                                                   *)
(***************************************************************************)
EXTENDS Feed, DirectoryProofs, ListProofs
LOCAL INSTANCE SequencesExt

-----------------------------------------------------------------------------
(* Readers and events leave the Directory to itself *)

LEMMA FeedIsNext == [FeedNext]_<<vars, feed>> => [Next]_vars
  BY DEF FeedNext, ReadStep, WalkPage, Poll, WalkStart

\* What service keys write is what Directory says they write, whatever becomes of
\* the events and whoever reads: what is proved of Directory holds here.
THEOREM Feed_Directory == FeedSpec => Spec
  <1>1. [][FeedNext]_<<vars, feed>> => [][Next]_vars
    BY FeedIsNext, PTL
  <1> QED
    BY <1>1 DEF FeedSpec, Spec

-----------------------------------------------------------------------------
(* The table of events and the consumer *)

Table ==
  /\ event \in [Events -> Event] /\ stamp \in 0 .. MaxStamp
  /\ odd \subseteq 1 .. MaxStamp
  /\ sync \in [cursor : 0 .. stamp, copy : [Events -> 0 .. stamp]]
  /\ \A e \in Events : event[e].updated <= stamp

\* rows that share a time of update are known to
Apart ==
  \A e, f \in Events : e # f /\ event[e].updated = event[f].updated /\ event[e].updated > 0
                         => event[e].updated \in odd

LEMMA Several ==
  ASSUME NEW S \in SUBSET Events, NEW e \in S, NEW f \in S, e # f
  PROVE  Cardinality(S) > 1
  <1>1. IsFiniteSet(S) /\ Cardinality(S) \in Nat
    BY BoundAssumption, FS_Subset, FS_CardinalityType
  <1>2. Cardinality(S) # 0
    BY <1>1, FS_EmptySet
  <1>3. Cardinality(S) # 1
    BY <1>1, FS_Singleton
  <1> QED
    BY <1>1, <1>2, <1>3

\* one statement over the rows of S
LEMMA Written ==
  ASSUME Table, Apart, CaughtUp, NEW S \in SUBSET Events, NEW t, Stamped(t, S),
         event' \in [Events -> Event], UNCHANGED sync,
         \A e \in S : event'[e].updated = t,
         \A e \in Events \ S : event'[e] = event[e]
  PROVE  Table' /\ Apart' /\ CaughtUp'
  <1>1. /\ t \in 1 .. MaxStamp /\ stamp' = t /\ stamp \in Nat /\ stamp <= t /\ t <= stamp + 1
        /\ odd \subseteq odd' /\ odd' \subseteq odd \cup {t}
        /\ t = stamp \/ t <= sync.cursor \/ Cardinality(S) > 1 => t \in odd'
    BY BoundAssumption DEF Stamped, Table
  <1>2. \A e \in Events : event[e].updated \in Nat /\ event[e].updated <= stamp
    BY DEF Table, Event
  <1>3. Table'
    <2>1. sync' \in [cursor : 0 .. stamp', copy : [Events -> 0 .. stamp']]
      <3>1. sync.cursor \in 0 .. stamp /\ sync.copy \in [Events -> 0 .. stamp]
            /\ sync = [cursor |-> sync.cursor, copy |-> sync.copy]
        BY DEF Table
      <3>2. 0 .. stamp \subseteq 0 .. stamp'
        BY <1>1
      <3>3. sync.cursor \in 0 .. stamp' /\ sync.copy \in [Events -> 0 .. stamp']
        BY <3>1, <3>2
      <3> QED
        BY <3>1, <3>3
    <2>2. \A e \in Events : event'[e].updated <= stamp'
      BY <1>1, <1>2
    <2> QED
      BY <1>1, <2>1, <2>2, BoundAssumption DEF Table
  <1>4. Apart'
    <2> SUFFICES ASSUME NEW e \in Events, NEW f \in Events, e # f, event'[e].updated > 0,
                        event'[e].updated = event'[f].updated
                 PROVE  event'[e].updated \in odd'
      BY DEF Apart
    <2>1. CASE e \in S /\ f \in S
      BY <1>1, <2>1, Several
    <2>2. CASE e \notin S /\ f \notin S
      BY <1>1, <2>2 DEF Apart
    <2>3. CASE e \in S /\ f \notin S
      BY <1>1, <1>2, <2>3
    <2>4. CASE e \notin S /\ f \in S
      BY <1>1, <1>2, <2>4
    <2> QED
      BY <2>1, <2>2, <2>3, <2>4
  <1>5. CaughtUp'
    <2> SUFFICES ASSUME NEW e \in Events, event'[e].state = "published",
                        event'[e].updated <= sync.cursor, event'[e].updated \notin odd'
                 PROVE  sync.copy[e] = event'[e].updated
      BY DEF CaughtUp, Published, UpdatedAt, Version
    <2>1. e \notin S
      BY <1>1
    <2> QED
      BY <1>1, <2>1 DEF CaughtUp, Published, UpdatedAt, Version
  <1> QED
    BY <1>3, <1>4, <1>5

LEMMA WritesCaughtUp == Table /\ Apart /\ CaughtUp /\ WriteStep /\ UNCHANGED sync => Table' /\ Apart' /\ CaughtUp'
  <1> SUFFICES ASSUME Table, Apart, CaughtUp, WriteStep, UNCHANGED sync PROVE Table' /\ Apart' /\ CaughtUp'
    OBVIOUS
  <1>0. event \in [Events -> Event] /\ \A e \in Events : event[e] \in Event
    BY DEF Table
  <1>1. ASSUME NEW S \in SUBSET Events, NEW o \in Orgs \cup {None}, NEW s \in Series \cup {None},
               NEW open \in BOOLEAN, NEW t \in 1 .. MaxStamp, NEW start \in [S -> 0 .. Horizon],
               Insert(S, o, s, start, open, t)
        PROVE  Table' /\ Apart' /\ CaughtUp'
    <2> DEFINE Row(e) == [state |-> "published", o |-> o, series |-> s, start |-> start[e],
                          open |-> open, updated |-> t]
    <2>1. t \in 0 .. MaxStamp
      OBVIOUS
    <2>2. \A e \in S : Row(e) \in Event
      BY <2>1 DEF Event
    <2>3. event' = [e \in Events |-> IF e \notin S THEN event[e] ELSE Row(e)] /\ Stamped(t, S)
      BY <1>1 DEF Insert
    <2>4. \A e \in S : Row(e).updated = t
      OBVIOUS
    <2> HIDE DEF Row
    <2>5. event' \in [Events -> Event]
      BY <1>0, <2>2, <2>3
    <2>6. /\ \A e \in S : event'[e].updated = t
          /\ \A e \in Events \ S : event'[e] = event[e]
      BY <2>3, <2>4
    <2> QED
      BY <2>3, <2>5, <2>6, Written
  <1>2. ASSUME NEW S \in SUBSET Events, NEW t \in 1 .. MaxStamp, Rewrite(S, t)
        PROVE  Table' /\ Apart' /\ CaughtUp'
    <2>1. \A e \in Events : /\ [event[e] EXCEPT !.updated = t] \in Event
                            /\ [event[e] EXCEPT !.updated = t].updated = t
      BY <1>0, BoundAssumption DEF Event
    <2>2. /\ event' = [e \in Events |-> IF e \in S THEN [event[e] EXCEPT !.updated = t] ELSE event[e]]
          /\ Stamped(t, S)
      BY <1>2 DEF Rewrite
    <2>3. event' \in [Events -> Event]
      BY <1>0, <2>1, <2>2
    <2>4. /\ \A e \in S : event'[e].updated = t
          /\ \A e \in Events \ S : event'[e] = event[e]
      BY <2>1, <2>2
    <2> QED
      BY <2>2, <2>3, <2>4, Written
  \* one row
  <1>a. ASSUME NEW e \in Events, NEW t \in 1 .. MaxStamp, Stamped(t, {e}), NEW row \in Event,
               row.updated = t, event' = [event EXCEPT ![e] = row]
        PROVE  Table' /\ Apart' /\ CaughtUp'
    <2>1. event' \in [Events -> Event] /\ event'[e] = row /\ \A f \in Events \ {e} : event'[f] = event[f]
      BY <1>0, <1>a
    <2> QED
      BY <1>a, <2>1, Written
  <1>3. ASSUME NEW e \in Events, NEW start \in 0 .. Horizon, NEW t \in 1 .. MaxStamp,
               Reschedule(e, start, t)
        PROVE  Table' /\ Apart' /\ CaughtUp'
    <2> DEFINE row == [event[e] EXCEPT !.start = start, !.updated = t]
    <2>1. row \in Event /\ row.updated = t
      <3>1. t \in 0 .. MaxStamp /\ event[e] \in Event
        BY <1>0
      <3> QED
        BY <3>1 DEF Event
    <2>2. event' = [event EXCEPT ![e] = row] /\ Stamped(t, {e})
      BY <1>0, <1>3 DEF Reschedule, Event
    <2> HIDE DEF row
    <2> QED
      BY <1>a, <2>1, <2>2
  <1>4. ASSUME NEW e \in Events, NEW t \in 1 .. MaxStamp, SetStatus(e, t)
        PROVE  Table' /\ Apart' /\ CaughtUp'
    <2> DEFINE st == IF event[e].state = "published" THEN "hidden" ELSE "published"
               row == [event[e] EXCEPT !.state = st, !.updated = t]
    <2>1. row \in Event /\ row.updated = t
      <3>1. t \in 0 .. MaxStamp /\ event[e] \in Event
        BY <1>0
      <3> QED
        BY <3>1 DEF Event
    <2>2. event' = [event EXCEPT ![e] = row] /\ Stamped(t, {e})
      BY <1>0, <1>4 DEF SetStatus, Event
    <2> HIDE DEF row
    <2> QED
      BY <1>a, <2>1, <2>2
  <1>5. ASSUME NEW e \in Events, Delete(e) PROVE Table' /\ Apart' /\ CaughtUp'
    <2> DEFINE row == [event[e] EXCEPT !.state = "gone"]
    <2>1. row \in Event /\ row.updated = event[e].updated /\ row.state = "gone"
      BY <1>0 DEF Event
    <2>2. event' = [event EXCEPT ![e] = row] /\ UNCHANGED <<now, stamp, odd, sync>>
      BY <1>5 DEF Delete
    <2> HIDE DEF row
    <2>3. /\ event' \in [Events -> Event]
          /\ \A f \in Events : event'[f].updated = event[f].updated
          /\ \A f \in Events : event'[f].state = "published" => event[f].state = "published"
      BY <1>0, <2>1, <2>2
    <2>4. Table' /\ Apart'
      BY <2>2, <2>3 DEF Table, Apart
    <2>5. CaughtUp'
      BY <2>2, <2>3 DEF CaughtUp, Published, UpdatedAt, Version
    <2> QED
      BY <2>4, <2>5
  <1>6. CASE Tick
    BY <1>6 DEF Tick, Table, Apart, CaughtUp, Published, UpdatedAt, Version
  <1> QED
    BY <1>1, <1>2, <1>3, <1>4, <1>5, <1>6 DEF WriteStep

-----------------------------------------------------------------------------
(* A page of the feed *)

\* all of a finite set, in the order of a column
LEMMA OrderedIs ==
  ASSUME NEW S \in SUBSET Events, NEW column, NEW s \in Ordered(S, column)
  PROVE  /\ s \in Seq(S) /\ Len(s) = Cardinality(S) /\ Cardinality(S) \in Nat
         /\ \A i, j \in 1 .. Len(s) : i # j => s[i] # s[j]
         /\ \A i, j \in 1 .. Len(s) : i < j => column[s[i]] <= column[s[j]]
         /\ \A e \in S : \E i \in 1 .. Len(s) : s[i] = e
  <1>1. IsFiniteSet(S) /\ Cardinality(S) \in Nat
    BY BoundAssumption, FS_Subset, FS_CardinalityType
  <1>2. s \in [1 .. Cardinality(S) -> S] /\ \A i, j \in 1 .. Cardinality(S) : i # j => s[i] # s[j]
    BY DEF Ordered, SetToSeqs
  <1>3. s \in Seq(S) /\ Len(s) = Cardinality(S)
    BY <1>1, <1>2
  <1>4. \A i, j \in 1 .. Len(s) : i < j => column[s[i]] <= column[s[j]]
    BY <1>2, <1>3 DEF Ordered
  <1>5. \A e \in S : \E i \in 1 .. Len(s) : s[i] = e
    <2> SUFFICES ASSUME NEW e \in S, \A i \in 1 .. Len(s) : s[i] # e PROVE FALSE
      OBVIOUS
    <2> DEFINE D == 1 .. Cardinality(S)
               T == S \ {e}
    <2>1. IsFiniteSet(D) /\ Cardinality(D) = Cardinality(S)
      BY <1>1, FS_Interval
    <2>2. IsFiniteSet(T) /\ Cardinality(T) = Cardinality(S) - 1
      BY <1>1, FS_RemoveElement
    <2>3. Cardinality(T) < Cardinality(D)
      BY <1>1, <2>1, <2>2
    <2>4. s \in [D -> T] /\ \A i, j \in D : i # j => s[i] # s[j]
      BY <1>2, <1>3
    <2> HIDE DEF D, T
    <2>5. \E i, j \in D : i # j /\ s[i] = s[j]
      BY <2>1, <2>2, <2>3, <2>4, FS_PigeonHole
    <2> QED
      BY <2>4, <2>5
  <1> QED
    BY <1>1, <1>2, <1>3, <1>4, <1>5

LEMMA PollCaughtUp == Table /\ Apart /\ CaughtUp /\ Poll => Table' /\ Apart' /\ CaughtUp'
  <1> SUFFICES ASSUME Table, Apart, CaughtUp, Poll PROVE Table' /\ Apart' /\ CaughtUp'
    OBVIOUS
  <1> DEFINE S == {e \in Published : UpdatedAt(e) > sync.cursor}
             column == [e \in Events |-> UpdatedAt(e)]
  <1>0. /\ S \in SUBSET Events /\ UNCHANGED <<event, now, stamp, odd>>
        /\ \A e \in Events : column[e] = event[e].updated /\ event[e].updated \in 0 .. stamp
        /\ \A e \in Events : e \in S <=> event[e].state = "published" /\ event[e].updated > sync.cursor
        /\ sync.cursor \in 0 .. stamp /\ stamp \in Nat
        /\ sync.copy \in [Events -> 0 .. stamp]
    BY BoundAssumption DEF Table, Event, Poll, Published, UpdatedAt, table
  <1>1. PICK s \in Ordered(S, column) :
          LET page == RowsAt(s, 0, Limit) IN
          /\ page # <<>>
          /\ sync' = [cursor |-> Cursor(page),
                      copy   |-> [e \in Events |-> IF \E i \in DOMAIN page : page[i] = e
                                                   THEN Version(e) ELSE sync.copy[e]]]
    BY DEF Poll
  <1> HIDE DEF S, column
  <1>2. /\ s \in Seq(S) /\ Len(s) \in Nat
        /\ \A i, j \in 1 .. Len(s) : i # j => s[i] # s[j]
        /\ \A i, j \in 1 .. Len(s) : i < j => column[s[i]] <= column[s[j]]
        /\ \A e \in S : \E i \in 1 .. Len(s) : s[i] = e
    BY <1>0, OrderedIs
  <1> DEFINE n == IF Limit < Len(s) THEN Limit ELSE Len(s)
             page == SubSeq(s, 1, n)
  <1>3. RowsAt(s, 0, Limit) = page
    BY PageAssumption DEF RowsAt
  <1>4. n \in 0 .. Len(s)
    BY <1>2, PageAssumption
  <1> HIDE DEF n
  <1>5. page \in Seq(S) /\ Len(page) = n /\ DOMAIN page = 1 .. n /\ \A i \in 1 .. n : page[i] = s[i]
    BY <1>2, <1>4
  <1>6. n \in 1 .. Len(s)
    <2>1. page # <<>>
      BY <1>1, <1>3
    <2>2. n # 0
      BY <1>5, <2>1
    <2> QED
      BY <1>2, <1>4, <2>2
  <1> HIDE DEF page
  <1>7. /\ sync'.cursor = event[s[n]].updated
        /\ sync' = [cursor |-> sync'.cursor, copy |-> sync'.copy]
        /\ sync'.copy = [e \in Events |-> IF \E i \in 1 .. n : s[i] = e THEN event[e].updated
                                                                       ELSE sync.copy[e]]
    <2>1. sync' = [cursor |-> Cursor(page),
                   copy   |-> [e \in Events |-> IF \E i \in DOMAIN page : page[i] = e
                                                THEN Version(e) ELSE sync.copy[e]]]
      BY <1>1, <1>3
    <2>2. page # <<>> /\ Cursor(page) = event[s[n]].updated
      BY <1>1, <1>3, <1>5, <1>6 DEF Cursor, UpdatedAt
    <2>3. \A e : (\E i \in DOMAIN page : page[i] = e) <=> \E i \in 1 .. n : s[i] = e
      BY <1>5
    <2> QED
      BY <2>1, <2>2, <2>3 DEF Version
  <1>8. s[n] \in S /\ s[n] \in Events
    BY <1>0, <1>2, <1>6
  <1>9. Table'
    <2>1. sync'.cursor \in 0 .. stamp /\ sync'.copy \in [Events -> 0 .. stamp]
      BY <1>0, <1>7, <1>8
    <2>2. sync' \in [cursor : 0 .. stamp, copy : [Events -> 0 .. stamp]]
      BY <1>7, <2>1
    <2> QED
      BY <1>0, <2>2 DEF Table
  <1>10. Apart'
    BY <1>0 DEF Apart
  <1>11. CaughtUp'
    <2> SUFFICES ASSUME NEW e \in Events, event[e].state = "published",
                        event[e].updated <= sync'.cursor, event[e].updated \notin odd
                 PROVE  sync'.copy[e] = event[e].updated
      BY <1>0 DEF CaughtUp, Published, UpdatedAt, Version
    <2>1. CASE event[e].updated <= sync.cursor
      <3>1. e \notin S
        BY <1>0, <2>1
      <3>2. \A i \in 1 .. n : s[i] # e
        BY <1>2, <1>6, <3>1
      <3>3. sync.copy[e] = event[e].updated
        BY <2>1 DEF CaughtUp, Published, UpdatedAt, Version
      <3> QED
        BY <1>7, <3>2, <3>3
    <2>2. CASE event[e].updated > sync.cursor
      <3>1. e \in S
        BY <1>0, <2>2
      <3>2. PICK i \in 1 .. Len(s) : s[i] = e
        BY <1>2, <3>1
      <3>3. CASE i <= n
        BY <1>6, <1>7, <3>2, <3>3
      <3>4. CASE n < i
        <4>1. s[n] # e /\ event[s[n]].updated <= event[e].updated
          <5>1. n \in 1 .. Len(s) /\ n \in Int /\ i \in Int /\ n # i
            BY <1>2, <1>6, <3>4
          <5>2. s[n] # s[i] /\ column[s[n]] <= column[s[i]]
            BY <1>2, <3>4, <5>1
          <5> QED
            BY <1>0, <1>8, <3>2, <5>2
        <4>2. event[s[n]].updated = event[e].updated /\ event[e].updated > 0
          BY <1>0, <1>7, <1>8, <2>2, <4>1
        <4> QED
          BY <1>8, <4>1, <4>2 DEF Apart
      <3> QED
        BY <1>6, <3>2, <3>3, <3>4
    <2> QED
      BY <1>0, <2>1, <2>2
  <1> QED
    BY <1>9, <1>10, <1>11

-----------------------------------------------------------------------------
(* What the lists of events are made of *)

LEMMA RowsIs ==
  ASSUME NEW S, NEW s \in Seq(S), NEW offset \in Nat, NEW n \in Nat
  PROVE  /\ RowsAt(s, offset, n) \in Seq(S) /\ Len(RowsAt(s, offset, n)) \in Nat
         /\ \A i \in 1 .. Len(RowsAt(s, offset, n)) :
              /\ i <= n /\ offset + i \in 1 .. Len(s)
              /\ RowsAt(s, offset, n)[i] = s[offset + i]
         /\ \A p \in 1 .. Len(s) : offset < p /\ p <= offset + n =>
              p - offset \in 1 .. Len(RowsAt(s, offset, n))
  <1> DEFINE last == IF offset + n < Len(s) THEN offset + n ELSE Len(s)
             rows == RowsAt(s, offset, n)
  <1>1. Len(s) \in Nat /\ last \in Nat /\ last <= Len(s) /\ last <= offset + n
        /\ (offset + n <= last \/ last = Len(s))
    OBVIOUS
  <1>2. rows = SubSeq(s, offset + 1, last)
    BY DEF RowsAt
  <1> HIDE DEF last
  <1>3. CASE last <= offset
    <2>1. rows = << >>
      BY <1>1, <1>2, <1>3
    <2>2. rows \in Seq(S) /\ Len(rows) = 0
      BY <2>1
    <2> HIDE DEF rows
    <2>3. \A p \in 1 .. Len(s) : ~(offset < p /\ p <= offset + n)
      BY <1>1, <1>3
    <2> QED
      BY <2>2, <2>3 DEF rows
  <1>4. CASE offset < last
    <2>1. rows \in Seq(S) /\ Len(rows) = last - offset
          /\ \A i \in 1 .. last - offset : rows[i] = s[offset + i]
      <3>1. \A i \in (offset + 1) .. last : s[i] \in S
        BY <1>1
      <3>2. SubSeq(s, offset + 1, last) = [i \in 1 .. last - offset |-> s[offset + i]]
        BY <1>1, <1>4
      <3>3. \A i \in 1 .. last - offset : s[offset + i] \in S
        BY <1>1, <1>4
      <3> DEFINE m == last - offset
      <3>4. m \in Nat
        BY <1>1, <1>4
      <3>5. rows = [i \in 1 .. m |-> s[offset + i]] /\ \A i \in 1 .. m : s[offset + i] \in S
        BY <1>2, <3>2, <3>3
      <3> HIDE DEF m, rows
      <3>6. rows \in [1 .. m -> S] /\ \A i \in 1 .. m : rows[i] = s[offset + i]
        BY <3>5
      <3>7. rows \in Seq(S) /\ Len(rows) = m
        BY <3>4, <3>6
      <3> QED
        BY <3>6, <3>7 DEF m
    <2> HIDE DEF rows
    <2>2. \A i \in 1 .. last - offset : i <= n /\ offset + i \in 1 .. Len(s)
      BY <1>1, <1>4
    <2>3. \A p \in 1 .. Len(s) : offset < p /\ p <= offset + n => p - offset \in 1 .. last - offset
      BY <1>1, <1>4
    <2>4. last - offset \in Nat
      BY <1>1, <1>4
    <2> QED
      BY <2>1, <2>2, <2>3, <2>4 DEF rows
  <1> QED
    BY <1>1, <1>3, <1>4

\* t is the rows of a page whose accounts are not suspended, each once, in their
\* order; at tells where they stand
IsShown(t, at, s, offset, n) ==
  /\ at \in [1 .. Len(t) -> 1 .. Len(s)]
  /\ \A k \in 1 .. Len(t) : /\ offset < at[k] /\ at[k] <= offset + n /\ k <= at[k] - offset
                             /\ t[k] = s[at[k]] /\ ~Suspended(s[at[k]])
  /\ \A j, k \in 1 .. Len(t) : j < k => at[j] < at[k]
  /\ \A p \in 1 .. Len(s) : offset < p /\ p <= offset + n /\ ~Suspended(s[p]) =>
       \E k \in 1 .. Len(t) : at[k] = p

LEMMA ShownIs ==
  ASSUME NEW S, NEW s \in Seq(S), NEW offset \in Nat, NEW n \in Nat
  PROVE  /\ Shown(s, offset, n) \in Seq(S) /\ Len(Shown(s, offset, n)) \in Nat
         /\ \E at : IsShown(Shown(s, offset, n), at, s, offset, n)
  <1> DEFINE rows == RowsAt(s, offset, n)
             P    == {i \in DOMAIN rows : ~Suspended(rows[i])}
             at   == [k \in 1 .. Cardinality(P) |-> offset + Nth(P, k)]
  <1>1. /\ rows \in Seq(S) /\ Len(rows) \in Nat /\ Len(s) \in Nat
        /\ \A i \in 1 .. Len(rows) : i <= n /\ offset + i \in 1 .. Len(s) /\ rows[i] = s[offset + i]
        /\ \A p \in 1 .. Len(s) : offset < p /\ p <= offset + n => p - offset \in 1 .. Len(rows)
    BY RowsIs
  <1>2. Shown(s, offset, n) = Kept(rows, P)
    BY DEF Shown
  <1> HIDE DEF rows
  <1>3. P \in SUBSET (1 .. Len(rows))
    BY <1>1
  <1>3a. \A i \in 1 .. Len(rows) : i \in P <=> ~Suspended(rows[i])
    BY <1>1
  <1> HIDE DEF P
  <1>4. /\ Cardinality(P) \in 0 .. Len(rows)
        /\ Kept(rows, P) \in Seq(S) /\ Len(Kept(rows, P)) = Cardinality(P)
        /\ \A k \in 1 .. Cardinality(P) : /\ Nth(P, k) \in P /\ k <= Nth(P, k)
                                         /\ Kept(rows, P)[k] = rows[Nth(P, k)]
        /\ \A i \in P : \E k \in 1 .. Cardinality(P) : Nth(P, k) = i
    BY <1>1, <1>3, KeptIs
  <1>4a. \A j, k \in 1 .. Cardinality(P) : j < k => Nth(P, j) < Nth(P, k)
    BY <1>1, <1>3, KeptIs
  <1>5. Cardinality(P) \in Nat
    BY <1>1, <1>4
  <1>6. ASSUME NEW k \in 1 .. Cardinality(P)
        PROVE  /\ at[k] \in 1 .. Len(s) /\ offset < at[k] /\ at[k] <= offset + n /\ k <= at[k] - offset
               /\ Kept(rows, P)[k] = s[at[k]] /\ ~Suspended(s[at[k]])
    <2> PICK i \in P : i = Nth(P, k)
      BY <1>4
    <2>1. at[k] = offset + i /\ i \in 1 .. Len(rows) /\ k <= i /\ Kept(rows, P)[k] = rows[i]
      BY <1>3, <1>4
    <2>2. i <= n /\ offset + i \in 1 .. Len(s) /\ rows[i] = s[offset + i] /\ ~Suspended(rows[i])
      BY <1>1, <1>3a, <2>1
    <2>3. i \in Nat /\ i >= 1 /\ k \in Nat
      BY <1>1, <1>5, <2>1
    <2> HIDE DEF at
    <2> QED
      BY <1>1, <2>1, <2>2, <2>3
  <1>7. \A j, k \in 1 .. Cardinality(P) : j < k => at[j] < at[k]
    <2> SUFFICES ASSUME NEW j \in 1 .. Cardinality(P), NEW k \in 1 .. Cardinality(P), j < k
                 PROVE  at[j] < at[k]
      OBVIOUS
    <2>1. Nth(P, j) < Nth(P, k) /\ Nth(P, j) \in P /\ Nth(P, k) \in P
      BY <1>4, <1>4a
    <2>2. Nth(P, j) \in Int /\ Nth(P, k) \in Int
      <3>1. \A i \in P : i \in Int
        BY <1>1, <1>3
      <3> QED
        BY <2>1, <3>1
    <2> DEFINE x == Nth(P, j)
               y == Nth(P, k)
    <2>3. x \in Int /\ y \in Int /\ x < y
      BY <2>1, <2>2
    <2> HIDE DEF x, y
    <2>4. offset + x < offset + y
      BY <2>3
    <2> QED
      BY <2>4 DEF x, y
  <1>8. ASSUME NEW p \in 1 .. Len(s), offset < p, p <= offset + n, ~Suspended(s[p])
        PROVE  \E k \in 1 .. Cardinality(P) : at[k] = p
    <2>1. p - offset \in 1 .. Len(rows) /\ offset + (p - offset) = p
      BY <1>1, <1>8
    <2>2. rows[p - offset] = s[p]
      BY <1>1, <2>1
    <2>3. p - offset \in P
      BY <1>3a, <1>8, <2>1, <2>2
    <2>4. PICK k \in 1 .. Cardinality(P) : Nth(P, k) = p - offset
      BY <1>4, <2>3
    <2> QED
      BY <2>1, <2>4
  <1>9. at \in [1 .. Cardinality(P) -> 1 .. Len(s)]
    BY <1>6
  <1> HIDE DEF at
  <1>10. Shown(s, offset, n) \in Seq(S) /\ Len(Shown(s, offset, n)) = Cardinality(P)
    BY <1>2, <1>4
  <1>11. \A k \in 1 .. Cardinality(P) :
           /\ offset < at[k] /\ at[k] <= offset + n /\ k <= at[k] - offset
           /\ Shown(s, offset, n)[k] = s[at[k]] /\ ~Suspended(s[at[k]])
    BY <1>2, <1>6
  <1>12. \A p \in 1 .. Len(s) : offset < p /\ p <= offset + n /\ ~Suspended(s[p]) =>
           \E k \in 1 .. Cardinality(P) : at[k] = p
    BY <1>8
  <1>13. IsShown(Shown(s, offset, n), at, s, offset, n)
    BY <1>7, <1>9, <1>10, <1>11, <1>12 DEF IsShown
  <1> QED
    BY <1>5, <1>10, <1>13

SameSeries(e, f) == event[e].series # None /\ event[e].series = event[f].series

\* d is the first of each series of t, and stands for those after it
IsDeduplicated(d, at, t) ==
  /\ at \in [1 .. Len(d) -> 1 .. Len(t)]
  /\ \A k \in 1 .. Len(d) : /\ k <= at[k] /\ d[k] = t[at[k]]
                             /\ \A j \in 1 .. at[k] - 1 : ~SameSeries(t[j], t[at[k]])
  /\ \A a \in 1 .. Len(t) : \E k \in 1 .. Len(d) :
       k <= a /\ at[k] <= a /\ Alike(t[a], t[at[k]])

LEMMA DeduplicatedIs ==
  ASSUME NEW S, NEW t \in Seq(S)
  PROVE  /\ Deduplicated(t) \in Seq(S) /\ Len(Deduplicated(t)) \in Nat
         /\ \E at : IsDeduplicated(Deduplicated(t), at, t)
  <1> DEFINE P  == {i \in DOMAIN t : \/ event[t[i]].series = None
                                    \/ \A j \in 1 .. i - 1 : event[t[j]].series # event[t[i]].series}
             at == [k \in 1 .. Cardinality(P) |-> Nth(P, k)]
  <1>1. Deduplicated(t) = Kept(t, P)
    BY DEF Deduplicated
  <1>2. P \in SUBSET (1 .. Len(t)) /\ Len(t) \in Nat
    OBVIOUS
  <1>3. \A i \in 1 .. Len(t) : i \in P <=> \A j \in 1 .. i - 1 : ~SameSeries(t[j], t[i])
    BY DEF SameSeries
  <1> HIDE DEF P
  <1>4. /\ Cardinality(P) \in 0 .. Len(t)
        /\ Kept(t, P) \in Seq(S) /\ Len(Kept(t, P)) = Cardinality(P)
        /\ \A k \in 1 .. Cardinality(P) : /\ Nth(P, k) \in P /\ k <= Nth(P, k)
                                         /\ Kept(t, P)[k] = t[Nth(P, k)]
        /\ \A i \in P : \E k \in 1 .. Cardinality(P) : Nth(P, k) = i
    BY <1>2, KeptIs
  <1>5. Cardinality(P) \in Nat
    BY <1>2, <1>4
  <1>6. ASSUME NEW k \in 1 .. Cardinality(P)
        PROVE  /\ at[k] \in 1 .. Len(t) /\ k <= at[k] /\ Kept(t, P)[k] = t[at[k]]
               /\ \A j \in 1 .. at[k] - 1 : ~SameSeries(t[j], t[at[k]])
    <2>1. at[k] \in P /\ k <= at[k] /\ Kept(t, P)[k] = t[at[k]]
      BY <1>4
    <2> HIDE DEF at
    <2> QED
      BY <1>2, <1>3, <2>1
  <1>7. ASSUME NEW a \in 1 .. Len(t)
        PROVE  \E k \in 1 .. Cardinality(P) : k <= a /\ at[k] <= a /\ Alike(t[a], t[at[k]])
    <2> DEFINE Q == {j \in 1 .. a : Alike(t[a], t[j])}
    <2>1. Q \in SUBSET Int /\ IsFiniteSet(Q) /\ Q # {}
      <3>1. a \in Q
        BY DEF Alike
      <3>2. IsFiniteSet(1 .. a)
        BY <1>2, FS_Interval
      <3>3. IsFiniteSet(Q)
        BY <3>2, FS_Subset
      <3> QED
        BY <3>1, <3>3
    <2>2. PICK b \in Q : \A y \in Q : b <= y
      BY <2>1, Least
    <2>3. b \in 1 .. a /\ b \in 1 .. Len(t) /\ Alike(t[a], t[b])
      BY <1>2
    <2>4. ASSUME NEW j \in 1 .. b - 1, SameSeries(t[j], t[b]) PROVE FALSE
      <3>1. Alike(t[a], t[j])
        BY <2>3, <2>4 DEF Alike, SameSeries
      <3>2. j \in 1 .. a /\ j < b
        BY <1>2, <2>3
      <3>3. j \in Q
        BY <3>1, <3>2
      <3>4. b <= j
        BY <2>2, <3>3
      <3> QED
        BY <1>2, <2>3, <3>2, <3>4
    <2>5. b \in P
      BY <1>3, <2>3, <2>4
    <2>6. PICK k \in 1 .. Cardinality(P) : Nth(P, k) = b
      BY <1>4, <2>5
    <2>7. k <= b /\ at[k] = b
      BY <1>4, <2>6
    <2>8. k <= a
      BY <1>2, <1>5, <2>3, <2>7
    <2> HIDE DEF at
    <2> QED
      BY <1>2, <2>3, <2>7, <2>8
  <1>8. at \in [1 .. Cardinality(P) -> 1 .. Len(t)]
    BY <1>6
  <1> HIDE DEF at
  <1>9. IsDeduplicated(Deduplicated(t), at, t)
    BY <1>1, <1>4, <1>6, <1>7, <1>8 DEF IsDeduplicated
  <1> QED
    BY <1>1, <1>4, <1>5, <1>9

LEMMA AtLeast == ASSUME NEW n \in Nat, NEW m \in Nat \ {0} PROVE n * m \in Nat /\ n <= n * m
  <1>1. m - 1 \in Nat /\ n * m = n + n * (m - 1)
    OBVIOUS
  <1>2. n * (m - 1) \in Nat
    BY <1>1
  <1> QED
    BY <1>1, <1>2

\* page begins what is collapsed of the rows from an offset on: each event of it is
\* the first of its series among them, and the next Limit rows are all stood for
IsCollapsed(page, s, offset) ==
  /\ \A k \in 1 .. Len(page) : \E p \in 1 .. Len(s) :
       /\ offset < p /\ page[k] = s[p] /\ ~Suspended(s[p])
       /\ \A q \in 1 .. Len(s) : offset < q /\ q < p /\ ~Suspended(s[q]) => ~SameSeries(s[q], s[p])
  /\ \A p \in 1 .. Len(s) : offset < p /\ p <= offset + Limit /\ ~Suspended(s[p]) =>
       \E k \in 1 .. Len(page) : \E q \in 1 .. Len(s) :
         q <= p /\ page[k] = s[q] /\ Alike(s[p], s[q])

LEMMA CollapsedIs ==
  ASSUME NEW S, NEW s \in Seq(S), NEW offset \in Nat, NEW pages \in Nat \ {0}
  PROVE  /\ Collapsed(s, offset, pages) \in Seq(S) /\ Len(Collapsed(s, offset, pages)) \in Nat
         /\ IsCollapsed(Collapsed(s, offset, pages), s, offset)
  <1> DEFINE n    == Limit * pages
             t    == Shown(s, offset, n)
             d    == Deduplicated(t)
             page == RowsAt(d, 0, Limit)
  <1>0. Limit \in Nat /\ n \in Nat /\ Limit <= n /\ Collapsed(s, offset, pages) = page
    BY PageAssumption, AtLeast DEF Collapsed
  <1> HIDE DEF n
  <1>1. t \in Seq(S) /\ Len(t) \in Nat /\ \E at : IsShown(t, at, s, offset, n)
    BY <1>0, ShownIs
  <1> HIDE DEF t
  <1>2. d \in Seq(S) /\ Len(d) \in Nat /\ \E at : IsDeduplicated(d, at, t)
    BY <1>1, DeduplicatedIs
  <1> HIDE DEF d
  <1>3. /\ page \in Seq(S) /\ Len(page) \in Nat
        /\ \A i \in 1 .. Len(page) : i <= Limit /\ 0 + i \in 1 .. Len(d) /\ page[i] = d[0 + i]
        /\ \A p \in 1 .. Len(d) : 0 < p /\ p <= 0 + Limit => p - 0 \in 1 .. Len(page)
    BY <1>0, <1>2, RowsIs
  <1> HIDE DEF page
  <1>4. /\ \A i \in 1 .. Len(page) : i \in 1 .. Len(d) /\ page[i] = d[i]
        /\ \A i \in 1 .. Len(d) : i <= Limit => i \in 1 .. Len(page)
    BY <1>0, <1>2, <1>3
  <1>5. PICK to : IsShown(t, to, s, offset, n)
    BY <1>1
  <1>6. PICK of : IsDeduplicated(d, of, t)
    BY <1>2
  <1>7. /\ \A k \in 1 .. Len(t) : /\ to[k] \in 1 .. Len(s)
                                  /\ offset < to[k] /\ to[k] <= offset + n /\ k <= to[k] - offset
                                  /\ t[k] = s[to[k]] /\ ~Suspended(s[to[k]])
        /\ \A j, k \in 1 .. Len(t) : j < k => to[j] < to[k]
        /\ \A p \in 1 .. Len(s) : offset < p /\ p <= offset + n /\ ~Suspended(s[p]) =>
             \E k \in 1 .. Len(t) : to[k] = p
    BY <1>5 DEF IsShown
  <1>8. /\ \A k \in 1 .. Len(d) : /\ of[k] \in 1 .. Len(t) /\ k <= of[k] /\ d[k] = t[of[k]]
                                  /\ \A j \in 1 .. of[k] - 1 : ~SameSeries(t[j], t[of[k]])
        /\ \A a \in 1 .. Len(t) : \E k \in 1 .. Len(d) :
             k <= a /\ of[k] <= a /\ Alike(t[a], t[of[k]])
    BY <1>6 DEF IsDeduplicated
  <1>9. ASSUME NEW k \in 1 .. Len(page)
        PROVE  \E p \in 1 .. Len(s) :
                 /\ offset < p /\ page[k] = s[p] /\ ~Suspended(s[p])
                 /\ \A q \in 1 .. Len(s) : offset < q /\ q < p /\ ~Suspended(s[q]) => ~SameSeries(s[q], s[p])
    <2>1. k \in 1 .. Len(d) /\ page[k] = d[k]
      BY <1>4
    <2>2. PICK b \in 1 .. Len(t) : b = of[k] /\ d[k] = t[b] /\ \A j \in 1 .. b - 1 : ~SameSeries(t[j], t[b])
      BY <1>8, <2>1
    <2>3. PICK p \in 1 .. Len(s) : p = to[b] /\ offset < p /\ p <= offset + n /\ t[b] = s[p] /\ ~Suspended(s[p])
      BY <1>7
    <2>4. ASSUME NEW q \in 1 .. Len(s), offset < q, q < p, ~Suspended(s[q]) PROVE ~SameSeries(s[q], s[p])
      <3>1. q <= offset + n
        BY <1>0, <2>3, <2>4
      <3>2. PICK j \in 1 .. Len(t) : to[j] = q
        BY <1>7, <2>4, <3>1
      <3>3. t[j] = s[q]
        BY <1>7, <3>2
      <3>4. j < b
        <4>1. b < j => p < q
          BY <1>7, <2>3, <3>2
        <4>2. b # j /\ ~(p < q)
          BY <2>3, <2>4, <3>2
        <4> QED
          BY <1>1, <4>1, <4>2
      <3>5. j \in 1 .. b - 1
        BY <1>1, <3>4
      <3> QED
        BY <2>2, <2>3, <3>3, <3>5
    <2> QED
      BY <2>1, <2>2, <2>3, <2>4
  <1>10. ASSUME NEW p \in 1 .. Len(s), offset < p, p <= offset + Limit, ~Suspended(s[p])
         PROVE  \E k \in 1 .. Len(page) : \E q \in 1 .. Len(s) :
                  q <= p /\ page[k] = s[q] /\ Alike(s[p], s[q])
    <2>1. p <= offset + n /\ Len(s) \in Nat /\ p \in Nat
      BY <1>0, <1>10
    <2>2. PICK a \in 1 .. Len(t) : to[a] = p
      BY <1>7, <1>10, <2>1
    <2>3. a <= p - offset /\ t[a] = s[p]
      BY <1>7, <2>2
    <2>4. PICK k \in 1 .. Len(d) : k <= a /\ of[k] <= a /\ Alike(t[a], t[of[k]])
      BY <1>8
    <2>5. PICK b \in 1 .. Len(t) : b = of[k] /\ d[k] = t[b]
      BY <1>8
    <2>6. PICK q \in 1 .. Len(s) : q = to[b] /\ t[b] = s[q]
      BY <1>7
    <2>7. q <= p
      <3>1. b < a => q < p
        BY <1>7, <2>2, <2>6
      <3>2. b = a => q = p
        BY <2>2, <2>6
      <3>3. b <= a
        BY <2>4, <2>5
      <3> QED
        BY <1>1, <2>1, <3>1, <3>2, <3>3
    <2>8. k <= Limit
      BY <1>0, <1>1, <1>2, <1>10, <2>1, <2>3, <2>4
    <2>9. k \in 1 .. Len(page) /\ page[k] = s[q]
      BY <1>4, <2>5, <2>6, <2>8
    <2> QED
      BY <2>3, <2>4, <2>5, <2>6, <2>7, <2>9
  <1>11. IsCollapsed(page, s, offset)
    BY <1>9, <1>10 DEF IsCollapsed
  <1> QED
    BY <1>0, <1>3, <1>11

-----------------------------------------------------------------------------
(* The reader that pages, its type and its list *)

Reader == [pc : {"idle", "on", "done"}, collapse : BOOLEAN, offset : Nat, got : Seq(Events),
           from : SUBSET Events, left : BOOLEAN, came : BOOLEAN, tied : BOOLEAN]

Listing == Table /\ now \in 0 .. Horizon /\ walk \in Reader

\* the page of every order of the relevant events is a list of events
LEMMA Times ==
  ASSUME Table
  PROVE  /\ \A e \in Events : RelevantUntil(e) \in Nat
         /\ Visible \subseteq Relevant /\ Relevant \subseteq Events
         /\ IsFiniteSet(Relevant) /\ Cardinality(Relevant) \in Nat
  <1>1. \A e \in Events : event[e].start \in 0 .. Horizon
    BY DEF Table, Event
  <1>2. \A e \in Events : RelevantUntil(e) \in Nat
    BY <1>1, BoundAssumption DEF RelevantUntil
  <1>3. Visible \subseteq Relevant /\ Relevant \subseteq Events
    BY DEF Visible, Relevant, Published
  <1> QED
    BY <1>2, <1>3, BoundAssumption, FS_Subset, FS_CardinalityType

LEMMA PageIs ==
  ASSUME NEW S \in SUBSET Events, NEW s \in Seq(S), NEW offset \in Nat, NEW collapse \in BOOLEAN
  PROVE  Page(s, offset, collapse) \in Seq(Events)
  <1>1. Collapsed(s, offset, OverFetch) \in Seq(S)
    BY CollapsedIs, PageAssumption
  <1>2. Shown(s, offset, Limit) \in Seq(S)
    BY ShownIs, PageAssumption
  <1> QED
    BY <1>1, <1>2 DEF Page

\* how many relevant events there are before one
Nearer(e) == Cardinality({f \in Relevant : RelevantUntil(f) < RelevantUntil(e)})

LEMMA NearerIs ==
  ASSUME Table, NEW e \in Events
  PROVE  Nearer(e) \in Nat /\ (e \in Relevant => Nearer(e) < Cardinality(Relevant))
  <1> DEFINE N == {f \in Relevant : RelevantUntil(f) < RelevantUntil(e)}
  <1>1. N \in SUBSET Relevant /\ IsFiniteSet(Relevant) /\ Cardinality(Relevant) \in Nat
    BY Times
  <1>2. e \notin N
    BY Times
  <1> HIDE DEF N
  <1>3. IsFiniteSet(N) /\ Cardinality(N) <= Cardinality(Relevant)
        /\ (Cardinality(N) = Cardinality(Relevant) => N = Relevant)
    BY <1>1, FS_Subset
  <1>4. Cardinality(N) \in Nat
    BY <1>3, FS_CardinalityType
  <1>5. Nearer(e) = Cardinality(N)
    BY DEF Nearer, N
  <1> QED
    BY <1>1, <1>2, <1>3, <1>4, <1>5

\* an order of the relevant events; if none tie, the only one
LEMMA Standing ==
  ASSUME Table, NEW s \in Ordered(Relevant, [e \in Events |-> RelevantUntil(e)])
  PROVE  /\ s \in Seq(Relevant) /\ Len(s) = Cardinality(Relevant) /\ Len(s) \in Nat
         /\ \A p, q \in 1 .. Len(s) : p # q => s[p] # s[q]
         /\ \A p, q \in 1 .. Len(s) : p < q => RelevantUntil(s[p]) <= RelevantUntil(s[q])
         /\ \A e \in Relevant : \E p \in 1 .. Len(s) : s[p] = e
         /\ ~Tied => \A p \in 1 .. Len(s) : Nearer(s[p]) = p - 1
  <1> DEFINE column == [e \in Events |-> RelevantUntil(e)]
  <1>0. /\ \A e \in Events : column[e] = RelevantUntil(e) /\ RelevantUntil(e) \in Nat
        /\ Relevant \in SUBSET Events
    BY Times
  <1> HIDE DEF column
  <1>1. /\ s \in Seq(Relevant) /\ Len(s) = Cardinality(Relevant) /\ Len(s) \in Nat
        /\ \A p, q \in 1 .. Len(s) : p # q => s[p] # s[q]
        /\ \A p, q \in 1 .. Len(s) : p < q => column[s[p]] <= column[s[q]]
        /\ \A e \in Relevant : \E p \in 1 .. Len(s) : s[p] = e
    BY <1>0, OrderedIs DEF column
  <1>2. \A p \in 1 .. Len(s) : s[p] \in Relevant /\ s[p] \in Events
    BY <1>0, <1>1
  <1>3. \A p, q \in 1 .. Len(s) : p < q => RelevantUntil(s[p]) <= RelevantUntil(s[q])
    BY <1>0, <1>1, <1>2
  <1>4. ASSUME ~Tied, NEW p \in 1 .. Len(s) PROVE Nearer(s[p]) = p - 1
    <2> DEFINE N == {f \in Relevant : RelevantUntil(f) < RelevantUntil(s[p])}
               m == p - 1
               f == [i \in 1 .. m |-> s[i]]
    <2>0. p \in Nat /\ m \in Nat /\ m = p - 1 /\ \A i \in 1 .. m : i \in 1 .. Len(s) /\ i < p
      BY <1>1
    <2> HIDE DEF m
    <2>1. \A i, j \in 1 .. Len(s) : i < j => RelevantUntil(s[i]) < RelevantUntil(s[j])
      <3> SUFFICES ASSUME NEW i \in 1 .. Len(s), NEW j \in 1 .. Len(s), i < j
                   PROVE  RelevantUntil(s[i]) < RelevantUntil(s[j])
        OBVIOUS
      <3>1. i # j
        BY <1>1
      <3>2. s[i] # s[j] /\ RelevantUntil(s[i]) <= RelevantUntil(s[j])
        BY <1>1, <1>3, <3>1
      <3>3. RelevantUntil(s[i]) # RelevantUntil(s[j])
        BY <1>2, <1>4, <3>2 DEF Tied
      <3>4. RelevantUntil(s[i]) \in Nat /\ RelevantUntil(s[j]) \in Nat
        BY <1>0, <1>2
      <3> QED
        BY <3>2, <3>3, <3>4
    <2>2. f \in [1 .. m -> N]
      BY <1>2, <2>0, <2>1
    <2>3. \A i, j \in 1 .. m : i # j => f[i] # f[j]
      BY <1>1, <2>0
    <2>4. \A e \in N : \E i \in 1 .. m : f[i] = e
      <3> SUFFICES ASSUME NEW e \in Relevant, RelevantUntil(e) < RelevantUntil(s[p])
                   PROVE  \E i \in 1 .. m : f[i] = e
        OBVIOUS
      <3>1. PICK i \in 1 .. Len(s) : s[i] = e
        BY <1>1
      <3>2. ~(p < i) /\ i # p
        <4>1. RelevantUntil(s[i]) \in Nat /\ RelevantUntil(s[p]) \in Nat
          BY <1>0, <1>2
        <4>2. p < i => RelevantUntil(s[p]) < RelevantUntil(s[i])
          BY <2>1
        <4> QED
          BY <3>1, <4>1, <4>2
      <3>3. i \in 1 .. m
        BY <1>1, <2>0, <3>2
      <3> QED
        BY <3>1, <3>3
    <2> HIDE DEF N, f
    <2>5. Cardinality(N) = m
      BY <2>0, <2>2, <2>3, <2>4, CountIs
    <2> QED
      BY <2>5 DEF Nearer, N, m
  <1> QED
    BY <1>1, <1>3, <1>4

-----------------------------------------------------------------------------
(* What a reader has fetched *)

Walking == walk.pc # "idle" /\ ~walk.tied

\* each event it began with has been fetched, or is still ahead
Reached ==
  Walking /\ ~walk.collapse /\ ~walk.left =>
    /\ walk.from \subseteq Visible
    /\ \A e \in walk.from : e \in Got \/ (walk.pc = "on" /\ walk.offset <= Nearer(e))

\* none is fetched twice, and none that was fetched is ahead
Once ==
  Walking /\ ~walk.collapse /\ ~walk.came =>
    /\ \A i, j \in DOMAIN walk.got : i # j => walk.got[i] # walk.got[j]
    /\ \A e \in Got : e \in Relevant => Nearer(e) < walk.offset

\* an instance that comes before another of its series is stood for before it
InTurn(got, from) ==
  \A i \in DOMAIN got : \A e \in from :
    Alike(e, got[i]) /\ RelevantUntil(e) < RelevantUntil(got[i])
      => \E j \in 1 .. i - 1 : Alike(e, got[j]) /\ RelevantUntil(got[j]) <= RelevantUntil(e)

\* each event passed is stood for by one no later of its series
Nearest ==
  Walking /\ walk.collapse /\ ~walk.left /\ ~walk.came /\ Relevant = Visible =>
    /\ walk.from = Visible /\ Got \subseteq Visible
    /\ \A e \in walk.from : Nearer(e) < walk.offset =>
         \E f \in Got : Alike(e, f) /\ RelevantUntil(f) <= RelevantUntil(e)
    /\ InTurn(walk.got, walk.from)
    /\ walk.pc = "done" => Cardinality(Relevant) <= walk.offset

Walked == Reached /\ Once /\ Nearest

LEMMA WalkedIs == Listing /\ Walked => WalkIsTheList
  <1> SUFFICES ASSUME Listing, Walked, walk.pc = "done", ~walk.tied
               PROVE  IF ~walk.collapse
                      THEN /\ walk.left \/ walk.from \subseteq Got
                           /\ walk.came \/ Len(walk.got) = Cardinality(Got)
                      ELSE walk.left \/ walk.came \/ Relevant # Visible \/
                           /\ \A e \in walk.from : \E f \in Got : Alike(e, f)
                           /\ InTurn(walk.got, walk.from)
    BY DEF WalkIsTheList, InTurn
  <1>0. Walking
    BY DEF Walking
  <1>1. CASE ~walk.collapse
    <2>1. ASSUME ~walk.left PROVE walk.from \subseteq Got
      BY <1>0, <1>1, <2>1 DEF Walked, Reached
    <2>2. ASSUME ~walk.came PROVE Len(walk.got) = Cardinality(Got)
      <3> DEFINE n == Len(walk.got)
                 f == [i \in 1 .. n |-> walk.got[i]]
      <3>1. n \in Nat /\ DOMAIN walk.got = 1 .. n
        BY DEF Listing, Reader
      <3>2. \A i, j \in 1 .. n : i # j => walk.got[i] # walk.got[j]
        BY <1>0, <1>1, <2>2, <3>1 DEF Walked, Once
      <3> HIDE DEF n
      <3>3. f \in [1 .. n -> Got] /\ (\A i, j \in 1 .. n : i # j => f[i] # f[j])
            /\ \A e \in Got : \E i \in 1 .. n : f[i] = e
        BY <3>1, <3>2 DEF Got
      <3> HIDE DEF f
      <3>4. Cardinality(Got) = n
        BY <3>1, <3>3, CountIs
      <3> QED
        BY <3>4 DEF n
    <2> QED
      BY <1>1, <2>1, <2>2
  <1>2. CASE walk.collapse
    <2> SUFFICES ASSUME ~walk.left, ~walk.came, Relevant = Visible
                 PROVE  /\ \A e \in walk.from : \E f \in Got : Alike(e, f)
                        /\ InTurn(walk.got, walk.from)
      BY <1>2
    <2>1. /\ walk.from = Visible
          /\ \A e \in walk.from : Nearer(e) < walk.offset =>
               \E f \in Got : Alike(e, f) /\ RelevantUntil(f) <= RelevantUntil(e)
          /\ InTurn(walk.got, walk.from)
          /\ Cardinality(Relevant) <= walk.offset
      BY <1>0, <1>2 DEF Walked, Nearest
    <2>2. \A e \in walk.from : Nearer(e) < walk.offset
      <3> SUFFICES ASSUME NEW e \in walk.from PROVE Nearer(e) < walk.offset
        OBVIOUS
      <3>1. e \in Relevant /\ e \in Events /\ Cardinality(Relevant) \in Nat
        BY <2>1, Times DEF Listing
      <3>2. Nearer(e) \in Nat /\ Nearer(e) < Cardinality(Relevant)
        BY <3>1, NearerIs DEF Listing
      <3>3. walk.offset \in Nat
        BY DEF Listing, Reader
      <3> QED
        BY <2>1, <3>1, <3>2, <3>3
    <2> QED
      BY <2>1, <2>2
  <1> QED
    BY <1>1, <1>2 DEF Listing, Reader

-----------------------------------------------------------------------------
(* A page *)

LEMMA PageWalked ==
  ASSUME Listing, Walked, WalkPage
  PROVE  walk' \in Reader /\ Walked'
  <1> DEFINE column == [e \in Events |-> RelevantUntil(e)]
  <1>1. PICK s \in Ordered(Relevant, column) :
          LET page == Page(s, walk.offset, walk.collapse)
              last == IF walk.collapse THEN page = <<>>
                                       ELSE walk.offset + Limit >= Cardinality(Relevant)
          IN walk' = [walk EXCEPT !.got = @ \o page, !.offset = @ + Limit, !.tied = @ \/ Tied,
                                  !.pc = IF last THEN "done" ELSE "on"]
    BY DEF WalkPage
  <1> DEFINE page == Page(s, walk.offset, walk.collapse)
             last == IF walk.collapse THEN page = <<>>
                                      ELSE walk.offset + Limit >= Cardinality(Relevant)
             o    == walk.offset
             got  == walk.got
  <1>2. /\ s \in Seq(Relevant) /\ Len(s) = Cardinality(Relevant) /\ Len(s) \in Nat
        /\ \A p, q \in 1 .. Len(s) : p # q => s[p] # s[q]
        /\ \A p, q \in 1 .. Len(s) : p < q => RelevantUntil(s[p]) <= RelevantUntil(s[q])
        /\ \A e \in Relevant : \E p \in 1 .. Len(s) : s[p] = e
        /\ ~Tied => \A p \in 1 .. Len(s) : Nearer(s[p]) = p - 1
    BY Standing DEF Listing
  <1> HIDE DEF column
  <1>3. Limit \in Nat /\ Limit > 0 /\ OverFetch \in Nat \ {0}
    BY PageAssumption
  <1>4. walk \in Reader /\ o \in Nat /\ got \in Seq(Events) /\ walk.pc = "on"
        /\ walk.from \in SUBSET Events /\ walk.collapse \in BOOLEAN /\ walk.tied \in BOOLEAN
    BY DEF Listing, Reader, WalkPage
  <1>5. page \in Seq(Events)
    BY <1>2, <1>4, PageIs, Times DEF Listing
  <1>6. walk' = [walk EXCEPT !.got = got \o page, !.offset = o + Limit, !.tied = walk.tied \/ Tied,
                             !.pc = IF last THEN "done" ELSE "on"]
    BY <1>1
  <1> HIDE DEF page, last
  <1>7. /\ walk'.got = got \o page /\ walk'.offset = o + Limit /\ walk'.tied = (walk.tied \/ Tied)
        /\ walk'.pc = IF last THEN "done" ELSE "on"
        /\ walk'.collapse = walk.collapse /\ walk'.from = walk.from
        /\ walk'.left = walk.left /\ walk'.came = walk.came
    BY <1>4, <1>6 DEF Reader
  <1>8. walk' \in Reader
    <2>1. got \o page \in Seq(Events) /\ o + Limit \in Nat /\ (walk.tied \/ Tied) \in BOOLEAN
          /\ (IF last THEN "done" ELSE "on") \in {"idle", "on", "done"}
      BY <1>3, <1>4, <1>5
    <2> QED
      BY <1>4, <1>6, <2>1 DEF Reader
  <1>9. /\ Relevant' = Relevant /\ Visible' = Visible
        /\ \A e : RelevantUntil(e)' = RelevantUntil(e)
        /\ \A e : Nearer(e)' = Nearer(e)
        /\ \A e, f : Alike(e, f)' <=> Alike(e, f)
    <2>1. UNCHANGED <<event, now, org, acct>>
      <3>1. UNCHANGED vars /\ UNCHANGED table
        BY DEF WalkPage
      <3>2. UNCHANGED orgs /\ UNCHANGED owners
        BY <3>1 DEF vars
      <3> QED
        BY <3>1, <3>2 DEF table, orgs, owners
    <2>2. Relevant' = Relevant /\ \A e : RelevantUntil(e)' = RelevantUntil(e)
      BY <2>1 DEF Relevant, Published, RelevantUntil
    <2>3. Visible' = Visible
      BY <2>1, <2>2 DEF Visible, Suspended
    <2>4. \A e : Nearer(e)' = Nearer(e)
      BY <2>2 DEF Nearer
    <2>5. \A e, f : Alike(e, f)' <=> Alike(e, f)
      BY <2>1 DEF Alike
    <2> QED
      BY <2>2, <2>3, <2>4, <2>5
  \* what has been fetched then
  <1> DEFINE n == Len(got)
             m == Len(page)
  <1>10. /\ n \in Nat /\ m \in Nat /\ DOMAIN got = 1 .. n /\ DOMAIN walk'.got = 1 .. n + m
         /\ \A i \in 1 .. n : walk'.got[i] = got[i]
         /\ \A k \in 1 .. m : n + k \in 1 .. n + m /\ walk'.got[n + k] = page[k]
         /\ \A i \in 1 .. n + m : i \in 1 .. n \/ \E k \in 1 .. m : i = n + k
    <2>1. n \in Nat /\ m \in Nat /\ DOMAIN got = 1 .. n
      BY <1>4, <1>5
    <2>2. Len(got \o page) = n + m /\ DOMAIN (got \o page) = 1 .. n + m
      BY <1>4, <1>5
    <2>3. \A i \in 1 .. n + m : (got \o page)[i] = IF i <= n THEN got[i] ELSE page[i - n]
      BY <1>4, <1>5
    <2> HIDE DEF n, m
    <2>4. \A i \in 1 .. n : i \in 1 .. n + m /\ i <= n
      BY <2>1
    <2>5. \A k \in 1 .. m : n + k \in 1 .. n + m /\ ~(n + k <= n) /\ (n + k) - n = k
      BY <2>1
    <2>6. \A i \in 1 .. n + m : i \in 1 .. n \/ \E k \in 1 .. m : i = n + k
      <3> SUFFICES ASSUME NEW i \in 1 .. n + m, i \notin 1 .. n PROVE \E k \in 1 .. m : i = n + k
        OBVIOUS
      <3>1. i - n \in 1 .. m /\ i = n + (i - n)
        BY <2>1
      <3> QED
        BY <3>1
    <2> DEFINE g == got \o page
    <2>7. walk'.got = g /\ DOMAIN g = 1 .. n + m
          /\ \A i \in 1 .. n + m : g[i] = IF i <= n THEN got[i] ELSE page[i - n]
      BY <1>7, <2>2, <2>3
    <2> HIDE DEF g
    <2>8. \A i \in 1 .. n : g[i] = got[i]
      BY <2>4, <2>7
    <2>9. \A k \in 1 .. m : g[n + k] = page[k]
      <3> SUFFICES ASSUME NEW k \in 1 .. m PROVE g[n + k] = page[k]
        OBVIOUS
      <3>1. g[n + k] = page[(n + k) - n]
        BY <2>5, <2>7
      <3> QED
        BY <2>5, <3>1
    <2> QED
      BY <2>1, <2>5, <2>6, <2>7, <2>8, <2>9
  <1>11. \A e : e \in Got' <=> e \in Got \/ \E k \in 1 .. m : page[k] = e
    <2> HIDE DEF n, m
    <2>1. \A e : e \in Got <=> \E i \in 1 .. n : got[i] = e
      BY <1>10 DEF Got
    <2>2. \A e : e \in Got' <=> \E i \in 1 .. n + m : walk'.got[i] = e
      BY <1>10 DEF Got
    <2>3. \A i \in 1 .. n : i \in 1 .. n + m
      BY <1>10
    <2>4. ASSUME NEW e, e \in Got' PROVE e \in Got \/ \E k \in 1 .. m : page[k] = e
      <3>1. PICK i \in 1 .. n + m : walk'.got[i] = e
        BY <2>2, <2>4
      <3>2. CASE i \in 1 .. n
        BY <1>10, <2>1, <3>1, <3>2
      <3>3. CASE i \notin 1 .. n
        <4> PICK k \in 1 .. m : i = n + k
          BY <1>10, <3>3
        <4> QED
          BY <1>10, <3>1
      <3> QED
        BY <3>2, <3>3
    <2>5. ASSUME NEW e, e \in Got PROVE e \in Got'
      BY <1>10, <2>1, <2>2, <2>3, <2>5
    <2>6. ASSUME NEW k \in 1 .. m PROVE page[k] \in Got'
      BY <1>10, <2>2
    <2> QED
      BY <2>4, <2>5, <2>6
  <1>12. ASSUME ~walk'.tied PROVE ~Tied /\ Walking /\ \A p \in 1 .. Len(s) : Nearer(s[p]) = p - 1
    BY <1>2, <1>4, <1>7, <1>12 DEF Walking
  <1> HIDE DEF n, m
  \* the page of a list that is not collapsed
  <1>a. ASSUME ~walk.collapse
        PROVE  /\ \A k \in 1 .. m : \E p \in 1 .. Len(s) : o < p /\ p <= o + Limit /\ page[k] = s[p]
               /\ \A j, k \in 1 .. m : j # k => page[j] # page[k]
               /\ \A p \in 1 .. Len(s) : o < p /\ p <= o + Limit /\ ~Suspended(s[p]) =>
                    \E k \in 1 .. m : page[k] = s[p]
    <2>1. page = Shown(s, o, Limit)
      BY <1>a DEF Page, page
    <2>2. PICK at : IsShown(page, at, s, o, Limit)
      BY <1>2, <1>3, <1>4, <2>1, ShownIs
    <2>3. /\ \A k \in 1 .. m : /\ at[k] \in 1 .. Len(s) /\ o < at[k] /\ at[k] <= o + Limit
                                /\ page[k] = s[at[k]]
          /\ \A j, k \in 1 .. m : j < k => at[j] < at[k]
          /\ \A p \in 1 .. Len(s) : o < p /\ p <= o + Limit /\ ~Suspended(s[p]) =>
               \E k \in 1 .. m : at[k] = p
      BY <2>2 DEF IsShown, m
    <2>4. ASSUME NEW j \in 1 .. m, NEW k \in 1 .. m, j # k PROVE page[j] # page[k]
      <3>1. at[j] \in Int /\ at[k] \in Int /\ at[j] \in 1 .. Len(s) /\ at[k] \in 1 .. Len(s)
        BY <1>2, <2>3
      <3>2. j < k \/ k < j
        BY <1>10, <2>4
      <3>3. at[j] < at[k] \/ at[k] < at[j]
        BY <2>3, <3>2
      <3>4. at[j] # at[k]
        BY <3>1, <3>3
      <3>5. s[at[j]] # s[at[k]]
        BY <1>2, <3>1, <3>4
      <3> QED
        BY <2>3, <3>5
    <2> QED
      BY <2>3, <2>4
  <1>13. Reached'
    <2> SUFFICES ASSUME ~walk'.tied, ~walk.collapse, ~walk.left
                 PROVE  /\ walk.from \subseteq Visible
                        /\ \A e \in walk.from : e \in Got' \/ (walk'.pc = "on" /\ o + Limit <= Nearer(e))
      BY <1>7, <1>9 DEF Reached, Walking
    <2>1. walk.from \subseteq Visible /\ \A e \in walk.from : e \in Got \/ o <= Nearer(e)
      BY <1>12 DEF Walked, Reached
    <2> SUFFICES ASSUME NEW e \in walk.from, e \notin Got, o <= Nearer(e)
                 PROVE  e \in Got' \/ (walk'.pc = "on" /\ o + Limit <= Nearer(e))
      BY <1>11, <2>1
    <2>2. e \in Relevant /\ ~Suspended(e)
      BY <2>1 DEF Visible
    <2>3. PICK p \in 1 .. Len(s) : s[p] = e /\ Nearer(e) = p - 1
      BY <1>2, <1>12, <2>2
    <2>4. p \in Nat /\ o < p
      BY <1>2, <1>4, <2>3
    <2>5. CASE p <= o + Limit
      BY <1>a, <1>11, <2>2, <2>3, <2>4, <2>5
    <2>6. CASE ~(p <= o + Limit)
      <3>1. o + Limit <= p - 1 /\ ~(o + Limit >= Len(s))
        BY <1>2, <1>3, <1>4, <2>4, <2>6
      <3>2. ~last
        BY <1>2, <3>1 DEF last
      <3> QED
        BY <1>7, <2>3, <3>1, <3>2
    <2> QED
      BY <2>5, <2>6
  <1>14. Once'
    <2> SUFFICES ASSUME ~walk'.tied, ~walk.collapse, ~walk.came
                 PROVE  /\ \A i, j \in DOMAIN walk'.got : i # j => walk'.got[i] # walk'.got[j]
                        /\ \A e \in Got' : e \in Relevant => Nearer(e) < o + Limit
      BY <1>7, <1>9 DEF Once, Walking
    <2>1. /\ \A i, j \in 1 .. n : i # j => got[i] # got[j]
          /\ \A e \in Got : e \in Relevant => Nearer(e) < o
      BY <1>10, <1>12 DEF Walked, Once
    <2>2. ASSUME NEW k \in 1 .. m
          PROVE  page[k] \in Relevant /\ o <= Nearer(page[k]) /\ Nearer(page[k]) < o + Limit
      <3> PICK p \in 1 .. Len(s) : o < p /\ p <= o + Limit /\ page[k] = s[p]
        BY <1>a
      <3>1. Nearer(page[k]) = p - 1 /\ p \in Nat
        BY <1>2, <1>12
      <3>2. page[k] \in Relevant
        BY <1>2
      <3> QED
        BY <1>3, <1>4, <3>1, <3>2
    <2>3. \A i \in 1 .. n, k \in 1 .. m : got[i] # page[k]
      <3> SUFFICES ASSUME NEW i \in 1 .. n, NEW k \in 1 .. m, got[i] = page[k] PROVE FALSE
        OBVIOUS
      <3>1. page[k] \in Got /\ page[k] \in Events
        <4>1. got[i] \in Got
          BY <1>10 DEF Got
        <4>2. got[i] \in Events
          BY <1>4, <1>10
        <4> QED
          BY <4>1, <4>2
      <3>2. Nearer(page[k]) < o /\ o <= Nearer(page[k]) /\ Nearer(page[k]) \in Nat
        BY <2>1, <2>2, <3>1, NearerIs DEF Listing
      <3> QED
        BY <1>4, <3>2
    <2>4. ASSUME NEW i \in 1 .. n + m, NEW j \in 1 .. n + m, i # j PROVE walk'.got[i] # walk'.got[j]
      <3>1. CASE i \in 1 .. n /\ j \in 1 .. n
        BY <1>10, <2>1, <2>4, <3>1
      <3>2. CASE i \in 1 .. n /\ j \notin 1 .. n
        <4> PICK k \in 1 .. m : j = n + k
          BY <1>10, <3>2
        <4> QED
          BY <1>10, <2>3, <3>2
      <3>3. CASE i \notin 1 .. n /\ j \in 1 .. n
        <4> PICK k \in 1 .. m : i = n + k
          BY <1>10, <3>3
        <4> QED
          BY <1>10, <2>3, <3>3
      <3>4. CASE i \notin 1 .. n /\ j \notin 1 .. n
        <4> PICK k \in 1 .. m : i = n + k
          BY <1>10, <3>4
        <4> PICK l \in 1 .. m : j = n + l
          BY <1>10, <3>4
        <4>1. page[k] # page[l]
          BY <1>a, <2>4
        <4> QED
          BY <1>10, <4>1
      <3> QED
        BY <3>1, <3>2, <3>3, <3>4
    <2>5. ASSUME NEW e \in Got', e \in Relevant PROVE Nearer(e) < o + Limit
      <3>1. CASE e \in Got
        <4>1. Nearer(e) < o /\ Nearer(e) \in Nat
          BY <2>1, <2>5, <3>1, NearerIs, Times DEF Listing
        <4> QED
          BY <1>3, <1>4, <4>1
      <3>2. CASE e \notin Got
        BY <1>11, <2>2, <3>2
      <3> QED
        BY <3>1, <3>2
    <2> QED
      BY <1>10, <2>4, <2>5
  \* the page of a list that is collapsed
  <1>b. ASSUME walk.collapse
        PROVE  /\ \A k \in 1 .. m : \E p \in 1 .. Len(s) :
                    /\ o < p /\ page[k] = s[p]
                    /\ \A q \in 1 .. Len(s) : o < q /\ q < p /\ ~Suspended(s[q]) => ~SameSeries(s[q], s[p])
               /\ \A p \in 1 .. Len(s) : o < p /\ p <= o + Limit /\ ~Suspended(s[p]) =>
                    \E k \in 1 .. m : \E q \in 1 .. Len(s) :
                      q <= p /\ page[k] = s[q] /\ Alike(s[p], s[q])
    <2>1. page = Collapsed(s, o, OverFetch)
      BY <1>b DEF Page, page
    <2>2. IsCollapsed(page, s, o)
      BY <1>2, <1>3, <1>4, <2>1, CollapsedIs
    <2> QED
      BY <2>2 DEF IsCollapsed, m
  <1>15. Nearest'
    <2> SUFFICES ASSUME ~walk'.tied, walk.collapse, ~walk.left, ~walk.came, Relevant = Visible
                 PROVE  /\ walk.from = Visible /\ Got' \subseteq Visible
                        /\ \A e \in walk.from : Nearer(e) < o + Limit =>
                             \E f \in Got' : Alike(e, f) /\ RelevantUntil(f) <= RelevantUntil(e)
                        /\ InTurn(walk'.got, walk.from)
                        /\ walk'.pc = "done" => Cardinality(Relevant) <= o + Limit
      <3>1. InTurn(walk.got, walk.from)' <=> InTurn(walk'.got, walk.from)
        BY <1>7, <1>9 DEF InTurn
      <3> QED
        BY <1>7, <1>9, <3>1 DEF Nearest, Walking
    <2>1. /\ walk.from = Visible /\ Got \subseteq Visible
          /\ \A e \in walk.from : Nearer(e) < o =>
               \E f \in Got : Alike(e, f) /\ RelevantUntil(f) <= RelevantUntil(e)
          /\ InTurn(got, walk.from)
      BY <1>12 DEF Walked, Nearest
    <2>2. \A e \in Relevant : ~Suspended(e) /\ e \in walk.from /\ e \in Events /\ Nearer(e) \in Nat
      BY <2>1, NearerIs, Times DEF Visible, Listing
    <2>3. \A k \in 1 .. m : page[k] \in Visible
      BY <1>2, <1>b
    <2>4. ASSUME NEW e \in walk.from, Nearer(e) < o + Limit
          PROVE  \E f \in Got' : Alike(e, f) /\ RelevantUntil(f) <= RelevantUntil(e)
      <3>1. CASE Nearer(e) < o
        BY <1>11, <2>1, <3>1
      <3>2. CASE ~(Nearer(e) < o)
        <4>1. PICK p \in 1 .. Len(s) : s[p] = e /\ Nearer(e) = p - 1
          BY <1>2, <1>12, <2>1
        <4>2. o < p /\ p <= o + Limit
          BY <1>2, <1>3, <1>4, <2>4, <3>2, <4>1
        <4>3. PICK k \in 1 .. m : \E q \in 1 .. Len(s) :
                q <= p /\ page[k] = s[q] /\ Alike(s[p], s[q])
          BY <1>b, <2>1, <2>2, <4>1, <4>2
        <4>4. PICK q \in 1 .. Len(s) : q <= p /\ page[k] = s[q] /\ Alike(s[p], s[q])
          BY <4>3
        <4>5. RelevantUntil(s[q]) <= RelevantUntil(e)
          <5>1. q < p => RelevantUntil(s[q]) <= RelevantUntil(s[p])
            BY <1>2
          <5>2. q = p \/ q < p
            BY <1>2, <4>4
          <5>3. RelevantUntil(e) \in Nat
            BY <1>4, Times DEF Listing
          <5> QED
            BY <4>1, <5>1, <5>2, <5>3
        <4> QED
          BY <1>11, <4>1, <4>4, <4>5
      <3> QED
        BY <3>1, <3>2
    <2>5. InTurn(walk'.got, walk.from)
      <3> SUFFICES ASSUME NEW i \in 1 .. n + m, NEW e \in walk.from, Alike(e, walk'.got[i]),
                          RelevantUntil(e) < RelevantUntil(walk'.got[i])
                   PROVE  \E j \in 1 .. i - 1 : /\ Alike(e, walk'.got[j])
                                                /\ RelevantUntil(walk'.got[j]) <= RelevantUntil(e)
        BY <1>10 DEF InTurn
      <3>1. CASE i \in 1 .. n
        <4>1. PICK j \in 1 .. i - 1 : Alike(e, got[j]) /\ RelevantUntil(got[j]) <= RelevantUntil(e)
          BY <1>10, <2>1, <3>1 DEF InTurn
        <4>2. j \in 1 .. n
          BY <1>10, <3>1
        <4> QED
          BY <1>10, <4>1, <4>2
      <3>2. CASE i \notin 1 .. n
        <4>1. PICK k \in 1 .. m : i = n + k /\ walk'.got[i] = page[k]
          BY <1>10, <3>2
        <4>2. PICK p \in 1 .. Len(s) :
                /\ o < p /\ page[k] = s[p]
                /\ \A q \in 1 .. Len(s) : o < q /\ q < p /\ ~Suspended(s[q]) => ~SameSeries(s[q], s[p])
          BY <1>b
        <4>3. PICK q \in 1 .. Len(s) : s[q] = e /\ Nearer(e) = q - 1
          BY <1>2, <1>12, <2>1
        <4>4. q < p
          <5>1. p < q => RelevantUntil(s[p]) <= RelevantUntil(s[q])
            BY <1>2
          <5>2. RelevantUntil(s[q]) < RelevantUntil(s[p])
            BY <4>1, <4>2, <4>3
          <5>3. RelevantUntil(s[q]) \in Nat /\ RelevantUntil(s[p]) \in Nat
            <6>1. s[q] \in Events /\ s[p] \in Events
              BY <1>2, Times DEF Listing
            <6> QED
              BY <6>1, Times DEF Listing
          <5> QED
            BY <1>2, <5>1, <5>2, <5>3
        <4>5. SameSeries(s[q], s[p])
          <5>1. Alike(s[q], s[p]) /\ s[q] # s[p]
            BY <1>2, <4>1, <4>2, <4>3, <4>4
          <5> QED
            BY <5>1 DEF Alike, SameSeries
        <4>6. ~(o < q)
          BY <2>1, <2>2, <4>2, <4>3, <4>4, <4>5
        <4>7. Nearer(e) < o
          BY <1>2, <1>4, <4>3, <4>6
        <4>8. PICK f \in Got : Alike(e, f) /\ RelevantUntil(f) <= RelevantUntil(e)
          BY <2>1, <4>7
        <4>9. PICK j \in 1 .. n : got[j] = f
          BY <1>10 DEF Got
        <4>10. j \in 1 .. i - 1 /\ walk'.got[j] = f
          BY <1>10, <4>1, <4>9
        <4> QED
          BY <4>8, <4>10
      <3> QED
        BY <3>1, <3>2
    <2>6. walk'.pc = "done" => Cardinality(Relevant) <= o + Limit
      <3> SUFFICES ASSUME last, ~(Len(s) <= o + Limit) PROVE FALSE
        BY <1>2, <1>7
      <3>1. page = <<>>
        BY DEF last
      <3>2. m = 0
        BY <3>1 DEF m
      <3> DEFINE p == o + 1
      <3>3. p \in 1 .. Len(s) /\ o < p /\ p <= o + Limit
        BY <1>2, <1>3, <1>4
      <3>4. ~Suspended(s[p])
        BY <1>2, <2>2, <3>3
      <3> HIDE DEF p
      <3>5. \E k \in 1 .. m : TRUE
        BY <1>b, <3>3, <3>4
      <3> QED
        BY <3>2, <3>5
    <2> QED
      BY <1>11, <2>1, <2>3, <2>4, <2>5, <2>6
  <1> QED
    BY <1>8, <1>13, <1>14, <1>15 DEF Walked

-----------------------------------------------------------------------------
(* What happens to the list meanwhile *)

\* no write gives an event another series
LEMMA SeriesKept ==
  ASSUME Table, WriteStep
  PROVE  /\ \A e \in Published : event'[e].series = event[e].series
         /\ now \in 0 .. Horizon => now' \in 0 .. Horizon
  <1>0. event \in [Events -> Event] /\ \A e \in Events : event[e] \in Event
    BY DEF Table
  <1>00. ASSUME now \in 0 .. Horizon, UNCHANGED now PROVE now' \in 0 .. Horizon
    BY <1>00
  <1>1. ASSUME NEW S \in SUBSET Events, NEW o \in Orgs \cup {None}, NEW s \in Series \cup {None},
               NEW open \in BOOLEAN, NEW t \in 1 .. MaxStamp, NEW start \in [S -> 0 .. Horizon],
               Insert(S, o, s, start, open, t)
        PROVE  UNCHANGED now /\ \A e \in Published : event'[e].series = event[e].series
    <2>1. \A e \in Published : e \in Events /\ e \notin S
      BY <1>1 DEF Published, Insert
    <2>2. \A e \in Events \ S : event'[e] = event[e]
      BY <1>1 DEF Insert
    <2> QED
      BY <1>1, <2>1, <2>2 DEF Insert
  <1>2. ASSUME NEW S \in SUBSET Events, NEW t \in 1 .. MaxStamp, Rewrite(S, t)
        PROVE  UNCHANGED now /\ \A e \in Published : event'[e].series = event[e].series
    <2>1. \A e \in Events : [event[e] EXCEPT !.updated = t].series = event[e].series
      BY <1>0 DEF Event
    <2>2. /\ event' = [e \in Events |-> IF e \in S THEN [event[e] EXCEPT !.updated = t] ELSE event[e]]
          /\ UNCHANGED now
      BY <1>2 DEF Rewrite
    <2> QED
      BY <2>1, <2>2 DEF Published
  \* one row
  <1>a. ASSUME NEW e \in Events, NEW row, row.series = event[e].series, event' = [event EXCEPT ![e] = row]
        PROVE  \A f \in Published : event'[f].series = event[f].series
    BY <1>0, <1>a DEF Published
  <1>3. ASSUME NEW e \in Events, NEW start \in 0 .. Horizon, NEW t \in 1 .. MaxStamp,
               Reschedule(e, start, t)
        PROVE  UNCHANGED now /\ \A f \in Published : event'[f].series = event[f].series
    <2> DEFINE row == [event[e] EXCEPT !.start = start, !.updated = t]
    <2>1. row.series = event[e].series
      BY <1>0 DEF Event
    <2>2. event' = [event EXCEPT ![e] = row] /\ UNCHANGED now
      BY <1>0, <1>3 DEF Reschedule, Event
    <2> HIDE DEF row
    <2> QED
      BY <1>a, <2>1, <2>2
  <1>4. ASSUME NEW e \in Events, NEW t \in 1 .. MaxStamp, SetStatus(e, t)
        PROVE  UNCHANGED now /\ \A f \in Published : event'[f].series = event[f].series
    <2> DEFINE st == IF event[e].state = "published" THEN "hidden" ELSE "published"
               row == [event[e] EXCEPT !.state = st, !.updated = t]
    <2>1. row.series = event[e].series
      BY <1>0 DEF Event
    <2>2. event' = [event EXCEPT ![e] = row] /\ UNCHANGED now
      BY <1>0, <1>4 DEF SetStatus, Event
    <2> HIDE DEF row
    <2> QED
      BY <1>a, <2>1, <2>2
  <1>5. ASSUME NEW e \in Events, Delete(e)
        PROVE  UNCHANGED now /\ \A f \in Published : event'[f].series = event[f].series
    <2> DEFINE row == [event[e] EXCEPT !.state = "gone"]
    <2>1. row.series = event[e].series
      BY <1>0 DEF Event
    <2>2. event' = [event EXCEPT ![e] = row] /\ UNCHANGED now
      BY <1>5 DEF Delete
    <2> HIDE DEF row
    <2> QED
      BY <1>a, <2>1, <2>2
  <1>6. CASE Tick
    <2>1. event' = event /\ now' = now + 1 /\ now < Horizon
      BY <1>6 DEF Tick
    <2> QED
      BY <2>1, BoundAssumption
  <1>7. WriteStep => \/ Tick
                     \/ UNCHANGED now /\ \A e \in Published : event'[e].series = event[e].series
    <2> SUFFICES ASSUME WriteStep, ~Tick
                 PROVE  UNCHANGED now /\ \A e \in Published : event'[e].series = event[e].series
      OBVIOUS
    <2> QED
      BY <1>1, <1>2, <1>3, <1>4, <1>5 DEF WriteStep
  <1> QED
    BY <1>00, <1>6, <1>7

LEMMA TimesNext == Table' =>
  /\ \A e \in Events : RelevantUntil(e)' \in Nat
  /\ Visible' \subseteq Relevant' /\ Relevant' \subseteq Events
  /\ IsFiniteSet(Relevant')
  <1> SUFFICES ASSUME Table'
               PROVE  /\ \A e \in Events : RelevantUntil(e)' \in Nat
                      /\ Visible' \subseteq Relevant' /\ Relevant' \subseteq Events
                      /\ IsFiniteSet(Relevant')
    OBVIOUS
  <1>1. \A e \in Events : event'[e].start \in 0 .. Horizon
    BY DEF Table, Event
  <1>2. \A e \in Events : RelevantUntil(e)' \in Nat
    BY <1>1, BoundAssumption DEF RelevantUntil
  <1>3. Visible' \subseteq Relevant' /\ Relevant' \subseteq Events
    BY DEF Visible, Relevant, Published
  <1> QED
    BY <1>2, <1>3, BoundAssumption, FS_Subset

LEMMA NoticedWalked ==
  ASSUME Listing, Walked, Noticed, Table',
         \A e \in Published : event'[e].series = event[e].series
  PROVE  walk' \in Reader /\ Walked'
  <1> DEFINE gone == walk.left \/ Moved \/ ~(Relevant \subseteq Relevant') \/ ~(Visible \subseteq Visible')
             new  == walk.came \/ Moved \/ ~(Relevant' \subseteq Relevant) \/ ~(Visible' \subseteq Visible)
  <1>0. walk \in Reader
    BY DEF Listing
  <1>1. CASE walk.pc = "idle"
    <2>1. walk' = walk
      BY <1>1 DEF Noticed
    <2>2. ~Walking'
      BY <1>1, <2>1 DEF Walking
    <2> QED
      BY <1>0, <2>1, <2>2 DEF Walked, Reached, Once, Nearest
  <1>2. CASE walk.pc # "idle"
    <2>1. walk' = [walk EXCEPT !.left = gone, !.came = new]
      BY <1>2 DEF Noticed
    <2>1a. gone \in BOOLEAN /\ new \in BOOLEAN
      BY <1>0 DEF Reader
    <2>2. walk' \in Reader
      <3> HIDE DEF gone, new
      <3> QED
        BY <1>0, <2>1, <2>1a DEF Reader
    <2>3. /\ walk'.left = gone /\ walk'.came = new
          /\ walk'.pc = walk.pc /\ walk'.collapse = walk.collapse /\ walk'.offset = walk.offset
          /\ walk'.got = walk.got /\ walk'.from = walk.from /\ walk'.tied = walk.tied
      <3> HIDE DEF gone, new
      <3> QED
        BY <1>0, <2>1 DEF Reader
    <2>4. Got' = Got /\ Walking' = Walking
      BY <2>3 DEF Got, Walking
    <2>5. /\ \A e \in Events : RelevantUntil(e) \in Nat /\ RelevantUntil(e)' \in Nat
          /\ Visible \subseteq Relevant /\ Relevant \subseteq Events /\ Relevant \subseteq Published
          /\ Visible' \subseteq Relevant' /\ Relevant' \subseteq Events
          /\ IsFiniteSet(Relevant) /\ IsFiniteSet(Relevant')
      BY Times, TimesNext DEF Listing, Relevant
    <2>6. ASSUME ~Moved PROVE \A e \in Relevant \cap Relevant' : RelevantUntil(e)' = RelevantUntil(e)
      BY <2>6 DEF Moved
    <2>7. walk.offset \in Nat /\ walk.from \in SUBSET Events /\ walk.got \in Seq(Events)
      BY <1>0 DEF Reader
    <2> DEFINE N(e) == {f \in Relevant : RelevantUntil(f) < RelevantUntil(e)}
               M(e) == {f \in Relevant' : RelevantUntil(f)' < RelevantUntil(e)'}
    <2>8. \A e \in Events : /\ Nearer(e) = Cardinality(N(e)) /\ Nearer(e)' = Cardinality(M(e))
                            /\ IsFiniteSet(N(e)) /\ IsFiniteSet(M(e))
                            /\ Nearer(e) \in Nat /\ Nearer(e)' \in Nat
      <3> SUFFICES ASSUME NEW e \in Events
                   PROVE  /\ Nearer(e) = Cardinality(N(e)) /\ Nearer(e)' = Cardinality(M(e))
                          /\ IsFiniteSet(N(e)) /\ IsFiniteSet(M(e))
                          /\ Nearer(e) \in Nat /\ Nearer(e)' \in Nat
        OBVIOUS
      <3>1. Nearer(e) = Cardinality(N(e)) /\ Nearer(e)' = Cardinality(M(e))
        BY DEF Nearer
      <3>2. N(e) \in SUBSET Relevant /\ M(e) \in SUBSET Relevant'
        OBVIOUS
      <3> HIDE DEF N, M
      <3>3. IsFiniteSet(N(e)) /\ IsFiniteSet(M(e))
        BY <2>5, <3>2, FS_Subset
      <3> QED
        BY <3>1, <3>3, FS_CardinalityType
    <2>9. Reached'
      <3> SUFFICES ASSUME Walking, ~walk.collapse, ~gone
                   PROVE  /\ walk.from \subseteq Visible'
                          /\ \A e \in walk.from : e \in Got \/ (walk.pc = "on" /\ walk.offset <= Nearer(e)')
        BY <2>3, <2>4 DEF Reached
      <3>1. ~walk.left /\ ~Moved /\ Relevant \subseteq Relevant' /\ Visible \subseteq Visible'
        OBVIOUS
      <3>2. /\ walk.from \subseteq Visible
            /\ \A e \in walk.from : e \in Got \/ (walk.pc = "on" /\ walk.offset <= Nearer(e))
        BY <3>1 DEF Walked, Reached
      <3>3. ASSUME NEW e \in walk.from PROVE Nearer(e) <= Nearer(e)'
        <4>1. e \in Relevant /\ e \in Events
          BY <2>5, <3>2
        <4>2. N(e) \in SUBSET M(e)
          BY <2>6, <3>1, <4>1
        <4> HIDE DEF N, M
        <4> QED
          BY <2>8, <4>1, <4>2, FS_Subset
      <3>4. \A e \in walk.from : Nearer(e) \in Nat /\ Nearer(e)' \in Nat
        BY <2>7, <2>8
      <3>5. \A e \in walk.from : walk.offset <= Nearer(e) => walk.offset <= Nearer(e)'
        BY <2>7, <3>3, <3>4
      <3> QED
        BY <3>1, <3>2, <3>5
    <2>10. Once'
      <3> SUFFICES ASSUME Walking, ~walk.collapse, ~new
                   PROVE  /\ \A i, j \in DOMAIN walk.got : i # j => walk.got[i] # walk.got[j]
                          /\ \A e \in Got : e \in Relevant' => Nearer(e)' < walk.offset
        BY <2>3, <2>4 DEF Once
      <3>1. ~walk.came /\ ~Moved /\ Relevant' \subseteq Relevant
        OBVIOUS
      <3>2. /\ \A i, j \in DOMAIN walk.got : i # j => walk.got[i] # walk.got[j]
            /\ \A e \in Got : e \in Relevant => Nearer(e) < walk.offset
        BY <3>1 DEF Walked, Once
      <3>3. ASSUME NEW e \in Got, e \in Relevant' PROVE Nearer(e)' < walk.offset
        <4>1. e \in Relevant /\ e \in Events
          BY <2>5, <3>1, <3>3
        <4>2. M(e) \in SUBSET N(e)
          BY <2>6, <3>1, <3>3, <4>1
        <4> HIDE DEF N, M
        <4>3. Nearer(e)' <= Nearer(e)
          BY <2>8, <4>1, <4>2, FS_Subset
        <4>4. Nearer(e) < walk.offset
          BY <3>2, <4>1
        <4> QED
          BY <2>7, <2>8, <4>1, <4>3, <4>4
      <3> QED
        BY <3>2, <3>3
    <2>11. Nearest'
      <3> SUFFICES ASSUME Walking, walk.collapse, ~gone, ~new, Relevant' = Visible'
                   PROVE  /\ walk.from = Visible' /\ Got \subseteq Visible'
                          /\ \A e \in walk.from : Nearer(e)' < walk.offset =>
                               \E f \in Got : Alike(e, f)' /\ RelevantUntil(f)' <= RelevantUntil(e)'
                          /\ InTurn(walk.got, walk.from)'
                          /\ walk.pc = "done" => Cardinality(Relevant)' <= walk.offset
        BY <2>3, <2>4 DEF Nearest
      <3>1. ~walk.left /\ ~walk.came /\ ~Moved /\ Relevant' = Relevant /\ Visible' = Visible
        OBVIOUS
      <3>2. /\ walk.from = Visible /\ Got \subseteq Visible
            /\ \A e \in walk.from : Nearer(e) < walk.offset =>
                 \E f \in Got : Alike(e, f) /\ RelevantUntil(f) <= RelevantUntil(e)
            /\ InTurn(walk.got, walk.from)
            /\ walk.pc = "done" => Cardinality(Relevant) <= walk.offset
        BY <3>1 DEF Walked, Nearest
      <3>3. \A e \in Visible : RelevantUntil(e)' = RelevantUntil(e)
        BY <2>5, <2>6, <3>1
      <3>4. \A e \in Visible : event'[e].series = event[e].series
        BY <2>5
      <3>5. \A e, f \in Visible : Alike(e, f)' <=> Alike(e, f)
        BY <3>4 DEF Alike
      <3>6. \A e \in Visible : Nearer(e)' = Nearer(e)
        BY <3>1, <3>3 DEF Nearer
      <3>7. InTurn(walk.got, walk.from)'
        <4>1. \A i \in DOMAIN walk.got : walk.got[i] \in Visible
          BY <3>2 DEF Got
        <4> SUFFICES ASSUME NEW i \in DOMAIN walk.got, NEW e \in walk.from,
                            Alike(e, walk.got[i])', RelevantUntil(e)' < RelevantUntil(walk.got[i])'
                     PROVE  \E j \in 1 .. i - 1 : /\ Alike(e, walk.got[j])'
                                                  /\ RelevantUntil(walk.got[j])' <= RelevantUntil(e)'
          BY <2>3 DEF InTurn
        <4>2. Alike(e, walk.got[i]) /\ RelevantUntil(e) < RelevantUntil(walk.got[i])
          BY <2>3, <3>2, <3>3, <3>5, <4>1
        <4>3. PICK j \in 1 .. i - 1 : Alike(e, walk.got[j]) /\ RelevantUntil(walk.got[j]) <= RelevantUntil(e)
          BY <3>2, <4>2 DEF InTurn
        <4>4. j \in DOMAIN walk.got
          BY <2>7
        <4> QED
          BY <2>3, <3>2, <3>3, <3>5, <4>1, <4>3, <4>4
      <3>8. \A e \in walk.from : Nearer(e)' < walk.offset =>
              \E f \in Got : Alike(e, f)' /\ RelevantUntil(f)' <= RelevantUntil(e)'
        BY <3>2, <3>3, <3>5, <3>6
      <3> QED
        BY <3>1, <3>2, <3>7, <3>8
    <2> QED
      BY <2>2, <2>9, <2>10, <2>11 DEF Walked
  <1> QED
    BY <1>1, <1>2

-----------------------------------------------------------------------------
(* The reader and the consumer at every step *)

LEMMA StartWalked ==
  ASSUME Listing, NEW collapse \in BOOLEAN, WalkStart(collapse)
  PROVE  walk' \in Reader /\ Walked'
  <1>1. walk' = [pc |-> "on", collapse |-> collapse, offset |-> 0, got |-> <<>>, from |-> Visible,
                 left |-> FALSE, came |-> FALSE, tied |-> FALSE]
    BY DEF WalkStart, AtDesk
  <1>2. Visible \in SUBSET Events /\ \A e \in Visible : e \in Events /\ Nearer(e) \in Nat
    BY Times, NearerIs DEF Listing
  <1>3. walk' \in Reader
    BY <1>1, <1>2 DEF Reader
  <1>4. /\ Visible' = Visible /\ Relevant' = Relevant
        /\ \A e : Nearer(e)' = Nearer(e)
    <2>1. UNCHANGED <<event, now, org, acct>>
      <3>1. UNCHANGED vars /\ UNCHANGED table
        BY DEF WalkStart
      <3>2. UNCHANGED orgs /\ UNCHANGED owners
        BY <3>1 DEF vars
      <3> QED
        BY <3>1, <3>2 DEF table, orgs, owners
    <2>2. Relevant' = Relevant /\ \A e : RelevantUntil(e)' = RelevantUntil(e)
      BY <2>1 DEF Relevant, Published, RelevantUntil
    <2>3. Visible' = Visible
      BY <2>1, <2>2 DEF Visible, Suspended
    <2> QED
      BY <2>2, <2>3 DEF Nearer
  <1>5. /\ Got' = {} /\ DOMAIN walk'.got = {} /\ walk'.pc = "on" /\ walk'.offset = 0
        /\ walk'.from = Visible
    BY <1>1 DEF Got
  <1>6. Reached'
    BY <1>2, <1>4, <1>5 DEF Reached
  <1>7. Once'
    BY <1>5 DEF Once
  <1>8. Nearest'
    <2>1. InTurn(walk.got, walk.from)'
      BY <1>5 DEF InTurn
    <2>2. \A e \in Visible : ~(Nearer(e)' < 0)
      BY <1>2, <1>4
    <2> QED
      BY <1>4, <1>5, <2>1, <2>2 DEF Nearest
  <1> QED
    BY <1>3, <1>6, <1>7, <1>8 DEF Walked

\* what does not concern the reader
LEMMA PollWalked ==
  ASSUME Listing, Walked, UNCHANGED <<walk, event, now, org, acct>>
  PROVE  walk' \in Reader /\ Walked'
  <1>1. Relevant' = Relevant /\ \A e : RelevantUntil(e)' = RelevantUntil(e)
    BY DEF Relevant, Published, RelevantUntil
  <1>2. Visible' = Visible
    BY <1>1 DEF Visible, Suspended
  <1>3. \A e : Nearer(e)' = Nearer(e)
    BY <1>1 DEF Nearer
  <1>4. \A e, f : Alike(e, f)' <=> Alike(e, f)
    BY DEF Alike
  <1>5. Got' = Got /\ Walking' = Walking
    BY DEF Got, Walking
  <1>6. InTurn(walk.got, walk.from)' = InTurn(walk.got, walk.from)
    BY <1>1, <1>4 DEF InTurn
  <1>7. Reached' /\ Once'
    BY <1>1, <1>2, <1>3, <1>5 DEF Walked, Reached, Once
  <1>8. Nearest'
    BY <1>1, <1>2, <1>3, <1>4, <1>5, <1>6 DEF Walked, Nearest
  <1> QED
    BY <1>7, <1>8 DEF Walked, Listing

\* what the lists and the feed are proved from
Read == Listing /\ Apart /\ CaughtUp /\ Walked

LEMMA InitRead == FeedInit => Read
  <1> SUFFICES ASSUME FeedInit PROVE Read
    OBVIOUS
  <1>1. /\ event \in [Events -> {NoEvent} \cup {x \in Event : x.state = "published" /\ x.updated = 0}]
        /\ now = 0 /\ stamp = 0 /\ odd = {} /\ sync = [cursor |-> 0, copy |-> [e \in Events |-> 0]]
        /\ walk = [pc |-> "idle", collapse |-> FALSE, offset |-> 0, got |-> <<>>, from |-> {},
                   left |-> FALSE, came |-> FALSE, tied |-> FALSE]
    BY DEF FeedInit, AtDesk
  <1>2. NoEvent \in Event /\ NoEvent.updated = 0
    BY BoundAssumption DEF NoEvent, Event
  <1>3. event \in [Events -> Event] /\ \A e \in Events : event[e].updated = 0
    BY <1>1, <1>2
  <1>4. Table
    BY <1>1, <1>3, BoundAssumption DEF Table
  <1>5. Apart /\ CaughtUp
    BY <1>1, <1>3 DEF Apart, CaughtUp, Published, Version
  <1>6. now \in 0 .. Horizon /\ walk \in Reader
    BY <1>1, BoundAssumption DEF Reader
  <1>7. ~Walking
    BY <1>1 DEF Walking
  <1> QED
    BY <1>4, <1>5, <1>6, <1>7 DEF Read, Listing, Walked, Reached, Once, Nearest

LEMMA ReadKept == Read /\ [FeedNext]_<<vars, feed>> => Read'
  <1> SUFFICES ASSUME Read, [FeedNext]_<<vars, feed>> PROVE Read'
    OBVIOUS
  <1>0. Listing /\ Table /\ Apart /\ CaughtUp /\ Walked
    BY DEF Read, Listing
  <1>a. ASSUME UNCHANGED table PROVE UNCHANGED <<event, now, stamp, odd>>
    BY <1>a DEF table
  <1>b. ASSUME UNCHANGED table, UNCHANGED sync PROVE Table' /\ Apart' /\ CaughtUp' /\ now' \in 0 .. Horizon
    BY <1>0, <1>a, <1>b DEF Listing, Table, Apart, CaughtUp, Published, UpdatedAt, Version
  <1>c. ASSUME UNCHANGED vars PROVE UNCHANGED <<org, acct>>
    <2>1. UNCHANGED orgs /\ UNCHANGED owners
      BY <1>c DEF vars
    <2> QED
      BY <2>1 DEF orgs, owners
  <1>1. CASE UNCHANGED <<vars, feed>>
    <2>1. UNCHANGED <<table, walk, sync, vars>>
      BY <1>1 DEF feed
    <2>2. walk' \in Reader /\ Walked'
      BY <1>0, <1>a, <1>c, <2>1, PollWalked
    <2> QED
      BY <1>b, <2>1, <2>2 DEF Read, Listing
  <1>2. CASE Next /\ UNCHANGED <<table, sync>> /\ Noticed
    <2>1. Table' /\ Apart' /\ CaughtUp' /\ now' \in 0 .. Horizon
      BY <1>2, <1>b
    <2>2. \A e \in Published : event'[e].series = event[e].series
      BY <1>2, <1>a
    <2>3. walk' \in Reader /\ Walked'
      BY <1>0, <1>2, <2>1, <2>2, NoticedWalked
    <2> QED
      BY <2>1, <2>3 DEF Read, Listing
  <1>3. CASE WriteStep /\ UNCHANGED <<vars, sync>> /\ Noticed
    <2>1. Table' /\ Apart' /\ CaughtUp'
      BY <1>0, <1>3, WritesCaughtUp
    <2>2. /\ now' \in 0 .. Horizon
          /\ \A e \in Published : event'[e].series = event[e].series
      BY <1>0, <1>3, SeriesKept DEF Listing
    <2>3. walk' \in Reader /\ Walked'
      BY <1>0, <1>3, <2>1, <2>2, NoticedWalked
    <2> QED
      BY <2>1, <2>2, <2>3 DEF Read, Listing
  <1>4. CASE WalkPage
    <2>1. UNCHANGED table /\ UNCHANGED sync
      BY <1>4 DEF WalkPage
    <2>2. walk' \in Reader /\ Walked'
      BY <1>0, <1>4, PageWalked
    <2> QED
      BY <1>b, <2>1, <2>2 DEF Read, Listing
  <1>5. CASE Poll
    <2>1. UNCHANGED <<vars, table, walk>>
      BY <1>5 DEF Poll
    <2>2. Table' /\ Apart' /\ CaughtUp'
      BY <1>0, <1>5, PollCaughtUp
    <2>3. walk' \in Reader /\ Walked'
      BY <1>0, <1>a, <1>c, <2>1, PollWalked
    <2>4. now' \in 0 .. Horizon
      BY <1>0, <1>a, <2>1 DEF Listing
    <2> QED
      BY <2>2, <2>3, <2>4 DEF Read, Listing
  <1>6. ASSUME NEW collapse \in BOOLEAN, WalkStart(collapse) PROVE Read'
    <2>1. UNCHANGED table /\ UNCHANGED sync
      BY <1>6 DEF WalkStart
    <2>2. walk' \in Reader /\ Walked'
      BY <1>0, <1>6, StartWalked
    <2> QED
      BY <1>b, <2>1, <2>2 DEF Read, Listing
  <1> QED
    BY <1>1, <1>2, <1>3, <1>4, <1>5, <1>6 DEF FeedNext, ReadStep

LEMMA Always_Read == FeedSpec => []Read
  BY InitRead, ReadKept, PTL DEF FeedSpec

\* Readers and consumers are given events only, the consumer never one of a later
\* write than there was, and the table stays one of events.
THEOREM Feed_Typing == FeedSpec => []FeedTypeOK
  <1>1. Read /\ TypeOK => FeedTypeOK
    BY DEF Read, Listing, Table, Reader, FeedTypeOK
  <1> QED
    BY <1>1, Always_Read, Feed_Directory, Typing, PTL

\* A consumer that polls holds the current version of every published event it is
\* past, in whatever order pages come and however many writes there are between
\* polls, but for shared and late times of update.
THEOREM Caught_Up == FeedSpec => []CaughtUp
  <1>1. Read => CaughtUp
    BY DEF Read
  <1> QED
    BY <1>1, Always_Read, PTL

\* A reader that pages through the events has every event that was listed when it
\* began and stayed, none twice, and of a collapsed listing every series by its
\* nearest instance first, whatever is written between two of its pages.
THEOREM Walk_Is_List == FeedSpec => []WalkIsTheList
  <1>1. Read => WalkIsTheList
    BY WalkedIs DEF Read
  <1> QED
    BY <1>1, Always_Read, PTL

-----------------------------------------------------------------------------
(* The routes of events *)

LEMMA RowsBegin ==
  ASSUME NEW S, NEW t \in Seq(S), NEW u \in Seq(S), Begins(t, u),
         NEW n \in Nat, NEW m \in Nat, n <= m
  PROVE  Begins(RowsAt(t, 0, n), RowsAt(u, 0, m))
  <1> DEFINE v == RowsAt(t, 0, n)
             w == RowsAt(u, 0, m)
  <1>1. /\ Len(v) \in Nat
        /\ \A i \in 1 .. Len(v) : i <= n /\ 0 + i \in 1 .. Len(t) /\ v[i] = t[0 + i]
    BY RowsIs
  <1>2. /\ Len(w) \in Nat
        /\ \A i \in 1 .. Len(w) : w[i] = u[0 + i]
        /\ \A p \in 1 .. Len(u) : 0 < p /\ p <= 0 + m => p - 0 \in 1 .. Len(w)
    BY RowsIs
  <1>3. Len(t) \in Nat /\ Len(u) \in Nat /\ Len(t) <= Len(u) /\ \A i \in 1 .. Len(t) : t[i] = u[i]
    BY DEF Begins
  <1> HIDE DEF v, w
  <1>4. ASSUME NEW i \in 1 .. Len(v) PROVE i \in 1 .. Len(w) /\ v[i] = w[i]
    <2>1. i \in Nat /\ 0 + i = i /\ i - 0 = i /\ 0 < i /\ i <= 0 + m
      BY <1>1
    <2>2. i \in 1 .. Len(t) /\ v[i] = t[i]
      BY <1>1, <2>1
    <2>3. i \in 1 .. Len(u) /\ t[i] = u[i]
      BY <1>3, <2>2
    <2>4. i \in 1 .. Len(w)
      BY <1>2, <2>1, <2>3
    <2>5. w[i] = u[i]
      BY <1>2, <2>1, <2>4
    <2> QED
      BY <2>2, <2>3, <2>4, <2>5
  <1>5. Len(v) <= Len(w)
    <2>1. CASE Len(v) = 0
      BY <1>2, <2>1
    <2>2. CASE Len(v) # 0
      <3>1. Len(v) \in 1 .. Len(v)
        BY <1>1, <2>2
      <3>2. Len(v) \in 1 .. Len(w)
        BY <1>4, <3>1
      <3> QED
        BY <1>2, <3>2
    <2> QED
      BY <2>1, <2>2
  <1>6. Begins(v, w)
    BY <1>4, <1>5 DEF Begins
  <1> QED
    BY <1>6 DEF v, w

\* what is collapsed of fewer rows begins what is collapsed of more
LEMMA CollapsedBegins ==
  ASSUME NEW S, NEW s \in Seq(S), NEW few \in Nat \ {0}, NEW many \in Nat \ {0}, few <= many
  PROVE  Begins(Collapsed(s, 0, few), Collapsed(s, 0, many))
  <1> DEFINE n == Limit * few
             m == Limit * many
             v == RowsAt(s, 0, n)
             w == RowsAt(s, 0, m)
             a == Shown(s, 0, n)
             b == Shown(s, 0, m)
             d == Deduplicated(a)
             e == Deduplicated(b)
  <1>1. Limit \in Nat /\ n \in Nat /\ m \in Nat /\ n <= m
    <2>1. Limit \in Nat
      BY PageAssumption
    <2>2. many - few \in Nat /\ many = few + (many - few)
      OBVIOUS
    <2>3. Limit * (many - few) \in Nat /\ m = n + Limit * (many - few) /\ n \in Nat
      BY <2>1, <2>2
    <2> QED
      BY <2>1, <2>3
  <1> HIDE DEF n, m
  <1>2. Begins(v, w) /\ v \in Seq(S) /\ w \in Seq(S)
    <2>1. Begins(s, s)
      BY DEF Begins
    <2> QED
      BY <1>1, <2>1, RowsBegin, RowsIs
  <1>3. a = Kept(v, {i \in DOMAIN v : ~Suspended(v[i])}) /\ b = Kept(w, {i \in DOMAIN w : ~Suspended(w[i])})
    BY DEF Shown
  <1>4. a \in Seq(S) /\ b \in Seq(S)
    BY <1>1, ShownIs
  <1> HIDE DEF v, w, a, b
  <1>5. Begins(a, b)
    <2> DEFINE P == {i \in DOMAIN v : ~Suspended(v[i])}
               Q == {i \in DOMAIN w : ~Suspended(w[i])}
    <2>1. P \in SUBSET (1 .. Len(v)) /\ Q \in SUBSET (1 .. Len(w))
      BY <1>2
    <2>2. \A i \in 1 .. Len(v) : i \in P <=> i \in Q
      <3>1. DOMAIN v = 1 .. Len(v) /\ DOMAIN w = 1 .. Len(w) /\ Len(v) \in Nat /\ Len(w) \in Nat
        BY <1>2
      <3>2. \A i \in 1 .. Len(v) : i \in 1 .. Len(w) /\ v[i] = w[i]
        BY <1>2, <3>1 DEF Begins
      <3> QED
        BY <3>1, <3>2
    <2> HIDE DEF P, Q
    <2>3. Begins(Kept(v, P), Kept(w, Q))
      BY <1>2, <2>1, <2>2, KeptBegins
    <2> QED
      BY <1>3, <2>3 DEF P, Q
  <1>6. Begins(d, e)
    <2> DEFINE P == {i \in DOMAIN a : \/ event[a[i]].series = None
                                      \/ \A j \in 1 .. i - 1 : event[a[j]].series # event[a[i]].series}
               Q == {i \in DOMAIN b : \/ event[b[i]].series = None
                                      \/ \A j \in 1 .. i - 1 : event[b[j]].series # event[b[i]].series}
    <2>1. P \in SUBSET (1 .. Len(a)) /\ Q \in SUBSET (1 .. Len(b))
      BY <1>4
    <2>2. \A i \in 1 .. Len(a) : i \in P <=> i \in Q
      <3>1. DOMAIN a = 1 .. Len(a) /\ DOMAIN b = 1 .. Len(b) /\ Len(a) \in Nat /\ Len(b) \in Nat
        BY <1>4
      <3>2. \A i \in 1 .. Len(a) : i \in 1 .. Len(b) /\ a[i] = b[i]
        BY <1>5, <3>1 DEF Begins
      <3>3. \A i \in 1 .. Len(a) : \A j \in 1 .. i - 1 : j \in 1 .. Len(a)
        BY <3>1
      <3> QED
        BY <3>1, <3>2, <3>3
    <2> HIDE DEF P, Q
    <2>3. Begins(Kept(a, P), Kept(b, Q))
      BY <1>4, <1>5, <2>1, <2>2, KeptBegins
    <2> QED
      BY <2>3 DEF P, Q, Deduplicated
  <1>7. d \in Seq(S) /\ e \in Seq(S)
    BY <1>4, DeduplicatedIs
  <1> HIDE DEF d, e
  <1>8. Begins(RowsAt(d, 0, Limit), RowsAt(e, 0, Limit))
    BY <1>1, <1>6, <1>7, RowsBegin
  <1> QED
    BY <1>8 DEF Collapsed, a, b, d, e, n, m

\* the calendar, of every order of the events
LEMMA CalendarIs ==
  ASSUME Table, NEW s \in Ordered(Published, [e \in Events |-> RelevantUntil(e)])
  PROVE  LET ics == Ics(s, Len(s)) IN
         /\ \A i \in DOMAIN ics : EventById(ics[i])
         /\ \A e \in Visible : \E i \in DOMAIN ics : Alike(e, ics[i])
  <1> DEFINE n   == Len(s)
             t   == Shown(s, 0, n)
             ics == Ics(s, n)
  <1>1. /\ s \in Seq(Published) /\ n \in Nat
        /\ \A e \in Published : \E p \in 1 .. n : s[p] = e
    <2>1. Published \in SUBSET Events
      BY DEF Published
    <2>2. /\ s \in Seq(Published) /\ Len(s) = Cardinality(Published) /\ Cardinality(Published) \in Nat
          /\ \A e \in Published : \E p \in 1 .. Len(s) : s[p] = e
      BY <2>1, OrderedIs
    <2> QED
      BY <2>2
  <1>2. t \in Seq(Published) /\ Len(t) \in Nat /\ \E at : IsShown(t, at, s, 0, n)
    BY <1>1, ShownIs
  <1>3. ics = Deduplicated(t)
    BY DEF Ics
  <1> HIDE DEF t, ics
  <1>4. ics \in Seq(Published) /\ \E at : IsDeduplicated(ics, at, t)
    BY <1>2, <1>3, DeduplicatedIs
  <1>5. PICK to : IsShown(t, to, s, 0, n)
    BY <1>2
  <1>6. PICK of : IsDeduplicated(ics, of, t)
    BY <1>4
  <1>7. DOMAIN ics = 1 .. Len(ics)
    BY <1>4
  <1>8. ASSUME NEW i \in DOMAIN ics PROVE EventById(ics[i])
    <2>1. of[i] \in 1 .. Len(t) /\ ics[i] = t[of[i]]
      BY <1>6, <1>7 DEF IsDeduplicated
    <2>2. t[of[i]] = s[to[of[i]]] /\ ~Suspended(s[to[of[i]]])
      BY <1>5, <2>1 DEF IsShown
    <2>3. ics[i] \in Published
      BY <1>4
    <2> QED
      BY <2>1, <2>2, <2>3 DEF EventById
  <1>9. ASSUME NEW e \in Visible PROVE \E i \in DOMAIN ics : Alike(e, ics[i])
    <2>1. e \in Published /\ ~Suspended(e)
      BY DEF Visible, Relevant
    <2>2. PICK p \in 1 .. n : s[p] = e
      BY <1>1, <2>1
    <2>3. 0 < p /\ p <= 0 + n
      BY <1>1
    <2>4. PICK k \in 1 .. Len(t) : to[k] = p
      BY <1>5, <2>1, <2>2, <2>3 DEF IsShown, n
    <2>5. t[k] = e
      BY <1>5, <2>2, <2>4 DEF IsShown
    <2>6. PICK i \in 1 .. Len(ics) : Alike(t[k], t[of[i]])
      BY <1>6 DEF IsDeduplicated
    <2>7. ics[i] = t[of[i]]
      BY <1>6 DEF IsDeduplicated
    <2> QED
      BY <1>7, <2>5, <2>6, <2>7
  <1> QED
    BY <1>8, <1>9 DEF ics, n

\* the next instance of a series is the one that stands for it
LEMMA NextIs ==
  ASSUME Listing, NEW s \in Ordered(Relevant, [e \in Events |-> RelevantUntil(e)]),
         ~Tied, \A f \in Relevant : ~event[f].open,
         NEW i \in DOMAIN Deduplicated(s), event[Deduplicated(s)[i]].series # None
  PROVE  NextInstances(event[Deduplicated(s)[i]].series) = {Deduplicated(s)[i]}
  <1> DEFINE listed == Deduplicated(s)
             e == listed[i]
             x == event[e].series
  <1>1. /\ s \in Seq(Relevant) /\ Len(s) \in Nat
        /\ \A p, q \in 1 .. Len(s) : p < q => RelevantUntil(s[p]) <= RelevantUntil(s[q])
        /\ \A f \in Relevant : \E p \in 1 .. Len(s) : s[p] = f
    BY Standing DEF Listing
  <1>2. listed \in Seq(Relevant) /\ \E at : IsDeduplicated(listed, at, s)
    BY <1>1, DeduplicatedIs
  <1>3. PICK at : IsDeduplicated(listed, at, s)
    BY <1>2
  <1>4. i \in 1 .. Len(listed)
    BY <1>2
  <1>5. PICK b \in 1 .. Len(s) : e = s[b] /\ \A j \in 1 .. b - 1 : ~SameSeries(s[j], e)
    BY <1>3, <1>4 DEF IsDeduplicated
  <1>6. x # None
    OBVIOUS
  <1> HIDE DEF listed, e
  <1>7. e \in Relevant /\ \A f \in Relevant : f \in Events /\ RelevantUntil(f) \in Nat
    <2>1. e \in Relevant
      BY <1>1, <1>5
    <2> QED
      BY <2>1, Times DEF Listing
  <1>8. \A f \in Relevant : RelevantUntil(f) = event[f].start /\ event[f].start \in Nat
    <2>1. \A f \in Events : event[f].start \in 0 .. Horizon
      BY DEF Listing, Table, Event
    <2> QED
      BY <1>7, <2>1, BoundAssumption DEF RelevantUntil
  <1> DEFINE S == {f \in Published : event[f].series = x /\ event[f].start >= now}
  <1>9. \A f : f \in S <=> f \in Relevant /\ event[f].series = x
    <2>1. ASSUME NEW f \in S PROVE f \in Relevant
      <3>1. f \in Published /\ event[f].start >= now /\ event[f].start \in Nat /\ now \in Nat
        BY <2>1, BoundAssumption DEF Listing, Table, Event, Published
      <3> QED
        BY <3>1 DEF Relevant, RelevantUntil
    <2>2. \A f \in Relevant : f \in Published /\ event[f].start >= now
      BY <1>8 DEF Relevant
    <2> QED
      BY <2>1, <2>2
  <1>10. ASSUME NEW f \in S, f # e PROVE event[e].start < event[f].start
    <2>1. f \in Relevant /\ event[f].series = x
      BY <1>9
    <2>2. PICK q \in 1 .. Len(s) : s[q] = f
      BY <1>1, <2>1
    <2>3. ~(q < b)
      <3>1. SameSeries(s[q], e)
        BY <1>6, <2>1, <2>2 DEF SameSeries
      <3>2. q < b => q \in 1 .. b - 1
        BY <1>1
      <3> QED
        BY <1>5, <3>1, <3>2
    <2>4. b < q
      BY <1>1, <1>5, <2>2, <2>3, <1>10
    <2>5. RelevantUntil(e) <= RelevantUntil(f)
      BY <1>1, <1>5, <2>2, <2>4
    <2>6. RelevantUntil(e) # RelevantUntil(f)
      BY <1>7, <1>10, <2>1 DEF Tied
    <2> QED
      BY <1>7, <1>8, <2>1, <2>5, <2>6
  <1>11. e \in S /\ \A f \in S : event[e].start <= event[f].start
    <2>1. e \in S /\ event[e].start \in Nat /\ \A f \in S : event[f].start \in Nat
      BY <1>7, <1>8, <1>9
    <2> HIDE DEF S
    <2>2. \A f \in S : event[e].start <= event[f].start
      BY <1>10, <2>1
    <2> QED
      BY <2>1, <2>2
  <1>12. \A f \in S : f # e => ~(event[f].start <= event[e].start)
    <2>1. event[e].start \in Nat /\ \A f \in S : event[f].start \in Nat
      BY <1>7, <1>8, <1>9
    <2> HIDE DEF S
    <2> QED
      BY <1>10, <2>1
  <1>13. NextInstances(x) = {f \in S : \A g \in S : event[f].start <= event[g].start}
    BY DEF NextInstances
  <1> HIDE DEF S
  <1>14. NextInstances(x) = {e}
    BY <1>11, <1>12, <1>13
  <1> QED
    BY <1>14 DEF e, listed, x

LEMMA EventRoutesHold == Listing => EventRoutesAgree
  <1> SUFFICES ASSUME Listing PROVE EventRoutesAgree
    OBVIOUS
  <1>0. Table
    BY DEF Listing
  <1>1. \A e \in Visible : EventById(e)
    BY DEF Visible, Relevant, EventById
  <1>2. \A e \in ListedEvents \cup UNION {NextInstances(s) : s \in Series} :
          EventById(e) \/ Suspended(e)
    BY DEF ListedEvents, NextInstances, EventById
  <1> DEFINE column == [e \in Events |-> RelevantUntil(e)]
  <1>3. ASSUME NEW s \in Ordered(Published, column)
        PROVE  LET ics == Ics(s, Len(s)) IN
               /\ \A i \in DOMAIN ics : EventById(ics[i])
               /\ \A e \in Visible : \E i \in DOMAIN ics : Alike(e, ics[i])
    BY <1>0, CalendarIs
  <1>4. ASSUME NEW s \in Ordered(Relevant, column)
        PROVE  /\ \A i \in DOMAIN Rss(s, 0) : Rss(s, 0)[i] = Page(s, 0, TRUE)[i]
               /\ ~Tied /\ Relevant = Visible /\ (\A f \in Relevant : ~event[f].open) =>
                    \A i \in DOMAIN Deduplicated(s) : event[Deduplicated(s)[i]].series # None =>
                      NextInstances(event[Deduplicated(s)[i]].series) = {Deduplicated(s)[i]}
    <2>1. \A i \in DOMAIN Rss(s, 0) : Rss(s, 0)[i] = Page(s, 0, TRUE)[i]
      <3>1. RssFetch \in Nat \ {0} /\ OverFetch \in Nat \ {0} /\ RssFetch <= OverFetch
        BY PageAssumption
      <3>2. s \in Seq(Relevant)
        BY <1>0, Standing
      <3>3. Rss(s, 0) = Collapsed(s, 0, RssFetch) /\ Page(s, 0, TRUE) = Collapsed(s, 0, OverFetch)
        BY DEF Rss, Page
      <3>4. Collapsed(s, 0, RssFetch) \in Seq(Relevant)
        BY <3>1, <3>2, CollapsedIs
      <3>5. Begins(Collapsed(s, 0, RssFetch), Collapsed(s, 0, OverFetch))
        BY <3>1, <3>2, CollapsedBegins
      <3>6. \A i \in DOMAIN Rss(s, 0) : i \in 1 .. Len(Collapsed(s, 0, RssFetch))
        BY <3>3, <3>4
      <3> QED
        BY <3>3, <3>5, <3>6 DEF Begins
    <2> QED
      BY <1>0, <2>1, NextIs
  <1> HIDE DEF column
  <1> QED
    BY <1>1, <1>2, <1>3, <1>4 DEF EventRoutesAgree, column

-----------------------------------------------------------------------------
(* The routes of organizations and broadcasts *)

\* a broadcast that is not retracted has an organization, and there is a place
Aired ==
  \A b \in Broadcasts : bc[b].state \in {"active", "expired"} =>
    bc[b].o \in Orgs /\ org[bc[b].o].live /\ place # {}

LEMMA AiredKept == Typed /\ Aired /\ [Next]_vars => Aired'
  <1> SUFFICES ASSUME Typed, Aired, [Next]_vars PROVE Aired'
    OBVIOUS
  <1>0. /\ bc \in [Broadcasts -> Bcast] /\ \A b \in Broadcasts : bc[b] \in Bcast
    BY Known DEF Rows
  \* a step that airs nothing new
  <1>a. ASSUME \A o \in Orgs : org[o].live => org'[o].live,
               place # {} => place' # {},
               \A b \in Broadcasts : bc'[b].state \in {"active", "expired"} =>
                 bc[b].state \in {"active", "expired"} /\ bc'[b].o = bc[b].o
        PROVE  Aired'
    BY <1>a DEF Aired
  <1>b. ASSUME \A o \in Orgs : org[o].live => org'[o].live, UNCHANGED <<bc, place>> PROVE Aired'
    BY <1>a, <1>b
  <1>1. CASE UNCHANGED vars
    BY <1>1, <1>b DEF vars, orgs, content
  <1>2. CASE MailStep
    BY <1>2, <1>b DEF MailStep, ChallengeRead, ChallengeInsert, ChallengeExpires, ConfirmRead,
       CountAttempt, Consume, RecordIdentifier, orgs, content
  <1>3. CASE HandStep
    BY <1>3, <1>b DEF HandStep, ManualRead, RecordByHand, QueueReview, ApproveRead, AdmitReview,
       DecideReview, RejectRead, RejectReview, orgs, content
  <1>4. CASE OrgStep
    <2>1. UNCHANGED content
      BY <1>4 DEF OrgStep, LinkInsert, CreateOrg, LinkRead, PatchOrg
    <2> QED
      BY <1>4, <1>b, <2>1, OrgTyped DEF Elsewhere, content
  <1>5. CASE AccountStep
    <2>1. UNCHANGED content
      BY <1>5 DEF AccountStep, AccountMake, AccountFind, AccountClaim, DropEvents, DropAccount,
         AccountRead, CreateAccount, PatchAccount, EventOf, DeleteRead
    <2> QED
      BY <1>5, <1>b, <2>1, AccountTyped DEF Elsewhere, content
  <1>6. CASE Restart
    BY <1>6, <1>b DEF Restart, orgs, content
  <1>7. ASSUME NEW r \in Requests, Promote(r) PROVE Aired'
    BY <1>7, <1>b, PromoteTyped DEF Promote, content
  <1>8. CASE ContentStep
    <2>0. UNCHANGED org
      BY <1>8 DEF ContentStep, PlaceRead, PlaceInsert, RetractRead, RetractWrite, Broadcast,
         BroadcastExpires, CreateList, AddItem, RemoveItem, orgs
    <2>1. ASSUME NEW k \in Keys, NEW o \in Orgs, NEW b \in Broadcasts, Broadcast(k, o, b) PROVE Aired'
      <3>1. /\ bc'[b].o = o /\ org[o].live /\ place # {} /\ place' = place
            /\ \A x \in Broadcasts : x # b => bc'[x] = bc[x]
        BY <1>0, <2>1 DEF Broadcast
      <3> QED
        BY <2>0, <3>1 DEF Aired
    <2>2. ASSUME NEW b \in Broadcasts, BroadcastExpires(b) PROVE Aired'
      <3>1. /\ bc'[b].o = bc[b].o /\ bc[b].state = "active" /\ place' = place
            /\ \A x \in Broadcasts : x # b => bc'[x] = bc[x]
        BY <1>0, <2>2 DEF BroadcastExpires, Bcast
      <3> QED
        BY <1>a, <2>0, <3>1
    <2>3. ASSUME NEW r \in Requests, RetractWrite(r) PROVE Aired'
      <3> PICK b \in Broadcasts : b = req[r].b
        BY <2>3, Known, ReqIs DEF RetractWrite, At
      <3>1. bc' = bc \/ bc' = [bc EXCEPT ![b].state = "retracted"]
        BY <2>3 DEF RetractWrite
      <3>2. /\ place' = place
            /\ \A x \in Broadcasts : bc'[x] = bc[x] \/ bc'[x].state = "retracted"
        BY <1>0, <2>3, <3>1 DEF RetractWrite, Bcast
      <3> QED
        BY <1>a, <2>0, <3>2
    <2>4. ASSUME NEW r \in Requests, PlaceInsert(r) PROVE Aired'
      BY <1>a, <2>0, <2>4 DEF PlaceInsert
    <2>5. ASSUME UNCHANGED <<bc, place>> PROVE Aired'
      BY <1>b, <2>0, <2>5
    <2>6. ASSUME NEW r \in Requests, NEW p \in Places, PlaceRead(r, p) PROVE Aired'
      BY <2>5, <2>6 DEF PlaceRead, content
    <2>7. ASSUME NEW r \in Requests, NEW k \in Keys, NEW b \in Broadcasts, RetractRead(r, k, b) PROVE Aired'
      BY <2>5, <2>7 DEF RetractRead, content
    <2>8. ASSUME NEW k \in Keys, NEW o \in Orgs, CreateList(k, o) PROVE Aired'
      BY <2>5, <2>8 DEF CreateList
    <2>9. ASSUME NEW k \in Keys, NEW p \in Positions, NEW x \in Items, AddItem(k, p, x) PROVE Aired'
      BY <2>5, <2>9 DEF AddItem
    <2>10. ASSUME NEW k \in Keys, NEW p \in Positions, RemoveItem(k, p) PROVE Aired'
      BY <2>5, <2>10 DEF RemoveItem
    <2> QED
      BY <1>8, <2>1, <2>2, <2>3, <2>4, <2>6, <2>7, <2>8, <2>9, <2>10 DEF ContentStep
  <1> QED
    BY <1>1, <1>2, <1>3, <1>4, <1>5, <1>6, <1>7, <1>8 DEF Next

\* what a filter lets through, for every way to give its three parts
LEMMA FilterIs ==
  ASSUME Rows, NEW v \in {"true", "false", "any"}, NEW by \in SUBSET Keys, NEW notBy \in SUBSET Keys,
         NEW o \in Orgs
  PROVE  Admits(IdFilter(v, by, notBy), o) <=> /\ v = "true"  => ShownBy(o) # {}
                                               /\ v = "false" => ShownBy(o) = {}
                                               /\ by # {}     => ShownBy(o) \cap by # {}
                                               /\ ShownBy(o) \cap notBy = {}
  <1> DEFINE every   == VerifiedOrgs(Keys)
             start   == IF v = "true" THEN every ELSE Orgs
             allowed == IF by = {} THEN start ELSE start \cap VerifiedOrgs(by)
             exclude == (IF v = "false" THEN every ELSE {}) \cup VerifiedOrgs(notBy)
             all     == v # "true" /\ by = {}
  <1>1. \A S \in SUBSET Keys : /\ o \in VerifiedOrgs(S) <=> ShownBy(o) \cap S # {}
                               /\ VerifiedOrgs(S) \subseteq Orgs
    BY DEF VerifiedOrgs, ShownBy, Rows, Verif
  <1>2. ShownBy(o) \subseteq Keys
    BY DEF ShownBy, Rows, Verif
  <1>3. o \in every <=> ShownBy(o) # {}
    BY <1>1, <1>2
  <1>4. IdFilter(v, by, notBy) =
          CASE all /\ exclude = {} -> [kind |-> "all"]
            [] all /\ exclude # {} -> [kind |-> "exclude", ids |-> exclude]
            [] OTHER -> IF allowed \subseteq exclude THEN [kind |-> "empty"]
                        ELSE [kind |-> "include", ids |-> allowed \ exclude]
    BY DEF IdFilter
  <1>5. Admits(IdFilter(v, by, notBy), o) <=> (all \/ o \in allowed) /\ o \notin exclude
    <2> HIDE DEF every, allowed, exclude, all
    <2>1. CASE all /\ exclude = {}
      <3>1. IdFilter(v, by, notBy) = [kind |-> "all"]
        BY <1>4, <2>1
      <3> QED
        BY <2>1, <3>1 DEF Admits
    <2>2. CASE all /\ exclude # {}
      <3>1. IdFilter(v, by, notBy) = [kind |-> "exclude", ids |-> exclude]
        BY <1>4, <2>2
      <3> QED
        BY <2>2, <3>1 DEF Admits
    <2>3. CASE ~all /\ allowed \subseteq exclude
      <3>1. IdFilter(v, by, notBy) = [kind |-> "empty"]
        BY <1>4, <2>3
      <3> QED
        BY <2>3, <3>1 DEF Admits
    <2>4. CASE ~all /\ ~(allowed \subseteq exclude)
      <3>1. IdFilter(v, by, notBy) = [kind |-> "include", ids |-> allowed \ exclude]
        BY <1>4, <2>4
      <3> QED
        BY <2>4, <3>1 DEF Admits
    <2> QED
      BY <2>1, <2>2, <2>3, <2>4
  <1>6. o \in exclude <=> (v = "false" /\ ShownBy(o) # {}) \/ ShownBy(o) \cap notBy # {}
    BY <1>1, <1>3
  <1>7. all \/ o \in allowed <=> (v = "true" => ShownBy(o) # {}) /\ (by # {} => ShownBy(o) \cap by # {})
    BY <1>1, <1>3
  <1> HIDE DEF all, allowed, exclude
  <1> QED
    BY <1>5, <1>6, <1>7

LEMMA RoutesHold == Typed /\ Aired => DirectoryRoutesAgree
  <1> SUFFICES ASSUME Typed, Aired PROVE DirectoryRoutesAgree
    OBVIOUS
  <1>0. Rows
    BY Known
  <1> DEFINE shown == [o \in {x \in Orgs : OrganizationById(x)} |-> ShownBy(o)]
  <1>1. ASSUME NEW v \in {"true", "false", "any"}, NEW by \in SUBSET Keys, NEW notBy \in SUBSET Keys
        PROVE  LET f == IdFilter(v, by, notBy) IN
               /\ OrganizationList(f) =
                    {o \in DOMAIN shown : /\ v = "true"  => shown[o] # {}
                                          /\ v = "false" => shown[o] = {}
                                          /\ by # {}     => shown[o] \cap by # {}
                                          /\ shown[o] \cap notBy = {}}
               /\ \A b \in BroadcastList(f) : BroadcastById(b) /\ bc[b].o \in OrganizationList(f)
    <2> DEFINE f == IdFilter(v, by, notBy)
    <2>1. \A o \in Orgs : Admits(f, o) <=> /\ v = "true"  => ShownBy(o) # {}
                                           /\ v = "false" => ShownBy(o) = {}
                                           /\ by # {}     => ShownBy(o) \cap by # {}
                                           /\ ShownBy(o) \cap notBy = {}
      BY <1>0, FilterIs
    <2> HIDE DEF f
    <2>2. DOMAIN shown = {o \in Orgs : org[o].live} /\ \A o \in DOMAIN shown : shown[o] = ShownBy(o)
      BY DEF OrganizationById
    <2> HIDE DEF shown
    <2>3. OrganizationList(f) =
            {o \in DOMAIN shown : /\ v = "true"  => shown[o] # {}
                                  /\ v = "false" => shown[o] = {}
                                  /\ by # {}     => shown[o] \cap by # {}
                                  /\ shown[o] \cap notBy = {}}
      BY <2>1, <2>2 DEF OrganizationList
    <2>4. \A b \in BroadcastList(f) : BroadcastById(b) /\ bc[b].o \in OrganizationList(f)
      BY DEF BroadcastList, BroadcastById, OrganizationList, Aired
    <2> QED
      BY <2>3, <2>4 DEF f
  <1>2. LET f == IdFilter("any", {}, {}) IN
        PublisherList(f) = {o \in OrganizationList(f) : PublisherById(o)}
    <2>1. \A o \in Orgs : o \in PublisherOrgIds <=> IsPublisherOrg(o)
      BY NoneAssumption DEF PublisherOrgIds, IsPublisherOrg, Published
    <2> QED
      BY <2>1 DEF PublisherList, OrganizationList, PublisherById, OrganizationById
  <1>3. (\E b \in Broadcasts : BroadcastById(b)) => \E p \in Places : PlaceById(p)
    BY <1>0 DEF BroadcastById, PlaceById, Aired, Rows
  <1>4. ASSUME NEW o \in Orgs, NEW i \in Ids, OrganizationById(o)
        PROVE  CASE VerificationPath(o, i) = "mail" -> MailAdmits(o, i)
                 [] VerificationPath(o, i) = "hand" -> HandAdmits(o, i)
                 [] OTHER -> \E x \in verif : x.o = o /\ x.i = i
    <2>1. CASE FindExisting(o, i)
      <3>1. VerificationPath(o, i) = "verified"
        BY <2>1 DEF VerificationPath
      <3> QED
        BY <2>1, <3>1, FoundIs
    <2>2. CASE ~FindExisting(o, i)
      BY <1>4, <2>2 DEF VerificationPath, RequiredMethod, MailAdmits, HandAdmits, OrganizationById
    <2> QED
      BY <2>1, <2>2
  <1> QED
    BY <1>1, <1>2, <1>3, <1>4 DEF DirectoryRoutesAgree

LEMMA Always_Aired == FeedSpec => [](Typed /\ Aired)
  <1>1. Init => Aired
    <2> SUFFICES ASSUME Init PROVE \A b \in Broadcasts : bc[b].state = "none"
      BY DEF Aired
    <2> QED
      BY DEF Init
  <1>2. Spec => [](Typed /\ Aired)
    BY <1>1, InitTyped, TypedStep, AiredKept, PTL DEF Spec
  <1> QED
    BY <1>2, Feed_Directory, PTL

\* The routes never contradict one another: not those of organizations, publishers,
\* broadcasts and verifications, for every filter by verification a reader can ask
\* for, nor those of events, for every order the rows of a query come in.
THEOREM Routes_Agree == FeedSpec => []RoutesAgree
  <1>1. Read => EventRoutesAgree
    BY EventRoutesHold DEF Read
  <1>2. Read /\ Typed /\ Aired => RoutesAgree
    BY <1>1, RoutesHold DEF RoutesAgree
  <1> QED
    BY <1>2, Always_Read, Always_Aired, PTL
=============================================================================
