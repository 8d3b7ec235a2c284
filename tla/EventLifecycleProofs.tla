------------------------ MODULE EventLifecycleProofs ------------------------
(***************************************************************************)
(* Theorems about EventLifecycle for every set of events, requests,        *)
(* dispatches and cron calls, and any number of writes.                    *)
(***************************************************************************)
EXTENDS EventLifecycle, FiniteSetTheorems, TLAPS

-----------------------------------------------------------------------------
(* Attaches and the signals they owe.  A change of one attach changes the  *)
(* number in flight for an event by at most one; the theorem needs that an *)
(* idle attach belongs to no event and a running one to some.              *)

AttachPlaced == \A a \in Attachers : att[a].pc = "idle" <=> att[a].e = None

AttachInv ==
  /\ att \in [Attachers -> Attach]
  /\ owed \in [Events -> Nat]
  /\ AttachPlaced
  /\ EveryAttachSignals

Owing(e, f) == f.e = e /\ ~f.silent

LEMMA AttachingFinite ==
  \A e : IsFiniteSet(Attaching(e)) /\ Cardinality(Attaching(e)) \in Nat
  <1> TAKE e
  <1>1. Attaching(e) \subseteq Attachers
    BY DEF Attaching
  <1>2. IsFiniteSet(Attaching(e))
    BY <1>1, BoundAssumption, FS_Subset
  <1> QED
    BY <1>2, FS_CardinalityType

\* Replacing the state of one attach removes it from the event it was for and
\* adds it to the event it is for.
LEMMA CountReplaced ==
  ASSUME att \in [Attachers -> Attach], NEW a \in Attachers, NEW f \in Attach,
         att' = [att EXCEPT ![a] = f], NEW e
  PROVE  Cardinality(Attaching(e)') =
           Cardinality(Attaching(e)) - (IF Owing(e, att[a]) THEN 1 ELSE 0)
                                     + (IF Owing(e, f) THEN 1 ELSE 0)
  <1> DEFINE rest == Attaching(e) \ {a}
  <1>1. IsFiniteSet(Attaching(e)) /\ Cardinality(Attaching(e)) \in Nat
    BY AttachingFinite
  <1>2. a \in Attaching(e) <=> Owing(e, att[a])
    BY DEF Attaching, Owing
  <1>3. /\ IsFiniteSet(rest)
        /\ Cardinality(rest) =
             Cardinality(Attaching(e)) - (IF Owing(e, att[a]) THEN 1 ELSE 0)
    BY <1>1, <1>2, FS_RemoveElement
  <1>4. Attaching(e)' = IF Owing(e, f) THEN rest \cup {a} ELSE rest
    BY DEF Attaching, Owing
  <1>5. a \notin rest
    OBVIOUS
  <1>6. Cardinality(rest \cup {a}) = Cardinality(rest) + 1
    BY <1>3, <1>5, FS_AddElement
  <1> HIDE DEF rest
  <1> QED
    BY <1>1, <1>3, <1>4, <1>6

\* A new attach that owes a signal.
LEMMA StartKeeps ==
  ASSUME AttachInv, NEW e \in Events, StartAttach(e)
  PROVE  AttachInv'
  <1>1. PICK a \in Attachers :
          /\ att[a].pc = "idle"
          /\ att' = [att EXCEPT ![a] = [pc |-> "gate", e |-> e, silent |-> FALSE]]
    BY DEF StartAttach
  <1> DEFINE f == [pc |-> "gate", e |-> e, silent |-> FALSE]
  <1>2. f \in Attach /\ f.pc # "idle" /\ f.e = e /\ ~f.silent /\ e # None
    BY IdsAssumption DEF Attach
  <1>3. att' = [att EXCEPT ![a] = f]
    BY <1>1
  <1> HIDE DEF f
  <1>4. att' \in [Attachers -> Attach] /\ AttachPlaced'
    BY <1>2, <1>3 DEF AttachInv, AttachPlaced
  <1>5. owed' = [owed EXCEPT ![e] = owed[e] + 1]
    BY DEF StartAttach
  <1>6. owed' \in [Events -> Nat]
    BY <1>5 DEF AttachInv
  <1>7. ASSUME NEW d \in Events PROVE owed'[d] = Cardinality(Attaching(d)')
    <2>1. att[a].e = None
      BY <1>1 DEF AttachInv, AttachPlaced
    <2>2. ~Owing(d, att[a]) /\ (Owing(d, f) <=> d = e)
      BY <2>1, <1>2, IdsAssumption DEF Owing
    <2>3. Cardinality(Attaching(d)') =
            Cardinality(Attaching(d)) - (IF Owing(d, att[a]) THEN 1 ELSE 0)
                                      + (IF Owing(d, f) THEN 1 ELSE 0)
      BY <1>2, <1>3, CountReplaced DEF AttachInv
    <2>4. owed[d] = Cardinality(Attaching(d)) /\ owed[d] \in Nat
      BY DEF AttachInv, EveryAttachSignals
    <2>5. owed'[d] = IF d = e THEN owed[d] + 1 ELSE owed[d]
      BY <1>5 DEF AttachInv
    <2> QED
      BY <2>2, <2>3, <2>4, <2>5
  <1> QED
    BY <1>4, <1>6, <1>7 DEF AttachInv, EveryAttachSignals

\* A running attach that goes on, or an upload that starts: nothing more is owed.
LEMMA GoesOnKeeps ==
  ASSUME AttachInv, NEW a \in Attachers, NEW f \in Attach,
         f.pc # "idle", f.e \in Events,
         f.silent \/ (f.e = att[a].e /\ ~att[a].silent),
         att[a].e = None \/ (f.e = att[a].e /\ f.silent = att[a].silent),
         att' = [att EXCEPT ![a] = f], UNCHANGED owed
  PROVE  AttachInv'
  <1>1. att' \in [Attachers -> Attach] /\ AttachPlaced'
    BY IdsAssumption DEF AttachInv, AttachPlaced
  <1>2. ASSUME NEW d \in Events PROVE owed'[d] = Cardinality(Attaching(d)')
    <2>1. Owing(d, att[a]) <=> Owing(d, f)
      BY IdsAssumption DEF Owing
    <2>2. Cardinality(Attaching(d)') =
            Cardinality(Attaching(d)) - (IF Owing(d, att[a]) THEN 1 ELSE 0)
                                      + (IF Owing(d, f) THEN 1 ELSE 0)
      BY CountReplaced DEF AttachInv
    <2>3. Cardinality(Attaching(d)) \in Nat
      BY AttachingFinite
    <2>4. owed'[d] = Cardinality(Attaching(d))
      BY DEF AttachInv, EveryAttachSignals
    <2> QED
      BY <2>1, <2>2, <2>3, <2>4
  <1> QED
    BY <1>1, <1>2 DEF AttachInv, EveryAttachSignals

\* A terminal outcome.
LEMMA EndKeeps ==
  ASSUME AttachInv, NEW a \in Attachers, att[a].pc # "idle", AttachEnds(a)
  PROVE  AttachInv'
  <1>1. NoAttach \in Attach /\ NoAttach.pc = "idle" /\ NoAttach.e = None
    BY DEF NoAttach, Attach
  <1>2. att' = [att EXCEPT ![a] = NoAttach]
    BY DEF AttachEnds
  <1>3. att' \in [Attachers -> Attach] /\ AttachPlaced'
    BY <1>1, <1>2 DEF AttachInv, AttachPlaced
  <1>4. att[a].e \in Events /\ att[a].silent \in BOOLEAN
    BY DEF AttachInv, AttachPlaced, Attach
  <1>5. ASSUME NEW d \in Events
        PROVE  owed'[d] \in Nat /\ owed'[d] = Cardinality(Attaching(d)')
    <2>1. ~Owing(d, NoAttach)
      BY <1>1, IdsAssumption DEF Owing
    <2>2. Cardinality(Attaching(d)') =
            Cardinality(Attaching(d)) - (IF Owing(d, att[a]) THEN 1 ELSE 0)
                                      + (IF Owing(d, NoAttach) THEN 1 ELSE 0)
      BY <1>1, <1>2, CountReplaced DEF AttachInv
    <2>3. Cardinality(Attaching(d)) \in Nat /\ owed[d] = Cardinality(Attaching(d))
      BY AttachingFinite DEF AttachInv, EveryAttachSignals
    <2>4. owed'[d] = owed[d] - (IF Owing(d, att[a]) THEN 1 ELSE 0)
      BY <1>4, <2>3 DEF AttachEnds, Signalled, Owing, AttachInv
    <2>5. Cardinality(Attaching(d)') \in Nat
      <3>1. Attaching(d)' \subseteq Attachers
        BY DEF Attaching
      <3> QED
        BY <3>1, BoundAssumption, FS_Subset, FS_CardinalityType
    <2> QED
      BY <2>1, <2>2, <2>3, <2>4, <2>5
  <1>6. owed' \in [Events -> Nat]
    <2>1. \A d \in Events : owed'[d] \in Nat
      BY <1>5
    <2>2. DOMAIN owed' = Events /\ owed' = [d \in Events |-> owed'[d]]
      BY DEF AttachEnds, Signalled, AttachInv
    <2> QED
      BY <2>1, <2>2
  <1> QED
    BY <1>3, <1>5, <1>6 DEF AttachInv, EveryAttachSignals

LEMMA MaybeAttachKeeps ==
  ASSUME AttachInv, NEW e \in Events, NEW image, MaybeAttach(e, image)
  PROVE  AttachInv'
  <1>1. CASE image = "attach"
    BY <1>1, StartKeeps DEF MaybeAttach
  <1>2. CASE image # "attach"
    BY <1>2 DEF MaybeAttach, AttachInv, AttachPlaced, EveryAttachSignals, Attaching
  <1> QED
    BY <1>1, <1>2

-----------------------------------------------------------------------------
(* The other variables.  A request under way and a dispatch are about an   *)
(* event: the row they read next is a row.                                 *)

PatchInv  == /\ patch \in [Patchers -> Patch]
             /\ \A p \in Patchers : patch[p].pc # "idle" => patch[p].e \in Events
SendInv   == /\ send \in [Senders -> Sender]
             /\ \A x \in Senders : send[x].pc # "idle" => send[x].e \in Events
RowInv    == row \in [Events -> Row] /\ rev \in Revs
StoreInv  == /\ stored \subseteq Events
             /\ rem \in [Removers -> Remove] /\ verify \in [Verifiers -> Verify]
OutInv    == seen \in [Events -> SUBSET Revs]

TypeInv == PatchInv /\ SendInv /\ RowInv /\ StoreInv /\ OutInv /\ AttachInv

LEMMA WriteKeeps ==
  ASSUME RowInv, NEW e, NEW st \in {"none", "published", "hidden", "gone"},
         NEW loud \in BOOLEAN, NEW cover \in BOOLEAN, Write(e, st, loud, cover)
  PROVE  RowInv'
  <1> DEFINE new == [st |-> st, rev |-> rev + 1, loud |-> loud, cover |-> cover]
  <1>1. rev + 1 \in Revs /\ rev' = rev + 1
    BY BoundAssumption DEF RowInv, Revs, Write
  <1>2. new \in Row
    BY <1>1 DEF Row
  <1>3. row' = [row EXCEPT ![e] = new]
    BY DEF Write
  <1> HIDE DEF new
  <1> QED
    BY <1>1, <1>2, <1>3 DEF RowInv

LEMMA RowOf ==
  ASSUME RowInv, NEW e \in Events
  PROVE  /\ row[e].st \in {"none", "published", "hidden", "gone"}
         /\ row[e].rev \in Revs /\ row[e].loud \in BOOLEAN /\ row[e].cover \in BOOLEAN
  BY DEF RowInv, Row

LEMMA WriteCoverKeeps ==
  ASSUME RowInv, NEW e, NEW cover \in BOOLEAN, WriteCover(e, cover), UNCHANGED rev
  PROVE  RowInv'
  <1>1. CASE e \in Events
    <2> DEFINE new == [row[e] EXCEPT !.cover = cover]
    <2>1. new \in Row
      BY <1>1 DEF RowInv, Row
    <2>2. row' = [row EXCEPT ![e] = IF Exists(e) THEN new ELSE row[e]]
      BY DEF WriteCover
    <2> HIDE DEF new
    <2> QED
      BY <1>1, <2>1, <2>2 DEF RowInv
  <1>2. CASE e \notin Events
    BY <1>2 DEF WriteCover, RowInv
  <1> QED
    BY <1>1, <1>2

LEMMA DispatchKeeps ==
  ASSUME SendInv, NEW e \in Events, NEW only \in BOOLEAN, Dispatch(e, only)
  PROVE  SendInv'
  <1> DEFINE new == [pc |-> "read", e |-> e, only |-> only, rev |-> 0]
  <1>1. PICK x \in Senders : send' = [send EXCEPT ![x] = new]
    BY DEF Dispatch
  <1>2. new \in Sender /\ new.e \in Events
    BY BoundAssumption DEF Sender, Revs
  <1> HIDE DEF new
  <1> QED
    BY <1>1, <1>2 DEF SendInv

LEMMA SameAttach ==
  ASSUME AttachInv, UNCHANGED <<att, owed>>
  PROVE  AttachInv'
  BY DEF AttachInv, AttachPlaced, EveryAttachSignals, Attaching

LEMMA SameRest ==
  /\ PatchInv /\ UNCHANGED patch => PatchInv'
  /\ SendInv /\ UNCHANGED send => SendInv'
  /\ RowInv /\ UNCHANGED <<row, rev>> => RowInv'
  /\ StoreInv /\ UNCHANGED <<stored, rem, verify>> => StoreInv'
  /\ OutInv /\ UNCHANGED seen => OutInv'
  BY DEF PatchInv, SendInv, RowInv, StoreInv, OutInv

LEMMA NullsTyped ==
  /\ NoRow \in Row /\ NoPatch \in Patch /\ NoSend \in Sender
  /\ NoAttach \in Attach /\ NoRemove \in Remove /\ NoVerify \in Verify
  /\ NoPatch.pc = "idle" /\ NoSend.pc = "idle" /\ NoAttach.pc = "idle" /\ NoAttach.e = None
  /\ 0 \in Revs
  BY BoundAssumption DEF NoRow, Row, NoPatch, Patch, NoSend, Sender, NoAttach, Attach,
                         NoRemove, Remove, NoVerify, Verify, Revs

LEMMA InitInv == Init => TypeInv
  <1> SUFFICES ASSUME Init PROVE TypeInv
    OBVIOUS
  <1>1. PatchInv /\ SendInv /\ RowInv /\ StoreInv /\ OutInv
    BY NullsTyped DEF Init, PatchInv, SendInv, RowInv, StoreInv, OutInv
  <1>2. AttachPlaced /\ att \in [Attachers -> Attach] /\ owed \in [Events -> Nat]
    BY NullsTyped DEF Init, AttachPlaced
  <1>3. ASSUME NEW e \in Events PROVE owed[e] = Cardinality(Attaching(e))
    <2>1. Attaching(e) = {}
      BY NullsTyped, IdsAssumption DEF Init, Attaching
    <2> QED
      BY <2>1, FS_EmptySet DEF Init
  <1> QED
    BY <1>1, <1>2, <1>3 DEF TypeInv, AttachInv, EveryAttachSignals

LEMMA RequestKeeps == TypeInv /\ Request => TypeInv'
  <1> SUFFICES ASSUME TypeInv, Request PROVE TypeInv'
    OBVIOUS
  <1> USE DEF TypeInv
  <1>1. ASSUME NEW e \in Events, NEW image \in {"keep", "attach"}, CreateEvent(e, image)
        PROVE  TypeInv'
    <2>1. RowInv' /\ SendInv' /\ AttachInv'
      BY <1>1, WriteKeeps, DispatchKeeps, MaybeAttachKeeps DEF CreateEvent
    <2> QED
      BY <1>1, <2>1, SameRest DEF CreateEvent
  <1>2. ASSUME NEW e \in Events, NEW p \in Patchers, PatchRead(p, e)
        PROVE  TypeInv'
    <2> DEFINE new == [pc |-> "write", e |-> e, was |-> row[e].st = "published"]
    <2>1. patch' = [patch EXCEPT ![p] = new] /\ new \in Patch /\ new.e \in Events
      BY <1>2 DEF PatchRead, Patch
    <2> HIDE DEF new
    <2>2. PatchInv'
      BY <2>1 DEF PatchInv
    <2> QED
      BY <1>2, <2>2, SameRest, SameAttach DEF PatchRead, images
  <1>3. ASSUME NEW e \in Events, AssignOrganizer(e)
        PROVE  TypeInv'
    <2>1. RowInv' /\ SendInv'
      BY <1>3, RowOf, WriteKeeps, DispatchKeeps DEF AssignOrganizer
    <2> QED
      BY <1>3, <2>1, SameRest, SameAttach DEF AssignOrganizer, images
  <1>4. ASSUME NEW e \in Events, BatchPatch(e)
        PROVE  TypeInv'
    <2>1. RowInv'
      BY <1>4, RowOf, WriteKeeps DEF BatchPatch
    <2> QED
      BY <1>4, <2>1, SameRest, SameAttach DEF BatchPatch, images
  <1>5. ASSUME NEW e \in Events, DeleteEvent(e)
        PROVE  TypeInv'
    <2>1. [row[e] EXCEPT !.st = "gone"] \in Row
      BY DEF RowInv, Row
    <2>2. RowInv'
      BY <1>5, <2>1 DEF DeleteEvent, RowInv
    <2> QED
      BY <1>5, <2>2, SameRest, SameAttach DEF DeleteEvent, images
  <1>6. ASSUME NEW e \in Events, NEW silent \in BOOLEAN, PostImage(e, silent)
        PROVE  TypeInv'
    <2>1. CASE silent
      <3> DEFINE f == [pc |-> "fetch", e |-> e, silent |-> TRUE]
      <3>1. PICK a \in Attachers : att[a].pc = "idle" /\ att' = [att EXCEPT ![a] = f]
        BY <1>6, <2>1 DEF PostImage
      <3>2. f \in Attach /\ f.pc # "idle" /\ f.e = e /\ f.silent
        BY DEF Attach
      <3>3. att[a].e = None /\ UNCHANGED owed
        BY <1>6, <2>1, <3>1 DEF AttachInv, AttachPlaced, PostImage
      <3> HIDE DEF f
      <3>4. AttachInv'
        BY <3>1, <3>2, <3>3, GoesOnKeeps
      <3> QED
        BY <1>6, <3>4, SameRest DEF PostImage
    <2>2. CASE ~silent
      <3>1. AttachInv'
        BY <1>6, <2>2, StartKeeps DEF PostImage
      <3> QED
        BY <1>6, <3>1, SameRest DEF PostImage
    <2> QED
      BY <2>1, <2>2
  <1>7. ASSUME NEW e \in Events, NEW r \in Removers, RemoveRead(r, e)
        PROVE  TypeInv'
    <2>1. [pc |-> "object", e |-> e] \in Remove
      BY DEF Remove
    <2>2. StoreInv'
      BY <1>7, <2>1 DEF RemoveRead, StoreInv
    <2> QED
      BY <1>7, <2>2, SameRest, SameAttach DEF RemoveRead
  <1> QED
    BY <1>1, <1>2, <1>3, <1>4, <1>5, <1>6, <1>7 DEF Request

LEMMA PatchKeeps == ASSUME TypeInv, NEW p \in Patchers, PatchStep(p) PROVE TypeInv'
  <1> USE DEF TypeInv
  <1>1. [patch EXCEPT ![p] = NoPatch] \in [Patchers -> Patch]
    BY NullsTyped DEF PatchInv
  <1>2. patch' = [patch EXCEPT ![p] = NoPatch]
    BY DEF PatchStep, PatchWrite, PatchFails
  <1>3. PatchInv'
    BY <1>1, <1>2, NullsTyped DEF PatchInv
  <1>4. ASSUME NEW status \in {"same", "published", "hidden"},
               NEW image \in {"keep", "clear", "attach"}, NEW columns \in BOOLEAN,
               PatchWrite(p, status, image, columns)
        PROVE  TypeInv'
    <2> DEFINE e == patch[p].e
    <2>1. e \in Events
      BY <1>4 DEF PatchInv, PatchWrite
    <2>2. RowInv'
      <3>1. CASE columns
        <4>1. /\ (IF status = "same" THEN row[e].st ELSE status)
                   \in {"none", "published", "hidden", "gone"}
              /\ (row[e].cover /\ image # "clear") \in BOOLEAN
          BY <2>1, RowOf
        <4>2. Write(e, IF status = "same" THEN row[e].st ELSE status, TRUE,
                    row[e].cover /\ image # "clear")
          BY <1>4, <3>1 DEF PatchWrite
        <4> QED
          BY <4>1, <4>2, WriteKeeps
      <3>2. CASE ~columns
        BY <1>4, <3>2, SameRest DEF PatchWrite
      <3> QED
        BY <3>1, <3>2
    <2>3. SendInv'
      <3>1. OnlyPublished(status, patch[p].was) \in BOOLEAN
        BY DEF OnlyPublished, FirstTime
      <3> QED
        BY <1>4, <2>1, <3>1, DispatchKeeps DEF PatchWrite
    <2>4. AttachInv'
      BY <1>4, <2>1, MaybeAttachKeeps DEF PatchWrite
    <2> QED
      BY <1>3, <1>4, <2>2, <2>3, <2>4, SameRest DEF PatchWrite
  <1>5. CASE PatchFails(p)
    BY <1>3, <1>5, SameRest, SameAttach DEF PatchFails, images
  <1> QED
    BY <1>4, <1>5 DEF PatchStep

LEMMA SendKeeps == ASSUME TypeInv, NEW x \in Senders, SendStep(x) PROVE TypeInv'
  <1> USE DEF TypeInv
  <1> DEFINE f == send[x]
  <1>1. CASE SendRead(x)
    <2>1. f.pc = "read" /\ f \in Sender /\ f.e \in Events
      BY <1>1 DEF SendRead, SendInv
    <2> DEFINE new == [f EXCEPT !.pc = "emit", !.rev = row[f.e].rev]
    <2>2. new \in Sender /\ new.e \in Events
      BY <2>1, RowOf DEF Sender
    <2>3. \/ send' = [send EXCEPT ![x] = NoSend]
          \/ send' = [send EXCEPT ![x] = new]
      BY <1>1 DEF SendRead
    <2> HIDE DEF new
    <2>4. SendInv'
      BY <2>2, <2>3, NullsTyped DEF SendInv
    <2> QED
      BY <1>1, <2>4, SameRest, SameAttach DEF SendRead, images
  <1>2. CASE SendEmit(x)
    <2>1. f.pc = "emit" /\ f.rev \in Revs /\ f.e \in Events
      BY <1>2 DEF SendEmit, SendInv, Sender
    <2>2. OutInv'
      BY <1>2, <2>1 DEF SendEmit, OutInv
    <2>3. SendInv'
      BY <1>2, NullsTyped DEF SendEmit, SendInv
    <2> QED
      BY <1>2, <2>2, <2>3, SameRest, SameAttach DEF SendEmit, images
  <1> QED
    BY <1>1, <1>2 DEF SendStep

LEMMA AttachKeeps == ASSUME TypeInv, NEW a \in Attachers, AttachStep(a) PROVE TypeInv'
  <1> USE DEF TypeInv
  <1>0. /\ att[a].pc # "idle"
        /\ att[a] \in Attach /\ att[a].e \in Events
    BY DEF AttachStep, AttachGate, AttachFetch, AttachWrite, AttachInv, AttachPlaced, Attach
  <1>1. ASSUME NEW pc \in {"fetch", "write"}, att' = [att EXCEPT ![a].pc = pc], UNCHANGED owed
        PROVE  AttachInv'
    <2> DEFINE f == [att[a] EXCEPT !.pc = pc]
    <2>1. /\ att' = [att EXCEPT ![a] = f] /\ f \in Attach
          /\ f.pc # "idle" /\ f.e = att[a].e /\ f.silent = att[a].silent
      BY <1>0, <1>1 DEF Attach, AttachInv
    <2>2. f.silent \/ ~att[a].silent
      BY <2>1, <1>0 DEF Attach
    <2> HIDE DEF f
    <2> QED
      BY <1>0, <1>1, <2>1, <2>2, GoesOnKeeps
  <1>2. CASE AttachGate(a)
    <2>1. AttachInv'
      BY <1>0, <1>1, <1>2, EndKeeps DEF AttachGate, Refused
    <2> QED
      BY <1>2, <2>1, SameRest DEF AttachGate
  <1>3. CASE AttachFetch(a)
    <2>1. AttachInv'
      BY <1>0, <1>1, <1>3, EndKeeps DEF AttachFetch
    <2>2. StoreInv'
      BY <1>0, <1>3 DEF AttachFetch, StoreInv
    <2> QED
      BY <1>3, <2>1, <2>2, SameRest DEF AttachFetch
  <1>4. CASE AttachWrite(a)
    <2>1. AttachInv'
      BY <1>0, <1>4, EndKeeps DEF AttachWrite
    <2>2. RowInv'
      BY <1>4, WriteCoverKeeps, SameRest DEF AttachWrite
    <2> QED
      BY <1>4, <2>1, <2>2, SameRest DEF AttachWrite
  <1> QED
    BY <1>2, <1>3, <1>4 DEF AttachStep

LEMMA RemoveKeeps == ASSUME TypeInv, NEW r \in Removers, RemoveStep(r) PROVE TypeInv'
  <1> USE DEF TypeInv
  <1>1. CASE RemoveObject(r)
    <2>1. [rem[r] EXCEPT !.pc = "row"] \in Remove
      BY DEF StoreInv, Remove
    <2>2. rem' = [rem EXCEPT ![r] = [rem[r] EXCEPT !.pc = "row"]]
      BY <1>1 DEF RemoveObject, StoreInv
    <2>3. StoreInv'
      BY <1>1, <2>1, <2>2 DEF RemoveObject, StoreInv
    <2> QED
      BY <1>1, <2>3, SameRest, SameAttach DEF RemoveObject
  <1>2. CASE RemoveRow(r)
    <2>1. StoreInv'
      BY <1>2, NullsTyped DEF RemoveRow, StoreInv
    <2>2. RowInv'
      BY <1>2, WriteCoverKeeps, SameRest DEF RemoveRow
    <2> QED
      BY <1>2, <2>1, <2>2, SameRest, SameAttach DEF RemoveRow
  <1> QED
    BY <1>1, <1>2 DEF RemoveStep

LEMMA VerifyKeeps == ASSUME TypeInv, NEW v \in Verifiers, VerifyStep(v) PROVE TypeInv'
  <1> USE DEF TypeInv
  <1>0. verify[v] \in Verify
    BY DEF StoreInv
  <1>1. ASSUME NEW e PROVE Probed(v, e) \in Verify
    BY <1>0, NullsTyped DEF Probed, Verify
  <1>2. ASSUME NEW new \in Verify, verify' = [verify EXCEPT ![v] = new], UNCHANGED <<stored, rem>>
        PROVE  StoreInv'
    BY <1>2 DEF StoreInv
  <1>3. ASSUME NEW batch \in SUBSET Covers, VerifySelect(v, batch)
        PROVE  TypeInv'
    <2>1. [pc |-> "probe", todo |-> batch, e |-> None] \in Verify
      BY DEF Verify, Covers
    <2>2. StoreInv'
      BY <1>2, <1>3, <2>1 DEF VerifySelect
    <2> QED
      BY <1>3, <2>2, SameRest, SameAttach DEF VerifySelect
  <1>4. ASSUME NEW e \in Events, VerifyPass(v, e)
        PROVE  TypeInv'
    <2>1. StoreInv'
      BY <1>1, <1>2, <1>4 DEF VerifyPass
    <2> QED
      BY <1>4, <2>1, SameRest, SameAttach DEF VerifyPass
  <1>5. ASSUME NEW e \in Events, VerifyBroken(v, e)
        PROVE  TypeInv'
    <2>1. [verify[v] EXCEPT !.pc = "clear", !.e = e] \in Verify
      BY <1>0 DEF Verify
    <2>2. StoreInv'
      BY <1>2, <1>5, <2>1 DEF VerifyBroken
    <2> QED
      BY <1>5, <2>2, SameRest, SameAttach DEF VerifyBroken
  <1>6. CASE VerifyClear(v)
    <2>1. StoreInv'
      BY <1>1, <1>2, <1>6 DEF VerifyClear
    <2>2. RowInv'
      BY <1>6, WriteCoverKeeps DEF VerifyClear
    <2> QED
      BY <1>6, <2>1, <2>2, SameRest, SameAttach DEF VerifyClear
  <1>7. CASE VerifyClearRefused(v)
    <2>1. StoreInv'
      BY <1>1, <1>2, <1>7 DEF VerifyClearRefused
    <2> QED
      BY <1>7, <2>1, SameRest, SameAttach DEF VerifyClearRefused
  <1> QED
    BY <1>3, <1>4, <1>5, <1>6, <1>7 DEF VerifyStep

LEMMA StepInv == TypeInv /\ [Next]_vars => TypeInv'
  <1> SUFFICES ASSUME TypeInv, [Next]_vars PROVE TypeInv'
    OBVIOUS
  <1>1. CASE UNCHANGED vars
    BY <1>1, SameRest, SameAttach DEF TypeInv, vars
  <1>2. CASE Next
    BY <1>2, RequestKeeps, PatchKeeps, SendKeeps, AttachKeeps, RemoveKeeps, VerifyKeeps DEF Next
  <1> QED
    BY <1>1, <1>2

LEMMA TypesInductive == Spec => []TypeInv
  BY InitInv, StepInv, PTL DEF Spec

-----------------------------------------------------------------------------
\* Every variable keeps its type, in particular the count of webhooks owed by
\* attaches (src/lib/image-processing.ts) never drops below zero.
THEOREM TypeCorrect == Spec => []TypeOK
  <1>1. TypeInv => TypeOK
    BY DEF TypeInv, PatchInv, SendInv, RowInv, StoreInv, OutInv, AttachInv, TypeOK
  <1> QED
    BY <1>1, TypesInductive, PTL

\* Every call of downloadAndAttachImage sends event.image_processed once, on
\* whichever of its outcomes: as many are owed for an event as are in flight.
THEOREM AttachesSignal == Spec => []EveryAttachSignals
  <1>1. TypeInv => EveryAttachSignals
    BY DEF TypeInv, AttachInv
  <1> QED
    BY <1>1, TypesInductive, PTL

-----------------------------------------------------------------------------
(* No edit goes unannounced.  What a published event shows was sent, is    *)
(* about to be sent, or is yet to be read by a dispatch: a dispatch that   *)
(* reads later than the edit sends it, one that read it sends it.          *)

Carries(x, e) ==
  /\ send[x].e = e
  /\ \/ send[x].pc = "read"
     \/ send[x].pc = "emit" /\ send[x].rev = row[e].rev

UnderWay(e) ==
  (row[e].st = "published" /\ row[e].loud) =>
     (row[e].rev \in seen[e] \/ \E x \in Senders : Carries(x, e))

Underway == \A e \in Events : UnderWay(e)

\* A route that dispatches covers the event it wrote, whatever it wrote.
LEMMA DispatchCovers ==
  ASSUME TypeInv, NEW e \in Events, NEW only, Dispatch(e, only)
  PROVE  /\ \E x \in Senders : Carries(x, e)'
         /\ \A x \in Senders : send[x].pc # "idle" => send'[x] = send[x]
  <1> DEFINE new == [pc |-> "read", e |-> e, only |-> only, rev |-> 0]
  <1>1. PICK x \in Senders : send[x].pc = "idle" /\ send' = [send EXCEPT ![x] = new]
    BY DEF Dispatch
  <1>2. send'[x] = new
    BY <1>1 DEF TypeInv, SendInv
  <1> QED
    BY <1>1, <1>2 DEF Carries, TypeInv, SendInv

\* What a step leaves alone stays covered.
LEMMA StaysCovered ==
  ASSUME TypeInv, Underway, NEW e \in Events,
         row'[e].st = "published" => row[e].st = "published",
         row'[e].rev = row[e].rev, row'[e].loud => row[e].loud,
         UNCHANGED seen,
         \A x \in Senders : send[x].pc # "idle" => send'[x] = send[x]
  PROVE  UnderWay(e)'
  BY DEF Underway, UnderWay, Carries

\* A write of one event by a route that dispatches.
LEMMA WrittenCovered ==
  ASSUME TypeInv, Underway, NEW e \in Events, NEW only, Dispatch(e, only), UNCHANGED seen,
         \A d \in Events : d # e => row'[d] = row[d]
  PROVE  Underway'
  <1> SUFFICES ASSUME NEW d \in Events PROVE UnderWay(d)'
    BY DEF Underway
  <1>1. CASE d = e
    BY <1>1, DispatchCovers DEF UnderWay
  <1>2. CASE d # e
    <2>1. row'[d] = row[d]
      BY <1>2
    <2> QED
      BY <2>1, DispatchCovers, StaysCovered
  <1> QED
    BY <1>1, <1>2

LEMMA WriteLeaves ==
  ASSUME NEW e, NEW st, NEW loud, NEW cover, Write(e, st, loud, cover), RowInv
  PROVE  \A d \in Events : d # e => row'[d] = row[d]
  BY DEF Write, RowInv

LEMMA CoverLeaves ==
  ASSUME NEW e, NEW cover \in BOOLEAN, WriteCover(e, cover), RowInv
  PROVE  \A d \in Events : /\ row'[d].st = row[d].st
                           /\ row'[d].rev = row[d].rev
                           /\ row'[d].loud = row[d].loud
  BY DEF WriteCover, RowInv, Row

\* Steps that touch neither the announcement nor what is announced.
LEMMA QuietCovered ==
  ASSUME TypeInv, Underway, UNCHANGED <<send, seen>>,
         \A d \in Events : /\ row'[d].st = row[d].st
                           /\ row'[d].rev = row[d].rev
                           /\ row'[d].loud = row[d].loud
  PROVE  Underway'
  BY DEF Underway, UnderWay, Carries

LEMMA RequestCovered == ASSUME TypeInv, Underway, Request PROVE Underway'
  <1>0. RowInv
    BY DEF TypeInv
  <1>1. ASSUME NEW e \in Events, NEW image \in {"keep", "attach"}, CreateEvent(e, image)
        PROVE  Underway'
    BY <1>0, <1>1, WriteLeaves, WrittenCovered DEF CreateEvent
  <1>2. ASSUME NEW e \in Events, AssignOrganizer(e)
        PROVE  Underway'
    BY <1>0, <1>2, WriteLeaves, WrittenCovered DEF AssignOrganizer
  <1>3. ASSUME NEW e \in Events, BatchPatch(e) \/ DeleteEvent(e)
        PROVE  Underway'
    <2>1. ~(row'[e].st = "published" /\ row'[e].loud)
      BY <1>0, <1>3 DEF BatchPatch, Write, DeleteEvent, RowInv, Row
    <2>2. ASSUME NEW d \in Events, d # e PROVE row'[d] = row[d]
      BY <1>0, <1>3, <2>2 DEF BatchPatch, Write, DeleteEvent, RowInv
    <2>3. UNCHANGED <<send, seen>>
      BY <1>3 DEF BatchPatch, DeleteEvent
    <2> SUFFICES ASSUME NEW d \in Events PROVE UnderWay(d)'
      BY DEF Underway
    <2>4. CASE d = e
      BY <2>1, <2>4 DEF UnderWay
    <2>5. CASE d # e
      BY <2>2, <2>3, <2>5, StaysCovered
    <2> QED
      BY <2>4, <2>5
  <1>4. CASE \E e \in Events :
               \/ \E p \in Patchers : PatchRead(p, e)
               \/ \E silent \in BOOLEAN : PostImage(e, silent)
               \/ \E r \in Removers : RemoveRead(r, e)
    BY <1>4, QuietCovered DEF PatchRead, PostImage, RemoveRead
  <1> QED
    BY <1>1, <1>2, <1>3, <1>4 DEF Request

LEMMA PatchCovered ==
  ASSUME TypeInv, Underway, NEW p \in Patchers, PatchStep(p) PROVE Underway'
  <1>1. ASSUME NEW status \in {"same", "published", "hidden"},
               NEW image \in {"keep", "clear", "attach"}, NEW columns \in BOOLEAN,
               PatchWrite(p, status, image, columns)
        PROVE  Underway'
    <2> DEFINE e == patch[p].e
    <2>1. e \in Events
      BY <1>1 DEF TypeInv, PatchInv, PatchWrite
    <2>2. \A d \in Events : d # e => row'[d] = row[d]
      <3>1. UNCHANGED row \/ \E new : row' = [row EXCEPT ![e] = new]
        BY <1>1 DEF PatchWrite, Write
      <3> QED
        BY <3>1 DEF TypeInv, RowInv
    <2>3. Dispatch(e, OnlyPublished(status, patch[p].was)) /\ UNCHANGED seen
      BY <1>1 DEF PatchWrite
    <2> QED
      BY <2>1, <2>2, <2>3, WrittenCovered
  <1>2. CASE PatchFails(p)
    BY <1>2, QuietCovered DEF PatchFails
  <1> QED
    BY <1>1, <1>2 DEF PatchStep

\* The dispatch that carried the revision sends it, or reads it on the way; a
\* dispatch gives up only on a row that is not published.
LEMMA SendCovered ==
  ASSUME TypeInv, Underway, NEW x \in Senders, SendStep(x) PROVE Underway'
  <1> SUFFICES ASSUME NEW e \in Events, row[e].st = "published", row[e].loud
               PROVE  row[e].rev \in seen'[e] \/ \E y \in Senders : Carries(y, e)'
    BY DEF Underway, UnderWay, SendStep, SendRead, SendEmit
  <1>0. UNCHANGED row
    BY DEF SendStep, SendRead, SendEmit
  <1>1. CASE row[e].rev \in seen[e]
    <2>1. row[e].rev \in seen'[e]
      BY <1>1 DEF SendStep, SendRead, SendEmit, TypeInv, OutInv
    <2> QED
      BY <2>1
  <1>2. ASSUME NEW y \in Senders, Carries(y, e), y # x
        PROVE  Carries(y, e)'
    BY <1>0, <1>2 DEF SendStep, SendRead, SendEmit, Carries, TypeInv, SendInv
  <1>3. CASE Carries(x, e)
    <2>1. CASE SendRead(x)
      <3>1. send[x].e = e /\ Exists(e)
        BY <1>3 DEF Carries, Exists
      <3>2. send'[x] = [send[x] EXCEPT !.pc = "emit", !.rev = row[e].rev]
        BY <2>1, <3>1 DEF SendRead, TypeInv, SendInv
      <3>3. send[x] \in Sender
        BY DEF TypeInv, SendInv
      <3>4. Carries(x, e)'
        BY <1>0, <3>1, <3>2, <3>3 DEF Carries, Sender
      <3> QED
        BY <3>4
    <2>2. CASE SendEmit(x)
      <3>1. send[x].e = e /\ send[x].rev = row[e].rev
        BY <1>3, <2>2 DEF Carries, SendEmit
      <3>2. row[e].rev \in seen'[e]
        BY <2>2, <3>1 DEF SendEmit, TypeInv, OutInv
      <3> QED
        BY <3>2
    <2> QED
      BY <2>1, <2>2 DEF SendStep
  <1> QED
    BY <1>1, <1>2, <1>3 DEF Underway, UnderWay

LEMMA BackgroundCovered ==
  ASSUME TypeInv, Underway,
         \/ \E a \in Attachers : AttachStep(a)
         \/ \E r \in Removers : RemoveStep(r)
         \/ \E v \in Verifiers : VerifyStep(v)
         \/ UNCHANGED vars
  PROVE  Underway'
  <1>1. UNCHANGED <<send, seen>>
    BY DEF AttachStep, AttachGate, AttachFetch, AttachWrite, RemoveStep, RemoveObject, RemoveRow,
           VerifyStep, VerifySelect, VerifyPass, VerifyBroken, VerifyClear, VerifyClearRefused, vars
  <1>2. UNCHANGED row \/ \E e : \E cover \in BOOLEAN : WriteCover(e, cover)
    BY DEF AttachStep, AttachGate, AttachFetch, AttachWrite, RemoveStep, RemoveObject, RemoveRow,
           VerifyStep, VerifySelect, VerifyPass, VerifyBroken, VerifyClear, VerifyClearRefused, vars
  <1> QED
    BY <1>1, <1>2, CoverLeaves, QuietCovered DEF TypeInv

LEMMA UnderwayStep == TypeInv /\ Underway /\ [Next]_vars => Underway'
  BY RequestCovered, PatchCovered, SendCovered, BackgroundCovered DEF Next

\* No edit of a published event goes unannounced (dispatchEventWebhookById in
\* src/lib/webhook-delivery.ts): with no dispatch in flight, subscribers were
\* sent the revision it shows, however many requests and dispatches overlapped.
THEOREM EditsAnnounced == Spec => []CurrentAnnounced
  <1>1. Init => Underway
    BY DEF Init, Underway, UnderWay, NoRow
  <1>2. Spec => []Underway
    BY <1>1, UnderwayStep, TypesInductive, PTL DEF Spec
  <1>3. Underway => CurrentAnnounced
    BY IdsAssumption DEF Underway, UnderWay, Carries, CurrentAnnounced, Sending
  <1> QED
    BY <1>2, <1>3, PTL
=============================================================================
