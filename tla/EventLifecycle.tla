---------------------------- MODULE EventLifecycle ----------------------------
(***************************************************************************)
(* Single events (src/routes/service/events.ts), the webhooks their edits  *)
(* dispatch (dispatchEventWebhookById), and their cover images: attached   *)
(* after the response (src/lib/image-processing.ts), uploaded and removed  *)
(* (src/routes/service/images.ts), probed by a cron                        *)
(* (src/lib/image-verification.ts).                                        *)
(*                                                                         *)
(* What an edit writes is one datum, a revision number.  Every SQL         *)
(* statement and every call of the object store is one action.  A write    *)
(* the database refuses ends a request with an error and no effect, so it  *)
(* is a step only where the code goes on regardless.  Any step of the      *)
(* outside world (a download, a probe, the store) may fail.                *)
(***************************************************************************)
EXTENDS Naturals, FiniteSets

CONSTANTS
  Events,       \* ids of events rows
  None,         \* NULL
  Patchers,     \* PATCH /service/events/:id requests at once (bound)
  Senders,      \* dispatches in flight at once (bound)
  Attachers,    \* image downloads and uploads in flight at once (bound)
  Removers,     \* DELETE /service/events/:id/image requests at once (bound)
  Verifiers,    \* calls of the verify-images cron that may overlap (bound)
  BatchSize,    \* BATCH_SIZE: covers one cron call probes, 100 in the code
  MaxRev        \* writes of events (bound)

ASSUME IdsAssumption   == None \notin Events
ASSUME BoundAssumption == /\ MaxRev \in Nat /\ BatchSize \in Nat \ {0}
                          /\ IsFiniteSet(Attachers)

VARIABLES
  row,      \* events rows
  rev,      \* writes so far: a write of the columns makes revision rev + 1
  stored,   \* events whose object is in the store (R2)
  patch,    \* PATCH requests
  send,     \* calls of dispatchEventWebhookById
  att,      \* calls of downloadAndAttachImage, and uploads
  rem,      \* image DELETE requests
  verify,   \* calls of verifyEventImages
  seen,     \* revisions of an event subscribers have been sent
  owed      \* history: image_processed webhooks asked for and not sent

images == <<stored, att, rem, verify, owed>>
vars   == <<row, rev, stored, patch, send, att, rem, verify, seen, owed>>

-----------------------------------------------------------------------------
Revs   == 0 .. MaxRev
Row    == [st    : {"none", "published", "hidden", "gone"},  \* hidden: any other status
           rev   : Revs,
           loud  : BOOLEAN,    \* history: last written by a route that dispatches
           cover : BOOLEAN]    \* event_image_url is the URL of the stored object
Patch  == [pc : {"idle", "write"}, e : Events \cup {None}, was : BOOLEAN] \* wasPublished
Sender == [pc : {"idle", "read", "emit"}, e : Events \cup {None},
           only : BOOLEAN,     \* onlyPublished
           rev : Revs]
Attach == [pc : {"idle", "gate", "fetch", "write"}, e : Events \cup {None},
           silent : BOOLEAN]   \* an upload: the response is its only outcome
Remove == [pc : {"idle", "object", "row"}, e : Events \cup {None}]
Verify == [pc : {"idle", "probe", "clear"}, todo : SUBSET Events, e : Events \cup {None}]

NoRow    == [st |-> "none", rev |-> 0, loud |-> TRUE, cover |-> FALSE]
NoPatch  == [pc |-> "idle", e |-> None, was |-> FALSE]
NoSend   == [pc |-> "idle", e |-> None, only |-> FALSE, rev |-> 0]
NoAttach == [pc |-> "idle", e |-> None, silent |-> FALSE]
NoRemove == [pc |-> "idle", e |-> None]
NoVerify == [pc |-> "idle", todo |-> {}, e |-> None]

\* Every variable keeps its type.
TypeOK ==
  /\ row \in [Events -> Row] /\ rev \in Revs /\ stored \subseteq Events
  /\ patch \in [Patchers -> Patch] /\ send \in [Senders -> Sender]
  /\ att \in [Attachers -> Attach] /\ rem \in [Removers -> Remove]
  /\ verify \in [Verifiers -> Verify]
  /\ seen \in [Events -> SUBSET Revs]
  /\ owed \in [Events -> Nat]

Init ==
  /\ row = [e \in Events |-> NoRow] /\ rev = 0 /\ stored = {}
  /\ patch = [p \in Patchers |-> NoPatch] /\ send = [x \in Senders |-> NoSend]
  /\ att = [a \in Attachers |-> NoAttach] /\ rem = [r \in Removers |-> NoRemove]
  /\ verify = [v \in Verifiers |-> NoVerify]
  /\ seen = [e \in Events |-> {}]
  /\ owed = [e \in Events |-> 0]

Exists(e) == row[e].st \in {"published", "hidden"}

\* UPDATE events SET ... WHERE id = e: the columns, all of them one revision.
Write(e, st, loud, cover) ==
  /\ rev < MaxRev
  /\ rev' = rev + 1
  /\ row' = [row EXCEPT ![e] = [st |-> st, rev |-> rev + 1, loud |-> loud, cover |-> cover]]

WriteCover(e, cover) ==
  row' = [row EXCEPT ![e] = IF Exists(e) THEN [row[e] EXCEPT !.cover = cover] ELSE row[e]]

-----------------------------------------------------------------------------
(* What a request leaves running behind its response. *)

DispatchMutant(e, only) ==
  \E x \in Senders :
    /\ send[x].pc = "idle"
    /\ send' = [send EXCEPT ![x] = [pc |-> "emit", e |-> e, only |-> only,
                                   rev |-> row[e].rev]]
Dispatch(e, only) ==
  \E x \in Senders :
    /\ send[x].pc = "idle"
    /\ send' = [send EXCEPT ![x] = [pc |-> "read", e |-> e, only |-> only, rev |-> 0]]

StartAttach(e) ==
  /\ \E a \in Attachers :
       /\ att[a].pc = "idle"
       /\ att' = [att EXCEPT ![a] = [pc |-> "gate", e |-> e, silent |-> FALSE]]
  /\ owed' = [owed EXCEPT ![e] = owed[e] + 1]

MaybeAttach(e, image) == IF image = "attach" THEN StartAttach(e) ELSE UNCHANGED <<att, owed>>

-----------------------------------------------------------------------------
(* The requests. *)

\* POST /service/events without a recurrence: the row is published at once.
CreateEvent(e, image) ==
  /\ row[e].st = "none"
  /\ Write(e, "published", TRUE, FALSE)
  /\ Dispatch(e, FALSE)
  /\ MaybeAttach(e, image)
  /\ UNCHANGED <<stored, patch, rem, verify, seen>>

\* PATCH /service/events/:id reads the row first, for its status.
PatchRead(p, e) ==
  /\ patch[p].pc = "idle"
  /\ Exists(e)
  /\ patch' = [patch EXCEPT ![p] = [pc |-> "write", e |-> e,
                                    was |-> row[e].st = "published"]]
  /\ UNCHANGED <<row, rev, send, seen, images>>

\* Which webhook follows: event.created the first time consumers can see the
\* event, else event.updated for published rows only.
FirstTime(status, was)     == status = "published" /\ ~was
OnlyPublished(status, was) == ~FirstTime(status, was)

\* status "same": not in the body. A body with an image to attach and nothing
\* else writes no column.
PatchWrite(p, status, image, columns) ==
  LET e == patch[p].e IN
  /\ patch[p].pc = "write"
  /\ (status # "same" \/ image = "clear") => columns
  /\ columns \/ image = "attach"
  /\ Exists(e)
  /\ IF columns
     THEN Write(e, IF status = "same" THEN row[e].st ELSE status, TRUE,
                row[e].cover /\ image # "clear")
     ELSE UNCHANGED <<row, rev>>
  /\ Dispatch(e, OnlyPublished(status, patch[p].was))
  /\ MaybeAttach(e, image)
  /\ patch' = [patch EXCEPT ![p] = NoPatch]
  /\ UNCHANGED <<stored, rem, verify, seen>>

\* The row is gone or the UPDATE is refused: 500 and nothing else. A PATCH that
\* is refused earlier (permissions, photo gate) ends here too.
PatchFails(p) ==
  /\ patch[p].pc = "write"
  /\ patch' = [patch EXCEPT ![p] = NoPatch]
  /\ UNCHANGED <<row, rev, send, seen, images>>

\* PATCH /service/events/:id/organizer notifies whatever the status.
AssignOrganizer(e) ==
  /\ Exists(e)
  /\ Write(e, row[e].st, TRUE, row[e].cover)
  /\ Dispatch(e, FALSE)
  /\ UNCHANGED <<patch, seen, images>>

\* PATCH /service/events/batch dispatches nothing.
BatchPatch(e) ==
  /\ Exists(e)
  /\ Write(e, row[e].st, FALSE, row[e].cover)
  /\ UNCHANGED <<patch, send, seen, images>>

\* DELETE /service/events/:id dispatches nothing and leaves the stored object.
DeleteEvent(e) ==
  /\ Exists(e)
  /\ row' = [row EXCEPT ![e] = [row[e] EXCEPT !.st = "gone"]]
  /\ UNCHANGED <<rev, patch, send, seen, images>>

-----------------------------------------------------------------------------
(* dispatchEventWebhookById: the row is read again, later, and sent. *)

SendRead(x) ==
  LET f == send[x] IN
  /\ f.pc = "read"
  /\ send' = [send EXCEPT ![x] =
       IF ~Exists(f.e) \/ (f.only /\ row[f.e].st # "published") THEN NoSend
       ELSE [f EXCEPT !.pc = "emit", !.rev = row[f.e].rev]]
  /\ UNCHANGED <<row, rev, patch, seen, images>>

SendEmit(x) ==
  LET f == send[x] IN
  /\ f.pc = "emit"
  /\ seen'   = [seen EXCEPT ![f.e] = seen[f.e] \cup {f.rev}]
  /\ send'   = [send EXCEPT ![x] = NoSend]
  /\ UNCHANGED <<row, rev, patch, images>>

-----------------------------------------------------------------------------
(* downloadAndAttachImage, and the upload of a file. *)

\* A terminal outcome: event.image_processed, except for an upload.
SignalledMutant(a) == owed' = [owed EXCEPT ![att[a].e] = owed[att[a].e] - 1]
Signalled(a) ==
  owed' = IF att[a].silent THEN owed ELSE [owed EXCEPT ![att[a].e] = owed[att[a].e] - 1]
AttachEnds(a) == att' = [att EXCEPT ![a] = NoAttach] /\ Signalled(a)

RefusedMutant(a) == att' = [att EXCEPT ![a] = NoAttach] /\ UNCHANGED owed
Refused(a)       == AttachEnds(a)

\* POST /service/events/:id/image with a file, or with a URL.
PostImage(e, silent) ==
  /\ Exists(e)
  /\ IF silent
     THEN /\ \E a \in Attachers :
               /\ att[a].pc = "idle"
               /\ att' = [att EXCEPT ![a] = [pc |-> "fetch", e |-> e, silent |-> TRUE]]
          /\ UNCHANGED owed
     ELSE StartAttach(e)
  /\ UNCHANGED <<row, rev, stored, patch, send, rem, verify, seen>>

\* creator_account_id is read: the row may be gone, the account not permitted.
AttachGate(a) ==
  /\ att[a].pc = "gate"
  /\ \/ Refused(a)
     \/ /\ Exists(att[a].e)
        /\ att' = [att EXCEPT ![a].pc = "fetch"]
        /\ UNCHANGED owed
  /\ UNCHANGED <<row, rev, stored, patch, send, rem, verify, seen>>

\* URL check, download, format, re-encoding, store: a failure of any of them is
\* an outcome; otherwise the object is in the store, under the key of the event.
AttachFetch(a) ==
  /\ att[a].pc = "fetch"
  /\ \/ AttachEnds(a) /\ UNCHANGED stored
     \/ /\ stored' = stored \cup {att[a].e}
        /\ att'    = [att EXCEPT ![a].pc = "write"]
        /\ UNCHANGED owed
  /\ UNCHANGED <<row, rev, patch, send, rem, verify, seen>>

\* The error of the UPDATE is not read.
AttachWrite(a) ==
  /\ att[a].pc = "write"
  /\ WriteCover(att[a].e, TRUE) \/ UNCHANGED row
  /\ AttachEnds(a)
  /\ UNCHANGED <<rev, stored, patch, send, rem, verify, seen>>

-----------------------------------------------------------------------------
(* DELETE /service/events/:id/image: the object, then the row. *)

RemoveRead(r, e) ==
  /\ rem[r].pc = "idle"
  /\ Exists(e) /\ row[e].cover
  /\ rem' = [rem EXCEPT ![r] = [pc |-> "object", e |-> e]]
  /\ UNCHANGED <<row, rev, stored, patch, send, att, verify, seen, owed>>

RemoveObject(r) ==
  /\ rem[r].pc = "object"
  /\ stored' \in {stored, stored \ {rem[r].e}}
  /\ rem' = [rem EXCEPT ![r].pc = "row"]
  /\ UNCHANGED <<row, rev, patch, send, att, verify, seen, owed>>

RemoveRow(r) ==
  /\ rem[r].pc = "row"
  /\ WriteCover(rem[r].e, FALSE) \/ UNCHANGED row
  /\ rem' = [rem EXCEPT ![r] = NoRemove]
  /\ UNCHANGED <<rev, stored, patch, send, att, verify, seen, owed>>

-----------------------------------------------------------------------------
(* verifyEventImages: select covers, probe each, clear those answered 404.  *)

Covers == {e \in Events : Exists(e) /\ row[e].cover}

VerifySelect(v, batch) ==
  /\ verify[v].pc = "idle"
  /\ batch # {} /\ batch \subseteq Covers
  /\ batch = Covers \/ Cardinality(batch) = BatchSize
  /\ Cardinality(batch) <= BatchSize
  /\ verify' = [verify EXCEPT ![v] = [pc |-> "probe", todo |-> batch, e |-> None]]
  /\ UNCHANGED <<row, rev, stored, patch, send, att, rem, seen, owed>>

Probed(v, e) ==
  LET rest == verify[v].todo \ {e} IN
  IF rest = {} THEN NoVerify ELSE [pc |-> "probe", todo |-> rest, e |-> None]

BrokenMutant(e) == e \in stored
Broken(e)       == e \notin stored

\* The object is there, or the probe fails in a way that says nothing.
VerifyPass(v, e) ==
  /\ verify[v].pc = "probe" /\ e \in verify[v].todo
  /\ verify' = [verify EXCEPT ![v] = Probed(v, e)]
  /\ UNCHANGED <<row, rev, stored, patch, send, att, rem, seen, owed>>

VerifyBroken(v, e) ==
  /\ verify[v].pc = "probe" /\ e \in verify[v].todo
  /\ Broken(e)
  /\ verify' = [verify EXCEPT ![v] = [verify[v] EXCEPT !.pc = "clear", !.e = e]]
  /\ UNCHANGED <<row, rev, stored, patch, send, att, rem, seen, owed>>

\* By the id of the event, whatever its URL is by now; the error is not read.
VerifyClear(v) ==
  /\ verify[v].pc = "clear"
  /\ WriteCover(verify[v].e, FALSE)
  /\ verify' = [verify EXCEPT ![v] = Probed(v, verify[v].e)]
  /\ UNCHANGED <<rev, stored, patch, send, att, rem, seen, owed>>

VerifyClearRefused(v) ==
  /\ verify[v].pc = "clear"
  /\ verify' = [verify EXCEPT ![v] = Probed(v, verify[v].e)]
  /\ UNCHANGED <<row, rev, stored, patch, send, att, rem, seen, owed>>

-----------------------------------------------------------------------------
Request ==
  \/ \E e \in Events :
       \/ \E image \in {"keep", "attach"} : CreateEvent(e, image)
       \/ \E p \in Patchers : PatchRead(p, e)
       \/ AssignOrganizer(e) \/ BatchPatch(e) \/ DeleteEvent(e)
       \/ \E silent \in BOOLEAN : PostImage(e, silent)
       \/ \E r \in Removers : RemoveRead(r, e)
PatchStep(p) ==
  \/ \E status \in {"same", "published", "hidden"}, image \in {"keep", "clear", "attach"},
        columns \in BOOLEAN : PatchWrite(p, status, image, columns)
  \/ PatchFails(p)
SendStep(x)   == SendRead(x) \/ SendEmit(x)
AttachStep(a) == AttachGate(a) \/ AttachFetch(a) \/ AttachWrite(a)
RemoveStep(r) == RemoveObject(r) \/ RemoveRow(r)
VerifyStep(v) ==
  \/ \E batch \in SUBSET Covers : VerifySelect(v, batch)
  \/ \E e \in Events : VerifyPass(v, e) \/ VerifyBroken(v, e)
  \/ VerifyClear(v) \/ VerifyClearRefused(v)

Next ==
  \/ Request
  \/ \E p \in Patchers : PatchStep(p)
  \/ \E x \in Senders : SendStep(x)
  \/ \E a \in Attachers : AttachStep(a)
  \/ \E r \in Removers : RemoveStep(r)
  \/ \E v \in Verifiers : VerifyStep(v)

Spec == Init /\ [][Next]_vars

\* The cron keeps being called and goes on, and does not for ever fail to reach
\* the store or to write. Nothing is assumed of requests or of what they leave
\* running.
Fairness ==
  \A v \in Verifiers : /\ WF_vars(VerifyStep(v))
                       /\ \A e \in Events : SF_vars(VerifyBroken(v, e))
                       /\ SF_vars(VerifyClear(v))
FairSpec == Spec /\ Fairness

-----------------------------------------------------------------------------
Sending(e)   == {x \in Senders : send[x].e = e}
Attaching(e) == {a \in Attachers : att[a].e = e /\ ~att[a].silent}

\* No edit goes unannounced: once nothing is being dispatched for a published
\* event, subscribers have been sent the revision it now shows, however PATCHes,
\* status changes and dispatches that read the row later have interleaved. (A
\* batch PATCH announces nothing; the next other edit covers it.)
CurrentAnnounced ==
  \A e \in Events :
    (row[e].st = "published" /\ row[e].loud /\ Sending(e) = {}) => row[e].rev \in seen[e]

\* "on every terminal outcome": each attach asked for is in flight or has sent
\* its event.image_processed, once.
EveryAttachSignals == \A e \in Events : owed[e] = Cardinality(Attaching(e))

\* A cover whose object is missing (an attach and a removal that crossed, a
\* removal whose second step was refused) does not stay.
DanglingHeals ==
  \A e \in Events : (Exists(e) /\ row[e].cover /\ e \notin stored)
                      ~> ~(Exists(e) /\ row[e].cover /\ e \notin stored)
=============================================================================
