-------------------------- MODULE WebhookDelivery --------------------------
(***************************************************************************)
(* The webhook delivery engine (src/lib/webhook-delivery.ts), the routes   *)
(* that change a subscription under it (src/routes/webhooks.ts) and the    *)
(* failure-counting RPC of migration 044.                                  *)
(*                                                                         *)
(* Every call to supabaseAdmin is one SQL statement in a transaction of    *)
(* its own, so each is one action; whatever the process holds between two  *)
(* of them is the state of a worker (one call of deliverWebhook or         *)
(* deliverRawWebhook), of a dispatcher (one call of a dispatch function)   *)
(* or of a cron call (one call of retryFailedWebhooks).                    *)
(***************************************************************************)
EXTENDS Naturals, FiniteSets

CONSTANTS
  Subs,          \* ids of webhook_subscriptions rows
  Deliveries,    \* ids of webhook_deliveries rows (identity column: never reused)
  Events,        \* ids of events rows
  NoEvent,       \* an event_id that never was an events row: a series id, a zero UUID
  None,          \* NULL
  Unsigned,      \* subscriptions whose signing secret cannot be resolved
  Dispatchers,   \* dispatches the process may run at once (bound)
  Workers,       \* deliveries the process may have in flight at once (bound)
  Crons,         \* calls of the retry cron that may overlap (bound)
  MaxRetries,    \* MAX_RETRIES, 3 in the code
  MaxFailures,   \* MAX_CONSECUTIVE_FAILURES, 10 in the code
  BatchLimit,    \* rows one cron call takes, 50 in the code
  SerialCron,    \* TRUE: the scheduler starts a cron call only once the
                 \* retries of the one before it have been recorded
  WritesFail,    \* TRUE: a write may be refused; the code never reads the error
  MayCrash       \* TRUE: the process may be restarted

ASSUME IdsAssumption    == /\ Unsigned \subseteq Subs
                           /\ NoEvent \notin Events
                           /\ None \notin Subs \cup Deliveries \cup Events \cup Nat
ASSUME LimitsAssumption == /\ MaxRetries \in Nat \ {0}
                           /\ MaxFailures \in Nat \ {0}
                           /\ BatchLimit \in Nat \ {0}
ASSUME DelayAssumption  == \A n \in 1 .. MaxRetries : 5 ^ (n - 1) \in Nat
ASSUME SwitchAssumption == {SerialCron, WritesFail, MayCrash} \subseteq BOOLEAN

VARIABLES
  subs,     \* webhook_subscriptions: status and consecutive_failures
  deliv,    \* webhook_deliveries
  events,   \* ids present in the events table
  disp,     \* dispatchers: subscriptions still to insert a delivery for
  work,     \* workers: deliveries in flight
  cron,     \* cron calls: what they selected and looked up
  tries,    \* history: attempts made for a delivery, counted up to MaxRetries + 1
  acked     \* history: deliveries with an attempt answered 2xx

history == <<tries, acked>>
vars    == <<subs, deliv, events, disp, work, cron, tries, acked>>

-----------------------------------------------------------------------------
EventIds == Events \cup {NoEvent}

SubRow   == [status   : {"none", "active", "paused", "disabled", "gone"},
             failures : 0 .. MaxFailures]   \* consecutive_failures, see below
DelivRow == [status  : {"none", "pending", "retrying", "delivered", "failed", "gone"},
             sub     : Subs \cup {None},
             event   : EventIds,
             raw     : BOOLEAN,           \* its event_type has a payload of its own
             attempt : 1 .. MaxRetries,
             wait    : Nat \cup {None},   \* minutes until next_retry_at
             err     : {"none", "attempt", "secret", "sub", "event"}]
                                          \* error_message, by its cause
Dispatch == [todo : SUBSET Subs, event : EventIds, raw : BOOLEAN]
Idle     == [pc |-> "idle", d |-> None, sub |-> None, n |-> 1]
Flight   == [pc  : {"run", "ok", "okSub", "fail", "failSub"},
             d   : Deliveries,
             sub : Subs,
             n   : 1 .. MaxRetries]       \* attemptNumber
CronCall == [pc    : {"idle", "reads", "subs", "events", "loop"},
             batch : [Deliveries -> 0 .. MaxRetries],  \* attempt read; 0: not taken
             live  : SUBSET Subs,
             known : SUBSET Events]

TypeOK ==
  /\ subs   \in [Subs -> SubRow]
  /\ deliv  \in [Deliveries -> DelivRow]
  /\ events \subseteq Events
  /\ disp   \in [Dispatchers -> Dispatch]
  /\ work   \in [Workers -> Flight \cup {Idle}]
  /\ cron   \in [Crons -> CronCall]
  /\ tries  \in [Deliveries -> 0 .. MaxRetries + 1]
  /\ acked  \subseteq Deliveries

NoSub   == [status |-> "none", failures |-> 0]
NoDeliv == [status |-> "none", sub |-> None, event |-> NoEvent, raw |-> FALSE,
            attempt |-> 1, wait |-> None, err |-> "none"]
NoDisp  == [todo |-> {}, event |-> NoEvent, raw |-> FALSE]
NoBatch == [d \in Deliveries |-> 0]
NoCron  == [pc |-> "idle", batch |-> NoBatch, live |-> {}, known |-> {}]

Exists(s)   == subs[s].status \in {"active", "paused", "disabled"}
Terminal(d) == deliv[d].status \in {"delivered", "failed"}
Open(d)     == deliv[d].status \in {"pending", "retrying"}
InFlight(d) == \E w \in Workers : work[w].d = d /\ work[w].pc \in {"run", "ok", "fail"}

Min2(a, b) == IF a <= b THEN a ELSE b

Init ==
  /\ subs   = [s \in Subs |-> NoSub]
  /\ deliv  = [d \in Deliveries |-> NoDeliv]
  /\ events = Events
  /\ disp   = [x \in Dispatchers |-> NoDisp]
  /\ work   = [w \in Workers |-> Idle]
  /\ cron   = [c \in Crons |-> NoCron]
  /\ tries  = NoBatch
  /\ acked  = {}

\* UPDATE webhook_deliveries SET ... WHERE id = d: a row deleted meanwhile is
\* not matched, and an error the database returns is not looked at.
UpdateDeliv(d, row) ==
  \/ deliv' = [deliv EXCEPT ![d] = IF @.status = "gone" THEN @ ELSE row]
  \/ WritesFail /\ UNCHANGED deliv

UpdateSub(s, row) ==
  \/ subs' = [subs EXCEPT ![s] = IF Exists(s) THEN row ELSE @]
  \/ WritesFail /\ UNCHANGED subs

-----------------------------------------------------------------------------
(* What the updates write into a row.  A definition named ...Mutant is a    *)
(* plausible slip in the one after it; the properties must notice it.      *)

CanRetryMutant(n) == n <= MaxRetries
CanRetry(n)       == n < MaxRetries
RetryDelay(n)     == 5 ^ (n - 1)

NextAttempt(n) == n + 1

DeliveredRow(r) == [r EXCEPT !.status = "delivered"]

FailureRowMutant(r, n) ==
  [r EXCEPT !.status = IF CanRetry(n) THEN "retrying" ELSE "failed",
            !.err = "attempt", !.attempt = n]
FailureRowPendingMutant(r, n) ==
  [r EXCEPT !.status = IF CanRetry(n) THEN "pending" ELSE "failed",
            !.err = "attempt", !.attempt = n, !.wait = RetryDelay(n)]
FailureRow(r, n) ==
  [r EXCEPT !.status  = IF CanRetry(n) THEN "retrying" ELSE "failed",
            !.err     = "attempt",
            !.attempt = n,
            !.wait    = IF CanRetry(n) THEN RetryDelay(n) ELSE None]

SecretFailedRow(r)     == [r EXCEPT !.status = "failed", !.err = "secret"]
AbandonedRow(r, cause) == [r EXCEPT !.status = "failed", !.err = cause]

PendingRow(s, e, raw) ==
  [status |-> "pending", sub |-> s, event |-> e, raw |-> raw,
   attempt |-> 1, wait |-> None, err |-> "none"]

GoneRow(r)    == [r EXCEPT !.status = "gone", !.attempt = 1, !.wait = None, !.err = "none"]
NextMinute(r) == IF r.wait \in {None, 0} THEN r ELSE [r EXCEPT !.wait = r.wait - 1]

PatchedRowMutant(r, status) == [r EXCEPT !.status = status]
PatchedRow(r, status)       ==
  [r EXCEPT !.status = status, !.failures = IF status = "active" THEN 0 ELSE r.failures]

-----------------------------------------------------------------------------
(* The subscription routes. *)

CreateSub(s) ==
  /\ subs[s].status = "none"
  /\ subs' = [subs EXCEPT ![s] = [status |-> "active", failures |-> 0]]
  /\ UNCHANGED <<deliv, events, disp, work, cron, history>>

\* PATCH /webhooks/:id with a status. Reactivating also resets the counter.
PatchStatus(s, status) ==
  /\ Exists(s)
  /\ status \in {"active", "paused"}
  /\ subs' = [subs EXCEPT ![s] = PatchedRow(@, status)]
  /\ UNCHANGED <<deliv, events, disp, work, cron, history>>

\* DELETE /webhooks/:id, or of the API key that owns it: deliveries cascade.
DeleteSub(s) ==
  /\ Exists(s)
  /\ subs'  = [subs EXCEPT ![s] = [status |-> "gone", failures |-> 0]]
  /\ deliv' = [d \in Deliveries |-> IF deliv[d].sub = s
                                    THEN GoneRow(deliv[d]) ELSE deliv[d]]
  /\ UNCHANGED <<events, disp, work, cron, history>>

DeleteEvent(e) ==
  /\ e \in events
  /\ events' = events \ {e}
  /\ UNCHANGED <<subs, deliv, disp, work, cron, history>>

-----------------------------------------------------------------------------
(* Dispatch: read the active subscriptions of the event type, then insert  *)
(* one pending row per subscription and start its delivery.                *)

Launch(w, d, s, n) ==
  /\ work[w].pc = "idle"
  /\ work' = [work EXCEPT ![w] = [pc |-> "run", d |-> d, sub |-> s, n |-> n]]

InsertPending(d, s, e, raw) ==
  /\ deliv[d].status = "none"
  /\ deliv' = [deliv EXCEPT ![d] = PendingRow(s, e, raw)]

\* wanted: the subscriptions whose event_types contain the type dispatched.
DispatchWebhooks(x, e, raw, wanted) ==
  LET todo == {s \in wanted : subs[s].status = "active"} IN
  /\ disp[x].todo = {}
  /\ todo # {}
  /\ e = NoEvent => raw
  /\ disp' = [disp EXCEPT ![x] = [todo |-> todo, event |-> e, raw |-> raw]]
  /\ UNCHANGED <<subs, deliv, events, work, cron, history>>

DispatchOne(x, s) ==
  /\ s \in disp[x].todo
  /\ disp' = [disp EXCEPT ![x] = IF disp[x].todo = {s} THEN NoDisp
                                 ELSE [disp[x] EXCEPT !.todo = disp[x].todo \ {s}]]
  /\ \/ \E d \in Deliveries, w \in Workers :
          /\ Exists(s)
          /\ InsertPending(d, s, disp[x].event, disp[x].raw)
          /\ Launch(w, d, s, 1)
     \/ /\ ~Exists(s) \/ WritesFail           \* insert refused: "continue"
        /\ UNCHANGED <<deliv, work>>
  /\ UNCHANGED <<subs, events, cron, history>>

\* POST /webhooks/:id/test: whatever the status of the subscription.
DeliverTestWebhook(s) ==
  /\ Exists(s)
  /\ \E d \in Deliveries, w \in Workers :
       /\ InsertPending(d, s, NoEvent, FALSE)
       /\ Launch(w, d, s, 1)
  /\ UNCHANGED <<subs, events, disp, cron, history>>

-----------------------------------------------------------------------------
(* One delivery: sign, POST, record the outcome, count it. *)

ResolveSigningSecretFails(w) ==
  LET f == work[w] IN
  /\ f.pc = "run"
  /\ f.sub \in Unsigned
  /\ UpdateDeliv(f.d, SecretFailedRow(deliv[f.d]))
  /\ work' = [work EXCEPT ![w] = Idle]
  /\ UNCHANGED <<subs, events, disp, cron, history>>

\* response.ok decides how the worker goes on.
AfterPostMutant(ok) == "ok"
AfterPost(ok)       == IF ok THEN "ok" ELSE "fail"

\* A 2xx seen by the process; anything else (another status, an error, the
\* timeout, a URL that no longer validates) is a failed attempt.
Post(w) ==
  LET f == work[w] IN
  /\ f.pc = "run"
  /\ f.sub \notin Unsigned
  /\ tries' = [tries EXCEPT ![f.d] = Min2(@ + 1, MaxRetries + 1)]
  /\ \/ /\ work'   = [work EXCEPT ![w].pc = AfterPost(TRUE)]
        /\ acked'  = acked \cup {f.d}
     \/ /\ work'   = [work EXCEPT ![w].pc = AfterPost(FALSE)]
        /\ UNCHANGED acked
  /\ UNCHANGED <<subs, deliv, events, disp, cron>>

MarkDelivered(w) ==
  LET f == work[w] IN
  /\ f.pc = "ok"
  /\ UpdateDeliv(f.d, DeliveredRow(deliv[f.d]))
  /\ work' = [work EXCEPT ![w].pc = "okSub"]
  /\ UNCHANGED <<subs, events, disp, cron, history>>

ResetFailures(w) ==
  LET f == work[w] IN
  /\ f.pc = "okSub"
  /\ UpdateSub(f.sub, [subs[f.sub] EXCEPT !.failures = 0])
  /\ work' = [work EXCEPT ![w] = Idle]
  /\ UNCHANGED <<deliv, events, disp, cron, history>>

HandleDeliveryFailure(w) ==
  LET f == work[w] IN
  /\ f.pc = "fail"
  /\ UpdateDeliv(f.d, FailureRow(deliv[f.d], f.n))
  /\ work' = [work EXCEPT ![w].pc = "failSub"]
  /\ UNCHANGED <<subs, events, disp, cron, history>>

\* The RPC: increment, then disable an active subscription at the threshold.
\* The count is only ever compared with MaxFailures, so it stops there.
IncrementWebhookFailures(w) ==
  LET s     == work[w].sub
      count == Min2(subs[s].failures + 1, MaxFailures) IN
  /\ work[w].pc = "failSub"
  /\ UpdateSub(s, [status   |-> IF count >= MaxFailures /\ subs[s].status = "active"
                                THEN "disabled" ELSE subs[s].status,
                   failures |-> count])
  /\ work' = [work EXCEPT ![w] = Idle]
  /\ UNCHANGED <<deliv, events, disp, cron, history>>

-----------------------------------------------------------------------------
(* The retry cron: select due rows without claiming them, look up their    *)
(* subscriptions and events, then fail or relaunch each.                   *)

DueMutant == {d \in Deliveries : deliv[d].wait = 0}
Due == {d \in Deliveries : deliv[d].status = "retrying" /\ deliv[d].wait = 0}

\* The environment assumption SerialCron names: see the README.
RetriesRecorded ==
  /\ \A c \in Crons : cron[c].pc = "idle"
  /\ \A w \in Workers : work[w].n > 1 => work[w].pc \notin {"run", "ok", "fail"}

AttemptsOf(batch) == [d \in Deliveries |-> IF d \in batch THEN deliv[d].attempt ELSE 0]

CronSelect(c, batch) ==
  /\ cron[c].pc = "idle"
  /\ SerialCron => RetriesRecorded
  /\ batch # {}
  /\ IF Cardinality(Due) <= BatchLimit THEN batch = Due
                                       ELSE Cardinality(batch) = BatchLimit
  /\ cron' = [cron EXCEPT ![c] =
                [cron[c] EXCEPT !.pc = "reads", !.batch = AttemptsOf(batch)]]
  /\ UNCHANGED <<subs, deliv, events, disp, work, history>>

\* The two reads of one Promise.all, which may be served in either order.
CronReadSubs(c) ==
  /\ cron[c].pc \in {"reads", "subs"}
  /\ cron' = [cron EXCEPT ![c] =
                [cron[c] EXCEPT !.pc   = IF cron[c].pc = "reads" THEN "events" ELSE "loop",
                                !.live = {s \in Subs : subs[s].status = "active"}]]
  /\ UNCHANGED <<subs, deliv, events, disp, work, history>>

CronReadEvents(c) ==
  /\ cron[c].pc \in {"reads", "events"}
  /\ cron' = [cron EXCEPT ![c] =
                [cron[c] EXCEPT !.pc    = IF cron[c].pc = "reads" THEN "subs" ELSE "loop",
                                !.known = events]]
  /\ UNCHANGED <<subs, deliv, events, disp, work, history>>

\* The loop goes on to the next row of the batch, or returns.
CronNextRow(c, d) ==
  LET rest == [cron[c].batch EXCEPT ![d] = 0] IN
  cron' = [cron EXCEPT ![c] = IF rest = NoBatch THEN NoCron
                              ELSE [cron[c] EXCEPT !.batch = rest]]

CronRow(c, d) == cron[c].pc = "loop" /\ cron[c].batch[d] # 0

CronSubGone(c, d) ==
  /\ CronRow(c, d)
  /\ deliv[d].sub \notin cron[c].live
  /\ UpdateDeliv(d, AbandonedRow(deliv[d], "sub"))
  /\ CronNextRow(c, d)
  /\ UNCHANGED <<subs, events, disp, work, history>>

CronEventGone(c, d) ==
  /\ CronRow(c, d)
  /\ deliv[d].sub \in cron[c].live
  /\ deliv[d].event \notin cron[c].known
  /\ UpdateDeliv(d, AbandonedRow(deliv[d], "event"))
  /\ CronNextRow(c, d)
  /\ UNCHANGED <<subs, events, disp, work, history>>

\* The row is left as it was: still retrying, still due.
CronRetry(c, d) ==
  /\ CronRow(c, d)
  /\ deliv[d].sub \in cron[c].live
  /\ deliv[d].event \in cron[c].known
  /\ \E w \in Workers : Launch(w, d, deliv[d].sub, NextAttempt(cron[c].batch[d]))
  /\ CronNextRow(c, d)
  /\ UNCHANGED <<subs, deliv, events, disp, history>>

-----------------------------------------------------------------------------
\* A minute passes: next_retry_at comes nearer. (Minutes in which no row waits
\* change nothing.)
Tick ==
  /\ \E d \in Deliveries : deliv[d].wait \notin {None, 0}
  /\ deliv' = [d \in Deliveries |-> NextMinute(deliv[d])]
  /\ UNCHANGED <<subs, events, disp, work, cron, history>>

\* A restart or a deploy: what the process held is lost, the rows stay.
Crash ==
  /\ MayCrash
  /\ disp' = [x \in Dispatchers |-> NoDisp]
  /\ work' = [w \in Workers |-> Idle]
  /\ cron' = [c \in Crons |-> NoCron]
  /\ UNCHANGED <<subs, deliv, events, history>>

SubscriberStep ==
  \/ \E s \in Subs : \/ CreateSub(s) \/ DeleteSub(s) \/ DeliverTestWebhook(s)
                     \/ \E status \in {"active", "paused"} : PatchStatus(s, status)
  \/ \E e \in Events : DeleteEvent(e)
  \/ \E x \in Dispatchers, e \in EventIds, raw \in BOOLEAN, wanted \in SUBSET Subs :
       DispatchWebhooks(x, e, raw, wanted)
DispatchStep == \E x \in Dispatchers, s \in Subs : DispatchOne(x, s)
WorkerStep(w) ==
  \/ ResolveSigningSecretFails(w) \/ Post(w)
  \/ MarkDelivered(w) \/ ResetFailures(w)
  \/ HandleDeliveryFailure(w) \/ IncrementWebhookFailures(w)
CronStep(c) ==
  \/ \E batch \in SUBSET Due : CronSelect(c, batch)
  \/ CronReadSubs(c) \/ CronReadEvents(c)
  \/ \E d \in Deliveries : CronSubGone(c, d) \/ CronEventGone(c, d) \/ CronRetry(c, d)

Next ==
  \/ SubscriberStep
  \/ DispatchStep
  \/ \E w \in Workers : WorkerStep(w)
  \/ \E c \in Crons : CronStep(c)
  \/ Tick
  \/ Crash

Spec == Init /\ [][Next]_vars

\* Promises run to completion, the cron keeps being called, time passes;
\* nothing is assumed of subscribers or of the events table.
Fairness ==
  /\ WF_vars(DispatchStep)
  /\ \A w \in Workers : WF_vars(WorkerStep(w))
  /\ \A c \in Crons : WF_vars(CronStep(c))
  /\ WF_vars(Tick)
FairSpec == Spec /\ Fairness

-----------------------------------------------------------------------------
(* What holds however cron calls overlap, writes fail and the process dies. *)

\* The 10-failure rule: a subscription that is still served has failed fewer
\* than MaxFailures times since it last worked or was reactivated, whichever
\* of paused, disabled and active it went through with deliveries in flight.
ActiveBelowThreshold ==
  \A s \in Subs : subs[s].status = "active" => subs[s].failures < MaxFailures

\* No attempt is numbered beyond MaxRetries, from a stale cron batch either,
\* and a row the cron may still pick has an attempt left.
AttemptsWithinLimit ==
  /\ \A d \in Deliveries : deliv[d].status = "retrying" => deliv[d].attempt < MaxRetries
  /\ \A c \in Crons, d \in Deliveries : cron[c].batch[d] < MaxRetries
  /\ \A w \in Workers : work[w].n <= MaxRetries

\* The delivery log never claims a delivery no subscriber acknowledged.
DeliveredWasAcked ==
  \A d \in Deliveries : deliv[d].status = "delivered" => d \in acked

(* What holds while the process stays up, writes succeed and cron calls do  *)
(* not overtake the retries of the one before (SerialCron).                 *)

\* A row is pending only while its first attempt is in flight: no row is left
\* behind that neither a worker nor the cron would ever look at again.
PendingIsInFlight ==
  \A d \in Deliveries : deliv[d].status = "pending" => InFlight(d)

\* An acknowledged delivery is logged as such once nothing of it is in flight:
\* no other attempt's failure has overwritten the success.
AckedIsDelivered ==
  \A d \in acked : ~InFlight(d) => deliv[d].status \in {"delivered", "gone"}

\* Neither a row nor an acknowledgement is lost while the process stays up.
NothingLost == PendingIsInFlight /\ AckedIsDelivered

\* Every delivery reaches an outcome: the retry machinery neither loses a row
\* nor keeps it retrying for ever.
EveryDeliverySettles ==
  \A d \in Deliveries : Open(d) ~> (Terminal(d) \/ deliv[d].status = "gone")

\* The contract a subscriber relies on (module DeliveryContract), with the rows
\* and the attempts made for them as its state.
Contract == INSTANCE DeliveryContract
              WITH status <- [d \in Deliveries |-> deliv[d].status]
ContractSpec == Contract!Spec

(* What the repository says of the engine and its code does not do.          *)

\* "Retry: 3 attempts": a series.updated or series.deleted delivery, whose
\* event_id is the id of a series, is given up for no other reason than
\* MaxRetries failed attempts, an inactive subscription or a lost secret.
SeriesDeliveriesAreRetried ==
  \A d \in Deliveries :
    (deliv[d].event = NoEvent /\ deliv[d].raw) => deliv[d].err # "event"
=============================================================================
