----------------------- MODULE WebhookDeliveryProofs -----------------------
(***************************************************************************)
(* Theorems about WebhookDelivery for every set of subscriptions,          *)
(* deliveries, workers and cron calls and every limit: the first four with *)
(* or without overlapping cron calls, refused writes and restarts, the     *)
(* last two without them.                                                  *)
(***************************************************************************)
EXTENDS WebhookDelivery, TLAPS

-----------------------------------------------------------------------------
(* The values the actions write are of the types declared. *)

LEMMA Bounds ==
  /\ 1 \in 1 .. MaxRetries
  /\ 0 \in 0 .. MaxFailures /\ 0 \in 0 .. MaxRetries /\ 0 \in 0 .. MaxRetries + 1
  /\ NoEvent \in EventIds
  /\ \A n \in 0 .. MaxFailures : Min2(n + 1, MaxFailures) \in 0 .. MaxFailures
  /\ \A n \in 0 .. MaxRetries + 1 : Min2(n + 1, MaxRetries + 1) \in 0 .. MaxRetries + 1
  BY LimitsAssumption DEF EventIds, Min2

\* Each update of a delivery row yields a delivery row.
LEMMA RowsTyped ==
  ASSUME NEW r \in DelivRow
  PROVE  /\ DeliveredRow(r) \in DelivRow
         /\ \A n \in 1 .. MaxRetries : FailureRow(r, n) \in DelivRow
         /\ SecretFailedRow(r) \in DelivRow
         /\ AbandonedRow(r, "sub") \in DelivRow
         /\ AbandonedRow(r, "event") \in DelivRow
         /\ GoneRow(r) \in DelivRow
         /\ NextMinute(r) \in DelivRow
  <1>1. ASSUME NEW n \in 1 .. MaxRetries PROVE FailureRow(r, n) \in DelivRow
    <2>1. RetryDelay(n) \in Nat
      BY DelayAssumption DEF RetryDelay
    <2> QED
      BY <2>1 DEF FailureRow, CanRetry, DelivRow
  <1>2. GoneRow(r) \in DelivRow
    BY Bounds DEF GoneRow, DelivRow
  <1>3. NextMinute(r) \in DelivRow
    <2>1. r.wait \notin {None, 0} => r.wait - 1 \in Nat
      BY DEF DelivRow
    <2> QED
      BY <2>1 DEF NextMinute, DelivRow
  <1> QED
    BY <1>1, <1>2, <1>3 DEF DeliveredRow, SecretFailedRow, AbandonedRow, DelivRow

LEMMA PendingRowTyped ==
  ASSUME NEW s \in Subs, NEW e \in EventIds, NEW raw \in BOOLEAN
  PROVE  PendingRow(s, e, raw) \in DelivRow
  BY Bounds DEF PendingRow, DelivRow

LEMMA PatchedRowTyped ==
  ASSUME NEW r \in SubRow, NEW status \in {"active", "paused"}
  PROVE  PatchedRow(r, status) \in SubRow
  <1>1. CASE status = "active"
    BY <1>1, Bounds DEF SubRow, PatchedRow
  <1>2. CASE status = "paused"
    BY <1>2 DEF SubRow, PatchedRow
  <1> QED
    BY <1>1, <1>2

LEMMA UpdateDelivTyped ==
  ASSUME TypeOK, NEW d, NEW row, d \in Deliveries => row \in DelivRow, UpdateDeliv(d, row)
  PROVE  deliv' \in [Deliveries -> DelivRow]
  BY DEF TypeOK, UpdateDeliv

LEMMA UpdateSubTyped ==
  ASSUME TypeOK, NEW s, NEW row, s \in Subs => row \in SubRow, UpdateSub(s, row)
  PROVE  subs' \in [Subs -> SubRow]
  BY DEF TypeOK, UpdateSub

LEMMA NullsTyped ==
  /\ NoSub \in SubRow /\ NoDeliv \in DelivRow /\ NoDisp \in Dispatch
  /\ NoCron \in CronCall
  /\ NoBatch \in [Deliveries -> 0 .. MaxRetries + 1]
  BY Bounds DEF NoSub, SubRow, NoDeliv, DelivRow, NoDisp, Dispatch,
                NoCron, CronCall, NoBatch

LEMMA InsertTyped ==
  ASSUME TypeOK, NEW d \in Deliveries, NEW s \in Subs, NEW e \in EventIds, NEW raw \in BOOLEAN,
         InsertPending(d, s, e, raw)
  PROVE  deliv' \in [Deliveries -> DelivRow]
  BY PendingRowTyped DEF InsertPending, TypeOK

LEMMA LaunchTyped ==
  ASSUME TypeOK, NEW w \in Workers, NEW d \in Deliveries, NEW s \in Subs,
         NEW n \in 1 .. MaxRetries, Launch(w, d, s, n)
  PROVE  work' \in [Workers -> Flight \cup {Idle}]
  <1>1. [pc |-> "run", d |-> d, sub |-> s, n |-> n] \in Flight
    BY DEF Flight
  <1> QED
    BY <1>1 DEF Launch, TypeOK

\* A worker's step to another place of deliverWebhook, or to its end.
LEMMA WorkTyped ==
  ASSUME TypeOK, NEW w \in Workers, work[w].pc # "idle",
         \/ work' = [work EXCEPT ![w] = Idle]
         \/ \E pc \in {"run", "ok", "okSub", "fail", "failSub"} :
              work' = [work EXCEPT ![w].pc = pc]
  PROVE  work' \in [Workers -> Flight \cup {Idle}]
  <1>1. work[w] \in Flight
    BY DEF TypeOK, Idle
  <1>2. \A pc \in {"run", "ok", "okSub", "fail", "failSub"} : [work[w] EXCEPT !.pc = pc] \in Flight
    BY <1>1 DEF Flight
  <1> QED
    BY <1>2 DEF TypeOK

LEMMA NextRowTyped ==
  ASSUME TypeOK, NEW c \in Crons, NEW d \in Deliveries, CronNextRow(c, d)
  PROVE  cron' \in [Crons -> CronCall]
  <1> DEFINE rest == [cron[c].batch EXCEPT ![d] = 0]
             left == [cron[c] EXCEPT !.batch = rest]
  <1>1. rest \in [Deliveries -> 0 .. MaxRetries] /\ cron[c] \in CronCall
    BY Bounds DEF TypeOK, CronCall
  <1> HIDE DEF rest
  <1>2. left \in CronCall
    BY <1>1 DEF CronCall
  <1>3. cron' = [cron EXCEPT ![c] = IF rest = NoBatch THEN NoCron ELSE left]
    BY DEF CronNextRow, rest
  <1> HIDE DEF left
  <1> QED
    BY <1>2, <1>3, NullsTyped DEF TypeOK

LEMMA InitTyped == Init => TypeOK
  <1> SUFFICES ASSUME Init PROVE TypeOK
    OBVIOUS
  <1>1. tries \in [Deliveries -> 0 .. MaxRetries + 1]
    BY NullsTyped DEF Init
  <1> QED
    BY <1>1, NullsTyped DEF Init, TypeOK

-----------------------------------------------------------------------------
(* Type correctness, one action at a time.                                 *)

LEMMA SubscriberTyped == TypeOK /\ SubscriberStep => TypeOK'
  <1> SUFFICES ASSUME TypeOK, SubscriberStep PROVE TypeOK'
    OBVIOUS
  <1> USE DEF history
  <1>1. ASSUME NEW s \in Subs, CreateSub(s) PROVE TypeOK'
    <2>1. [status |-> "active", failures |-> 0] \in SubRow
      BY Bounds DEF SubRow
    <2> QED
      BY <1>1, <2>1 DEF CreateSub, TypeOK
  <1>2. ASSUME NEW s \in Subs, NEW status \in {"active", "paused"}, PatchStatus(s, status)
        PROVE  TypeOK'
    <2>1. PatchedRow(subs[s], status) \in SubRow
      BY PatchedRowTyped DEF TypeOK
    <2> QED
      BY <1>2, <2>1 DEF PatchStatus, TypeOK
  <1>3. ASSUME NEW s \in Subs, DeleteSub(s) PROVE TypeOK'
    <2>1. [status |-> "gone", failures |-> 0] \in SubRow
      BY Bounds DEF SubRow
    <2>2. \A d \in Deliveries : GoneRow(deliv[d]) \in DelivRow
      BY RowsTyped DEF TypeOK
    <2> QED
      BY <1>3, <2>1, <2>2 DEF DeleteSub, TypeOK
  <1>4. ASSUME NEW e \in Events, DeleteEvent(e) PROVE TypeOK'
    BY <1>4 DEF DeleteEvent, TypeOK
  <1>5. ASSUME NEW s \in Subs, DeliverTestWebhook(s) PROVE TypeOK'
    <2>1. PICK d \in Deliveries, w \in Workers :
            InsertPending(d, s, NoEvent, FALSE) /\ Launch(w, d, s, 1)
      BY <1>5 DEF DeliverTestWebhook
    <2>2. deliv' \in [Deliveries -> DelivRow]
      BY <2>1, InsertTyped, Bounds
    <2>3. work' \in [Workers -> Flight \cup {Idle}]
      BY <2>1, LaunchTyped, Bounds
    <2> QED
      BY <1>5, <2>2, <2>3 DEF DeliverTestWebhook, TypeOK
  <1>6. ASSUME NEW x \in Dispatchers, NEW e \in EventIds, NEW raw \in BOOLEAN,
               NEW wanted \in SUBSET Subs, DispatchWebhooks(x, e, raw, wanted)
        PROVE  TypeOK'
    <2> DEFINE todo == {s \in wanted : subs[s].status = "active"}
    <2>1. [todo |-> todo, event |-> e, raw |-> raw] \in Dispatch
      BY DEF Dispatch
    <2> QED
      BY <1>6, <2>1 DEF DispatchWebhooks, TypeOK
  <1> QED
    BY <1>1, <1>2, <1>3, <1>4, <1>5, <1>6 DEF SubscriberStep

LEMMA DispatchTyped == TypeOK /\ DispatchStep => TypeOK'
  <1> SUFFICES ASSUME TypeOK, NEW x \in Dispatchers, NEW s \in Subs, DispatchOne(x, s)
               PROVE  TypeOK'
    BY DEF DispatchStep
  <1> USE DEF history
  <1>1. disp[x] \in Dispatch
    BY DEF TypeOK
  <1>2. disp' \in [Dispatchers -> Dispatch]
    <2> DEFINE left == [disp[x] EXCEPT !.todo = disp[x].todo \ {s}]
    <2>1. left \in Dispatch
      BY <1>1 DEF Dispatch
    <2>2. disp' = [disp EXCEPT ![x] = IF disp[x].todo = {s} THEN NoDisp ELSE left]
      BY DEF DispatchOne
    <2> HIDE DEF left
    <2> QED
      BY <2>1, <2>2, NullsTyped DEF TypeOK
  <1>3. CASE UNCHANGED <<deliv, work>>
    BY <1>2, <1>3 DEF DispatchOne, TypeOK
  <1>4. ASSUME NEW d \in Deliveries, NEW w \in Workers,
               InsertPending(d, s, disp[x].event, disp[x].raw), Launch(w, d, s, 1)
        PROVE  TypeOK'
    <2>1. disp[x].event \in EventIds /\ disp[x].raw \in BOOLEAN
      BY <1>1 DEF Dispatch
    <2>2. deliv' \in [Deliveries -> DelivRow]
      BY <1>4, <2>1, InsertTyped
    <2>3. work' \in [Workers -> Flight \cup {Idle}]
      BY <1>4, <2>1, LaunchTyped, Bounds
    <2> QED
      BY <1>2, <2>2, <2>3 DEF DispatchOne, TypeOK
  <1> QED
    BY <1>3, <1>4 DEF DispatchOne

LEMMA WorkerBusy ==
  ASSUME TypeOK, NEW w \in Workers, WorkerStep(w)
  PROVE  work[w] \in Flight
  <1>1. work[w].pc # "idle"
    BY DEF WorkerStep, ResolveSigningSecretFails, Post, MarkDelivered, ResetFailures,
           HandleDeliveryFailure, IncrementWebhookFailures
  <1> QED
    BY <1>1 DEF TypeOK, Idle

LEMMA WorkerTyped ==
  ASSUME TypeOK, NEW w \in Workers, WorkerStep(w)
  PROVE  TypeOK'
  <1> USE DEF history
  <1>1. work[w] \in Flight /\ work[w].pc # "idle"
    BY WorkerBusy DEF Flight
  <1>2. \A d \in Deliveries : deliv[d] \in DelivRow
    BY DEF TypeOK
  <1>3. CASE ResolveSigningSecretFails(w)
    <2>1. work' \in [Workers -> Flight \cup {Idle}]
      BY <1>3, <1>1, WorkTyped DEF ResolveSigningSecretFails
    <2>2. deliv' \in [Deliveries -> DelivRow]
      BY <1>2, <1>3, RowsTyped, UpdateDelivTyped DEF ResolveSigningSecretFails
    <2> QED
      BY <1>3, <2>1, <2>2 DEF ResolveSigningSecretFails, TypeOK
  <1>4. CASE Post(w)
    <2>1. work' \in [Workers -> Flight \cup {Idle}]
      BY <1>4, <1>1, WorkTyped DEF Post, AfterPost
    <2>2. tries' \in [Deliveries -> 0 .. MaxRetries + 1]
      BY <1>4, Bounds DEF Post, TypeOK
    <2>3. acked' \subseteq Deliveries
      BY <1>4, <1>1 DEF Post, TypeOK, Flight
    <2> QED
      BY <1>4, <2>1, <2>2, <2>3 DEF Post, TypeOK
  <1>5. CASE MarkDelivered(w)
    <2>1. work' \in [Workers -> Flight \cup {Idle}]
      BY <1>5, <1>1, WorkTyped DEF MarkDelivered
    <2>2. deliv' \in [Deliveries -> DelivRow]
      BY <1>2, <1>5, RowsTyped, UpdateDelivTyped DEF MarkDelivered
    <2> QED
      BY <1>5, <2>1, <2>2 DEF MarkDelivered, TypeOK
  <1>6. CASE ResetFailures(w)
    <2>1. work' \in [Workers -> Flight \cup {Idle}]
      BY <1>6, <1>1, WorkTyped DEF ResetFailures
    <2>2. work[w].sub \in Subs => [subs[work[w].sub] EXCEPT !.failures = 0] \in SubRow
      BY Bounds DEF TypeOK, SubRow
    <2>3. subs' \in [Subs -> SubRow]
      BY <1>6, <2>2, UpdateSubTyped DEF ResetFailures
    <2> QED
      BY <1>6, <2>1, <2>3 DEF ResetFailures, TypeOK
  <1>7. CASE HandleDeliveryFailure(w)
    <2>1. work' \in [Workers -> Flight \cup {Idle}]
      BY <1>7, <1>1, WorkTyped DEF HandleDeliveryFailure
    <2>2. work[w].n \in 1 .. MaxRetries
      BY <1>1 DEF Flight
    <2>3. deliv' \in [Deliveries -> DelivRow]
      BY <1>2, <1>7, <2>2, RowsTyped, UpdateDelivTyped DEF HandleDeliveryFailure
    <2> QED
      BY <1>7, <2>1, <2>3 DEF HandleDeliveryFailure, TypeOK
  <1>8. CASE IncrementWebhookFailures(w)
    <2> DEFINE s     == work[w].sub
               count == Min2(subs[s].failures + 1, MaxFailures)
               row   == [status   |-> IF count >= MaxFailures /\ subs[s].status = "active"
                                      THEN "disabled" ELSE subs[s].status,
                         failures |-> count]
    <2>1. work' \in [Workers -> Flight \cup {Idle}]
      BY <1>8, <1>1, WorkTyped DEF IncrementWebhookFailures
    <2>2. ASSUME s \in Subs PROVE row \in SubRow
      <3>1. subs[s] \in SubRow
        BY <2>2 DEF TypeOK
      <3>2. count \in 0 .. MaxFailures
        BY <3>1, Bounds DEF SubRow
      <3> HIDE DEF count
      <3> QED
        BY <3>1, <3>2 DEF SubRow
    <2>3. UpdateSub(s, row)
      BY <1>8 DEF IncrementWebhookFailures
    <2> HIDE DEF s, row
    <2>4. subs' \in [Subs -> SubRow]
      BY <2>2, <2>3, UpdateSubTyped
    <2> QED
      BY <1>8, <2>1, <2>4 DEF IncrementWebhookFailures, TypeOK
  <1> QED
    BY <1>3, <1>4, <1>5, <1>6, <1>7, <1>8 DEF WorkerStep

\* NextAttempt of a batched row is a legal attempt number only because the cron
\* picks rows below the limit: the types depend on AttemptsWithinLimit.
LEMMA CronTyped ==
  ASSUME TypeOK, AttemptsWithinLimit, NEW c \in Crons, CronStep(c)
  PROVE  TypeOK'
  <1> USE DEF history
  <1>1. cron[c] \in CronCall
    BY DEF TypeOK
  <1>2. \A d \in Deliveries : deliv[d] \in DelivRow
    BY DEF TypeOK
  <1>3. ASSUME NEW batch \in SUBSET Due, CronSelect(c, batch) PROVE TypeOK'
    <2>1. AttemptsOf(batch) \in [Deliveries -> 0 .. MaxRetries]
      <3>1. \A d \in Deliveries : deliv[d].attempt \in 0 .. MaxRetries
        BY <1>2 DEF DelivRow
      <3> QED
        BY <3>1, Bounds DEF AttemptsOf
    <2> DEFINE r == [cron[c] EXCEPT !.pc = "reads", !.batch = AttemptsOf(batch)]
    <2>2. r \in CronCall
      BY <1>1, <2>1 DEF CronCall
    <2>3. cron' = [cron EXCEPT ![c] = r]
      BY <1>3 DEF CronSelect
    <2> HIDE DEF r
    <2> QED
      BY <1>3, <2>2, <2>3 DEF CronSelect, TypeOK
  <1>4. CASE CronReadSubs(c)
    <2> DEFINE r == [cron[c] EXCEPT !.pc   = IF cron[c].pc = "reads" THEN "events" ELSE "loop",
                                    !.live = {s \in Subs : subs[s].status = "active"}]
    <2>1. r \in CronCall
      BY <1>1 DEF CronCall
    <2>2. cron' = [cron EXCEPT ![c] = r]
      BY <1>4 DEF CronReadSubs
    <2> HIDE DEF r
    <2> QED
      BY <1>4, <2>1, <2>2 DEF CronReadSubs, TypeOK
  <1>5. CASE CronReadEvents(c)
    <2> DEFINE r == [cron[c] EXCEPT !.pc    = IF cron[c].pc = "reads" THEN "subs" ELSE "loop",
                                    !.known = events]
    <2>1. events \subseteq Events
      BY DEF TypeOK
    <2>2. r \in CronCall
      BY <1>1, <2>1 DEF CronCall
    <2>3. cron' = [cron EXCEPT ![c] = r]
      BY <1>5 DEF CronReadEvents
    <2> HIDE DEF r
    <2> QED
      BY <1>5, <2>2, <2>3 DEF CronReadEvents, TypeOK
  <1>6. ASSUME NEW d \in Deliveries, CronSubGone(c, d) PROVE TypeOK'
    <2>1. deliv' \in [Deliveries -> DelivRow]
      BY <1>2, <1>6, RowsTyped, UpdateDelivTyped DEF CronSubGone
    <2>2. cron' \in [Crons -> CronCall]
      BY <1>6, NextRowTyped DEF CronSubGone
    <2> QED
      BY <1>6, <2>1, <2>2 DEF CronSubGone, TypeOK
  <1>7. ASSUME NEW d \in Deliveries, CronEventGone(c, d) PROVE TypeOK'
    <2>1. deliv' \in [Deliveries -> DelivRow]
      BY <1>2, <1>7, RowsTyped, UpdateDelivTyped DEF CronEventGone
    <2>2. cron' \in [Crons -> CronCall]
      BY <1>7, NextRowTyped DEF CronEventGone
    <2> QED
      BY <1>7, <2>1, <2>2 DEF CronEventGone, TypeOK
  <1>8. ASSUME NEW d \in Deliveries, CronRetry(c, d) PROVE TypeOK'
    <2>1. NextAttempt(cron[c].batch[d]) \in 1 .. MaxRetries
      <3>1. cron[c].batch[d] \in 0 .. MaxRetries /\ cron[c].batch[d] < MaxRetries
        BY <1>1 DEF CronCall, AttemptsWithinLimit
      <3> QED
        BY <3>1, LimitsAssumption DEF NextAttempt
    <2>2. deliv[d].sub \in Subs
      BY <1>1, <1>8 DEF CronRetry, CronCall
    <2>3. PICK w \in Workers : Launch(w, d, deliv[d].sub, NextAttempt(cron[c].batch[d]))
      BY <1>8 DEF CronRetry
    <2>4. work' \in [Workers -> Flight \cup {Idle}]
      BY <2>1, <2>2, <2>3, LaunchTyped
    <2>5. cron' \in [Crons -> CronCall]
      BY <1>8, NextRowTyped DEF CronRetry
    <2> QED
      BY <1>8, <2>4, <2>5 DEF CronRetry, TypeOK
  <1> QED
    BY <1>3, <1>4, <1>5, <1>6, <1>7, <1>8 DEF CronStep

LEMMA NextTyped == TypeOK /\ AttemptsWithinLimit /\ [Next]_vars => TypeOK'
  <1> SUFFICES ASSUME TypeOK, AttemptsWithinLimit, [Next]_vars PROVE TypeOK'
    OBVIOUS
  <1>1. CASE Tick
    <2>1. \A d \in Deliveries : NextMinute(deliv[d]) \in DelivRow
      BY RowsTyped DEF TypeOK
    <2> QED
      BY <1>1, <2>1 DEF Tick, TypeOK, history
  <1>2. CASE Crash
    BY <1>2, NullsTyped DEF Crash, TypeOK, history
  <1>3. CASE UNCHANGED vars
    BY <1>3 DEF vars, TypeOK
  <1> QED
    BY <1>1, <1>2, <1>3, SubscriberTyped, DispatchTyped, WorkerTyped, CronTyped DEF Next

-----------------------------------------------------------------------------
(* The limit on attempts: what each update makes of a row that respects it. *)

HasAttemptLeft(r) == r.status = "retrying" => r.attempt < MaxRetries

LEMMA RowsKeepLimit ==
  ASSUME NEW r \in DelivRow, HasAttemptLeft(r)
  PROVE  /\ HasAttemptLeft(DeliveredRow(r))
         /\ \A n \in 1 .. MaxRetries : HasAttemptLeft(FailureRow(r, n))
         /\ HasAttemptLeft(SecretFailedRow(r))
         /\ HasAttemptLeft(AbandonedRow(r, "sub"))
         /\ HasAttemptLeft(AbandonedRow(r, "event"))
         /\ HasAttemptLeft(GoneRow(r))
         /\ HasAttemptLeft(NextMinute(r))
  BY DEF HasAttemptLeft, DelivRow, DeliveredRow, FailureRow, CanRetry, SecretFailedRow,
         AbandonedRow, GoneRow, NextMinute

LEMMA UpdateKeepsLimit ==
  ASSUME TypeOK, AttemptsWithinLimit, NEW d, NEW row,
         d \in Deliveries => HasAttemptLeft(row), UpdateDeliv(d, row)
  PROVE  \A e \in Deliveries : HasAttemptLeft(deliv'[e])
  BY DEF TypeOK, AttemptsWithinLimit, UpdateDeliv, HasAttemptLeft

\* The steps that change a delivery row leave it an attempt if it is to be retried.
LEMMA LogKeepsLimit ==
  ASSUME TypeOK, AttemptsWithinLimit, [Next]_vars
  PROVE  \A d \in Deliveries : HasAttemptLeft(deliv'[d])
  <1>1. \A d \in Deliveries : deliv[d] \in DelivRow /\ HasAttemptLeft(deliv[d])
    BY DEF TypeOK, AttemptsWithinLimit, HasAttemptLeft
  <1>2. CASE UNCHANGED deliv
    BY <1>1, <1>2
  <1>3. ASSUME NEW d \in Deliveries, NEW s, NEW e, NEW raw, InsertPending(d, s, e, raw)
        PROVE  \A x \in Deliveries : HasAttemptLeft(deliv'[x])
    BY <1>1, <1>3 DEF InsertPending, PendingRow, HasAttemptLeft, TypeOK
  <1>4. CASE SubscriberStep
    <2>1. ASSUME NEW s \in Subs, DeleteSub(s)
          PROVE  \A d \in Deliveries : HasAttemptLeft(deliv'[d])
      BY <1>1, <2>1, RowsKeepLimit DEF DeleteSub
    <2>2. ASSUME NEW s \in Subs, DeliverTestWebhook(s)
          PROVE  \A d \in Deliveries : HasAttemptLeft(deliv'[d])
      BY <1>3, <2>2 DEF DeliverTestWebhook
    <2> QED
      BY <1>2, <1>4, <2>1, <2>2
      DEF SubscriberStep, CreateSub, PatchStatus, DeleteEvent, DispatchWebhooks
  <1>5. CASE DispatchStep
    BY <1>2, <1>3, <1>5 DEF DispatchStep, DispatchOne
  <1>6. ASSUME NEW w \in Workers, WorkerStep(w)
        PROVE  \A d \in Deliveries : HasAttemptLeft(deliv'[d])
    <2>1. work[w] \in Flight
      BY <1>6, WorkerBusy
    <2>2. CASE ResolveSigningSecretFails(w)
      BY <1>1, <2>1, <2>2, RowsKeepLimit, UpdateKeepsLimit DEF ResolveSigningSecretFails, Flight
    <2>3. CASE MarkDelivered(w)
      BY <1>1, <2>1, <2>3, RowsKeepLimit, UpdateKeepsLimit DEF MarkDelivered, Flight
    <2>4. CASE HandleDeliveryFailure(w)
      BY <1>1, <2>1, <2>4, RowsKeepLimit, UpdateKeepsLimit DEF HandleDeliveryFailure, Flight
    <2> QED
      BY <1>2, <1>6, <2>2, <2>3, <2>4
      DEF WorkerStep, Post, ResetFailures, IncrementWebhookFailures
  <1>7. ASSUME NEW c \in Crons, CronStep(c)
        PROVE  \A d \in Deliveries : HasAttemptLeft(deliv'[d])
    BY <1>1, <1>2, <1>7, RowsKeepLimit, UpdateKeepsLimit
    DEF CronStep, CronSelect, CronReadSubs, CronReadEvents, CronSubGone, CronEventGone, CronRetry
  <1>8. CASE Tick
    BY <1>1, <1>8, RowsKeepLimit DEF Tick
  <1> QED
    BY <1>2, <1>4, <1>5, <1>6, <1>7, <1>8 DEF Next, Crash, vars

\* A batch only ever holds rows that had an attempt left when it was selected.
LEMMA BatchKeepsLimit ==
  ASSUME TypeOK, AttemptsWithinLimit, [Next]_vars
  PROVE  \A c \in Crons, d \in Deliveries : cron'[c].batch[d] < MaxRetries
  <1>1. \A c \in Crons : /\ cron[c] \in CronCall
                         /\ \A d \in Deliveries : cron[c].batch[d] < MaxRetries
    BY DEF TypeOK, AttemptsWithinLimit
  <1>2. \A d \in Deliveries : NoCron.batch[d] < MaxRetries
    BY LimitsAssumption DEF NoCron, NoBatch
  <1>3. ASSUME NEW c \in Crons, NEW r, cron' = [cron EXCEPT ![c] = r],
               \A d \in Deliveries : r.batch[d] < MaxRetries
        PROVE  \A x \in Crons, d \in Deliveries : cron'[x].batch[d] < MaxRetries
    BY <1>1, <1>3 DEF TypeOK
  <1>4. ASSUME NEW c \in Crons, NEW batch \in SUBSET Due, CronSelect(c, batch)
        PROVE  \A x \in Crons, d \in Deliveries : cron'[x].batch[d] < MaxRetries
    <2> DEFINE r == [cron[c] EXCEPT !.pc = "reads", !.batch = AttemptsOf(batch)]
    <2>1. \A d \in Deliveries : AttemptsOf(batch)[d] < MaxRetries
      BY LimitsAssumption DEF AttemptsOf, Due, AttemptsWithinLimit
    <2>2. r.batch = AttemptsOf(batch)
      BY <1>1 DEF CronCall
    <2> QED
      BY <1>3, <1>4, <2>1, <2>2 DEF CronSelect
  <1>5. ASSUME NEW c \in Crons, CronReadSubs(c) \/ CronReadEvents(c)
        PROVE  \A x \in Crons, d \in Deliveries : cron'[x].batch[d] < MaxRetries
    <2> DEFINE rs == [cron[c] EXCEPT !.pc   = IF cron[c].pc = "reads" THEN "events" ELSE "loop",
                                     !.live = {s \in Subs : subs[s].status = "active"}]
               re == [cron[c] EXCEPT !.pc    = IF cron[c].pc = "reads" THEN "subs" ELSE "loop",
                                     !.known = events]
    <2>1. rs.batch = cron[c].batch /\ re.batch = cron[c].batch
      BY <1>1 DEF CronCall
    <2>2. cron' = [cron EXCEPT ![c] = rs] \/ cron' = [cron EXCEPT ![c] = re]
      BY <1>5 DEF CronReadSubs, CronReadEvents
    <2> HIDE DEF rs, re
    <2> QED
      BY <1>1, <1>3, <2>1, <2>2
  <1>6. ASSUME NEW c \in Crons, NEW d \in Deliveries, CronNextRow(c, d)
        PROVE  \A x \in Crons, y \in Deliveries : cron'[x].batch[y] < MaxRetries
    <2> DEFINE rest == [cron[c].batch EXCEPT ![d] = 0]
               left == [cron[c] EXCEPT !.batch = rest]
    <2>1. \A y \in Deliveries : rest[y] < MaxRetries
      BY <1>1, LimitsAssumption DEF CronCall
    <2>2. left.batch = rest
      BY <1>1 DEF CronCall
    <2>3. cron' = [cron EXCEPT ![c] = IF rest = NoBatch THEN NoCron ELSE left]
      BY <1>6 DEF CronNextRow
    <2> HIDE DEF rest, left
    <2> QED
      BY <1>2, <1>3, <2>1, <2>2, <2>3
  <1>7. CASE UNCHANGED cron
    BY <1>1, <1>7
  <1>8. CASE Crash
    BY <1>2, <1>8 DEF Crash
  <1>9. ASSUME NEW c \in Crons, CronStep(c)
        PROVE  \A x \in Crons, d \in Deliveries : cron'[x].batch[d] < MaxRetries
    BY <1>4, <1>5, <1>6, <1>9 DEF CronStep, CronSubGone, CronEventGone, CronRetry
  <1>10. CASE SubscriberStep \/ DispatchStep \/ \E w \in Workers : WorkerStep(w)
    BY <1>7, <1>10
    DEF SubscriberStep, CreateSub, PatchStatus, DeleteSub, DeleteEvent, DispatchWebhooks,
        DeliverTestWebhook, DispatchStep, DispatchOne, WorkerStep, ResolveSigningSecretFails,
        Post, MarkDelivered, ResetFailures, HandleDeliveryFailure, IncrementWebhookFailures
  <1> QED
    BY <1>7, <1>8, <1>9, <1>10 DEF Next, Tick, vars

LEMMA InitLimit == Init => AttemptsWithinLimit
  BY LimitsAssumption, SMT DEF Init, AttemptsWithinLimit, NoDeliv, NoCron, NoBatch, Idle

LEMMA NextLimit == TypeOK /\ AttemptsWithinLimit /\ [Next]_vars => AttemptsWithinLimit'
  <1> SUFFICES ASSUME TypeOK, AttemptsWithinLimit, [Next]_vars PROVE AttemptsWithinLimit'
    OBVIOUS
  <1>1. \A w \in Workers : work'[w].n <= MaxRetries
    <2>1. work' \in [Workers -> Flight \cup {Idle}]
      BY NextTyped DEF TypeOK
    <2>2. \A f \in Flight \cup {Idle} : f.n <= MaxRetries
      BY LimitsAssumption DEF Flight, Idle
    <2> QED
      BY <2>1, <2>2
  <1> QED
    BY <1>1, LogKeepsLimit, BatchKeepsLimit DEF AttemptsWithinLimit, HasAttemptLeft

\* Every variable keeps its type: in particular every worker in flight carries a
\* delivery, a subscription and a legal attempt number, whatever cron calls read.
THEOREM TypeCorrect == Spec => []TypeOK
  <1>1. Spec => [](TypeOK /\ AttemptsWithinLimit)
    BY InitTyped, InitLimit, NextTyped, NextLimit, PTL DEF Spec
  <1> QED
    BY <1>1, PTL

\* No attempt is numbered beyond MAX_RETRIES and no row beyond it stays retrying,
\* with any number of overlapping cron calls, refused writes and restarts.
THEOREM AttemptsLimited == Spec => []AttemptsWithinLimit
  BY InitTyped, InitLimit, NextTyped, NextLimit, PTL DEF Spec

-----------------------------------------------------------------------------
(* The ten-failure rule.                                                    *)

Served(r) == r.status = "active" => r.failures < MaxFailures

\* Neither the RPC nor a PATCH leaves a served subscription at the threshold.
LEMMA RowsStayServed ==
  ASSUME NEW r \in SubRow, Served(r)
  PROVE  /\ \A status \in {"active", "paused"} : Served(PatchedRow(r, status))
         /\ Served([r EXCEPT !.failures = 0])
         /\ \A count \in Nat :
              Served([status   |-> IF count >= MaxFailures /\ r.status = "active"
                                   THEN "disabled" ELSE r.status,
                      failures |-> count])
  <1>1. \A count \in Nat :
              Served([status   |-> IF count >= MaxFailures /\ r.status = "active"
                                   THEN "disabled" ELSE r.status,
                      failures |-> count])
    BY LimitsAssumption DEF Served
  <1> QED
    BY <1>1, LimitsAssumption DEF Served, SubRow, PatchedRow

LEMMA UpdateKeepsServed ==
  ASSUME TypeOK, ActiveBelowThreshold, NEW s, NEW row, s \in Subs => Served(row),
         UpdateSub(s, row)
  PROVE  ActiveBelowThreshold'
  BY DEF TypeOK, ActiveBelowThreshold, UpdateSub, Served

LEMMA NextServed ==
  TypeOK /\ ActiveBelowThreshold /\ [Next]_vars => ActiveBelowThreshold'
  <1> SUFFICES ASSUME TypeOK, ActiveBelowThreshold, [Next]_vars PROVE ActiveBelowThreshold'
    OBVIOUS
  <1>1. \A s \in Subs : subs[s] \in SubRow /\ Served(subs[s])
    BY DEF TypeOK, ActiveBelowThreshold, Served
  <1>2. CASE UNCHANGED subs
    BY <1>2 DEF ActiveBelowThreshold
  <1>3. CASE SubscriberStep
    <2>1. ASSUME NEW s \in Subs, CreateSub(s) \/ DeleteSub(s) PROVE ActiveBelowThreshold'
      BY <2>1, LimitsAssumption DEF CreateSub, DeleteSub, ActiveBelowThreshold, TypeOK
    <2>2. ASSUME NEW s \in Subs, NEW status \in {"active", "paused"}, PatchStatus(s, status)
          PROVE  ActiveBelowThreshold'
      <3>1. Served(PatchedRow(subs[s], status))
        BY <1>1, RowsStayServed
      <3> QED
        BY <2>2, <3>1 DEF PatchStatus, ActiveBelowThreshold, TypeOK, Served
    <2> QED
      BY <1>2, <1>3, <2>1, <2>2
      DEF SubscriberStep, DeleteEvent, DispatchWebhooks, DeliverTestWebhook
  <1>4. ASSUME NEW w \in Workers, WorkerStep(w) PROVE ActiveBelowThreshold'
    <2>1. work[w].sub \in Subs
      BY <1>4, WorkerBusy DEF Flight
    <2>2. CASE ResetFailures(w)
      BY <1>1, <2>1, <2>2, RowsStayServed, UpdateKeepsServed DEF ResetFailures
    <2>3. CASE IncrementWebhookFailures(w)
      <3> DEFINE s     == work[w].sub
                 count == Min2(subs[s].failures + 1, MaxFailures)
                 row   == [status   |-> IF count >= MaxFailures /\ subs[s].status = "active"
                                        THEN "disabled" ELSE subs[s].status,
                           failures |-> count]
      <3>1. count \in Nat
        BY <1>1, <2>1, LimitsAssumption DEF SubRow, Min2
      <3>2. Served(row)
        <4> HIDE DEF count
        <4> QED
          BY <1>1, <2>1, <3>1, RowsStayServed
      <3>3. UpdateSub(s, row)
        BY <2>3 DEF IncrementWebhookFailures
      <3> HIDE DEF s, row
      <3> QED
        BY <3>2, <3>3, UpdateKeepsServed
    <2> QED
      BY <1>2, <1>4, <2>2, <2>3
      DEF WorkerStep, ResolveSigningSecretFails, Post, MarkDelivered, HandleDeliveryFailure
  <1> QED
    BY <1>2, <1>3, <1>4
    DEF Next, DispatchStep, DispatchOne, CronStep, CronSelect, CronReadSubs, CronReadEvents,
        CronSubGone, CronEventGone, CronRetry, Tick, Crash, vars

\* A subscription still served has fewer than MaxFailures failures counted since
\* it last worked or was reactivated, however PATCHes, deliveries in flight,
\* refused writes and restarts interleave.
THEOREM ServedBelowThreshold == Spec => []ActiveBelowThreshold
  <1>1. Init => ActiveBelowThreshold
    BY DEF Init, ActiveBelowThreshold, NoSub
  <1>2. TypeOK /\ ActiveBelowThreshold /\ [Next]_vars => ActiveBelowThreshold'
    BY NextServed
  <1> QED
    BY <1>1, <1>2, TypeCorrect, PTL DEF Spec

-----------------------------------------------------------------------------
(* The log never claims a delivery nobody acknowledged: the worker that     *)
(* writes "delivered" has seen the 2xx.                                     *)

OkWasAcked == \A w \in Workers : work[w].pc = "ok" => work[w].d \in acked
LogHonest  == DeliveredWasAcked /\ OkWasAcked

LEMMA UpdateHonest ==
  ASSUME TypeOK, DeliveredWasAcked, NEW d, NEW row, UpdateDeliv(d, row),
         d \in Deliveries => (row.status = "delivered" => d \in acked)
  PROVE  \A e \in Deliveries : deliv'[e].status = "delivered" => e \in acked
  BY DEF TypeOK, DeliveredWasAcked, UpdateDeliv

\* Only DeliveredRow makes a row delivered.
LEMMA RowsHonest ==
  ASSUME NEW r \in DelivRow
  PROVE  /\ \A n : FailureRow(r, n).status # "delivered"
         /\ SecretFailedRow(r).status # "delivered"
         /\ \A cause : AbandonedRow(r, cause).status # "delivered"
         /\ GoneRow(r).status # "delivered"
         /\ NextMinute(r).status = r.status
         /\ \A s, e, raw : PendingRow(s, e, raw).status # "delivered"
  BY DEF DelivRow, FailureRow, SecretFailedRow, AbandonedRow, GoneRow, NextMinute, PendingRow

LEMMA NextHonest == TypeOK /\ LogHonest /\ [Next]_vars => LogHonest'
  <1> SUFFICES ASSUME TypeOK, LogHonest, [Next]_vars PROVE LogHonest'
    OBVIOUS
  <1> USE DEF history
  <1>1. \A d \in Deliveries : deliv[d] \in DelivRow
    BY DEF TypeOK
  <1>2. ASSUME NEW w \in Workers, NEW d, NEW s, NEW n, Launch(w, d, s, n)
        PROVE  \A v \in Workers : work'[v].pc = "ok" => work'[v].d \in acked
    BY <1>2 DEF Launch, LogHonest, OkWasAcked, TypeOK
  <1>3. ASSUME NEW d \in Deliveries, NEW s, NEW e, NEW raw, InsertPending(d, s, e, raw)
        PROVE  \A x \in Deliveries : deliv'[x].status = "delivered" => x \in acked
    BY <1>1, <1>3, RowsHonest DEF InsertPending, LogHonest, DeliveredWasAcked, TypeOK
  <1>4. CASE SubscriberStep
    <2>1. ASSUME NEW s \in Subs, DeleteSub(s) PROVE LogHonest'
      BY <1>1, <2>1, RowsHonest DEF DeleteSub, LogHonest, DeliveredWasAcked, OkWasAcked
    <2>2. ASSUME NEW s \in Subs, DeliverTestWebhook(s) PROVE LogHonest'
      BY <1>2, <1>3, <2>2 DEF DeliverTestWebhook, LogHonest, DeliveredWasAcked, OkWasAcked
    <2> QED
      BY <1>4, <2>1, <2>2
      DEF SubscriberStep, CreateSub, PatchStatus, DeleteEvent, DispatchWebhooks, LogHonest,
          DeliveredWasAcked, OkWasAcked
  <1>5. CASE DispatchStep
    BY <1>2, <1>3, <1>5
    DEF DispatchStep, DispatchOne, LogHonest, DeliveredWasAcked, OkWasAcked
  <1>6. ASSUME NEW w \in Workers, WorkerStep(w) PROVE LogHonest'
    <2>1. work[w] \in Flight
      BY <1>6, WorkerBusy
    <2>2. ASSUME work' = [work EXCEPT ![w] = Idle] \/ \E pc \in {"okSub", "fail", "failSub"} :
                                                         work' = [work EXCEPT ![w].pc = pc]
          PROVE  \A v \in Workers : work'[v].pc = "ok" => work[v].pc = "ok" /\ work'[v].d = work[v].d
      BY <2>1, <2>2 DEF TypeOK, Flight, Idle
    <2>3. CASE Post(w)
      <3>1. CASE work' = [work EXCEPT ![w].pc = "ok"] /\ acked' = acked \cup {work[w].d}
        <4>1. OkWasAcked'
          BY <2>1, <3>1 DEF LogHonest, OkWasAcked, TypeOK, Flight
        <4> QED
          BY <2>3, <3>1, <4>1 DEF Post, LogHonest, DeliveredWasAcked
      <3>2. CASE work' = [work EXCEPT ![w].pc = "fail"] /\ UNCHANGED acked
        BY <2>2, <2>3, <3>2 DEF Post, LogHonest, DeliveredWasAcked, OkWasAcked
      <3> QED
        BY <2>3, <3>1, <3>2 DEF Post, AfterPost
    <2>4. CASE ResolveSigningSecretFails(w)
      BY <1>1, <2>1, <2>2, <2>4, RowsHonest, UpdateHonest
      DEF ResolveSigningSecretFails, LogHonest, DeliveredWasAcked, OkWasAcked, Flight
    <2>5. CASE MarkDelivered(w)
      BY <2>1, <2>2, <2>5, UpdateHonest
      DEF MarkDelivered, LogHonest, DeliveredWasAcked, OkWasAcked, Flight
    <2>6. CASE HandleDeliveryFailure(w)
      BY <1>1, <2>1, <2>2, <2>6, RowsHonest, UpdateHonest
      DEF HandleDeliveryFailure, LogHonest, DeliveredWasAcked, OkWasAcked, Flight
    <2>7. CASE ResetFailures(w) \/ IncrementWebhookFailures(w)
      BY <2>2, <2>7
      DEF ResetFailures, IncrementWebhookFailures, LogHonest, DeliveredWasAcked, OkWasAcked
    <2> QED
      BY <1>6, <2>3, <2>4, <2>5, <2>6, <2>7 DEF WorkerStep
  <1>7. ASSUME NEW c \in Crons, CronStep(c) PROVE LogHonest'
    <2>1. ASSUME NEW d \in Deliveries, CronSubGone(c, d) \/ CronEventGone(c, d) PROVE LogHonest'
      BY <1>1, <2>1, RowsHonest, UpdateHonest
      DEF CronSubGone, CronEventGone, LogHonest, DeliveredWasAcked, OkWasAcked
    <2>2. ASSUME NEW d \in Deliveries, CronRetry(c, d) PROVE LogHonest'
      BY <1>2, <2>2 DEF CronRetry, LogHonest, DeliveredWasAcked, OkWasAcked
    <2> QED
      BY <1>7, <2>1, <2>2
      DEF CronStep, CronSelect, CronReadSubs, CronReadEvents, LogHonest, DeliveredWasAcked,
          OkWasAcked
  <1>8. CASE Tick
    BY <1>1, <1>8, RowsHonest DEF Tick, LogHonest, DeliveredWasAcked, OkWasAcked
  <1>9. CASE Crash
    BY <1>9 DEF Crash, LogHonest, DeliveredWasAcked, OkWasAcked, Idle
  <1>10. CASE UNCHANGED vars
    BY <1>10 DEF vars, LogHonest, DeliveredWasAcked, OkWasAcked
  <1> QED
    BY <1>4, <1>5, <1>6, <1>7, <1>8, <1>9, <1>10 DEF Next

\* A row is logged as delivered only if the subscriber answered 2xx to one of its
\* attempts: no interleaving of workers, cron calls and restarts invents one.
THEOREM DeliveredHonestly == Spec => []DeliveredWasAcked
  <1>1. Init => LogHonest
    BY DEF Init, LogHonest, DeliveredWasAcked, OkWasAcked, NoDeliv, Idle
  <1>2. LogHonest => DeliveredWasAcked
    BY DEF LogHonest
  <1> QED
    BY <1>1, <1>2, NextHonest, TypeCorrect, PTL DEF Spec

-----------------------------------------------------------------------------
(* Nothing is lost while the process stays up, writes succeed and cron      *)
(* calls wait for the retries of the one before.                            *)

\* a worker that has an attempt to make or to record, and the row it is about
Carries(f) == f.pc \in {"run", "ok", "fail"}
Held(f, row, t, a) ==
  /\ row.status \in {IF f.n = 1 THEN "pending" ELSE "retrying", "gone"}
  /\ t = IF f.pc = "run" THEN f.n - 1 ELSE f.n
  /\ a <=> f.pc = "ok"

\* a row no worker carries
Resting(row, t, a) ==
  /\ row.status # "pending"
  /\ row.status = "none" => t = 0 /\ ~a
  /\ row.status = "retrying" => t = row.attempt /\ ~a
  /\ a => row.status \in {"delivered", "gone"}

\* a row of a batch: none of it has happened since it was selected
Taken(n, row, t, a) == row.status \in {"retrying", "gone"} /\ t = n /\ ~a

Alone   == \A v, w \in Workers :
             Carries(work[v]) /\ Carries(work[w]) /\ work[v].d = work[w].d => v = w
Carried == \A w \in Workers : Carries(work[w]) =>
             Held(work[w], deliv[work[w].d], tries[work[w].d], work[w].d \in acked)
Rested  == \A d \in Deliveries : ~InFlight(d) => Resting(deliv[d], tries[d], d \in acked)
Batched == \A c \in Crons, d \in Deliveries : cron[c].batch[d] # 0 =>
             ~InFlight(d) /\ Taken(cron[c].batch[d], deliv[d], tries[d], d \in acked)
OneCron == /\ \A c, e \in Crons : cron[c].pc # "idle" /\ cron[e].pc # "idle" => c = e
           /\ \A c \in Crons : cron[c].pc = "idle" => cron[c].batch = NoBatch
Unborn  == \A d \in Deliveries : deliv[d].status = "none" => deliv[d].sub = None
InHand  == Alone /\ Carried /\ Rested /\ Batched /\ OneCron /\ Unborn

LEMMA InHandIs == TypeOK /\ InHand => NothingLost
  BY DEF TypeOK, InHand, Rested, Resting, NothingLost, PendingIsInFlight, AckedIsDelivered

LEMMA InitInHand == Init => InHand
  <1> SUFFICES ASSUME Init PROVE InHand
    OBVIOUS
  <1>1. \A w \in Workers : ~Carries(work[w])
    BY DEF Init, Idle, Carries
  <1>2. \A d \in Deliveries : deliv[d] = NoDeliv /\ tries[d] = 0 /\ d \notin acked
    BY DEF Init, NoBatch
  <1>3. \A c \in Crons : cron[c] = NoCron
    BY DEF Init
  <1>4. NoCron.pc = "idle" /\ NoCron.batch = NoBatch /\ \A d \in Deliveries : NoBatch[d] = 0
    BY DEF NoCron, NoBatch
  <1>5. NoDeliv.status = "none" /\ NoDeliv.sub = None
    BY DEF NoDeliv
  <1> QED
    BY <1>1, <1>2, <1>3, <1>4, <1>5 DEF InHand, Alone, Carried, Rested, Resting, Batched, OneCron, Unborn

\* Rows that disappear, or whose fields the engine goes by stay.
LEMMA RowsFade ==
  ASSUME InHand, TypeOK, UNCHANGED <<work, cron, history>>,
         \A d \in Deliveries :
           \/ deliv'[d].status = "gone"
           \/ /\ deliv'[d].status = deliv[d].status /\ deliv'[d].sub = deliv[d].sub
              /\ deliv'[d].attempt = deliv[d].attempt
  PROVE  InHand'
  <1> USE DEF InHand, history
  <1>1. \A w \in Workers : Carries(work[w]) => work[w].d \in Deliveries
    BY DEF TypeOK, Flight, Idle, Carries
  <1>2. \A d \in Deliveries : InFlight(d)' <=> InFlight(d)
    BY DEF InFlight
  <1>3. Alone' /\ OneCron'
    BY DEF Alone, OneCron
  <1>4. Carried'
    BY <1>1 DEF Carried, Held
  <1>5. Rested'
    BY <1>2 DEF Rested, Resting
  <1>6. Batched'
    BY <1>2 DEF Batched, Taken
  <1>7. Unborn'
    BY DEF Unborn
  <1> QED
    BY <1>3, <1>4, <1>5, <1>6, <1>7

\* A worker sets out with a delivery at rest that is in no batch any more.
LEMMA SetsOut ==
  ASSUME InHand, TypeOK, NEW d \in Deliveries, NEW w \in Workers, NEW s, NEW n \in Nat,
         Launch(w, d, s, n), ~InFlight(d), UNCHANGED history,
         \A x \in Deliveries \ {d} : deliv'[x] = deliv[x],
         deliv'[d].status \in {IF n = 1 THEN "pending" ELSE "retrying", "gone"},
         tries[d] = n - 1, d \notin acked,
         \A c \in Crons, x \in Deliveries :
           cron'[c].batch[x] # 0 => x # d /\ cron[c].batch[x] = cron'[c].batch[x]
  PROVE  Alone' /\ Carried' /\ Rested' /\ Batched'
  <1> USE DEF InHand, history
  <1> DEFINE f == [pc |-> "run", d |-> d, sub |-> s, n |-> n]
  <1>1. /\ f.pc = "run" /\ f.d = d /\ f.n = n /\ Carries(f)
        /\ work'[w] = f /\ \A v \in Workers \ {w} : work'[v] = work[v]
        /\ ~Carries(work[w])
    BY DEF Launch, TypeOK, Carries
  <1> HIDE DEF f
  <1>2. \A v \in Workers : Carries(work[v]) => work[v].d \in Deliveries /\ work[v].d # d
    BY DEF TypeOK, Flight, Idle, Carries, InFlight
  <1>3. \A x \in Deliveries : InFlight(x)' <=> InFlight(x) \/ x = d
    BY <1>1 DEF InFlight, Carries
  <1>4. Alone'
    BY <1>1, <1>2 DEF Alone
  <1>5. Carried'
    BY <1>1, <1>2 DEF Carried, Held
  <1>6. Rested'
    BY <1>3 DEF Rested
  <1>7. Batched'
    BY <1>3 DEF Batched
  <1> QED
    BY <1>4, <1>5, <1>6, <1>7

\* A worker lays its delivery down.
LEMMA LaysDown ==
  ASSUME InHand, TypeOK, NEW w \in Workers, NEW d \in Deliveries, Carries(work[w]), work[w].d = d,
         \A v \in Workers \ {w} : work'[v] = work[v], ~Carries(work'[w]),
         UNCHANGED <<cron, history>>,
         \A x \in Deliveries \ {d} : deliv'[x] = deliv[x],
         deliv'[d].status # "none", Resting(deliv'[d], tries[d], d \in acked)
  PROVE  InHand'
  <1> USE DEF InHand, history
  <1>1. \A v \in Workers : Carries(work[v]) => work[v].d \in Deliveries
    BY DEF TypeOK, Flight, Idle, Carries
  <1>2. \A v \in Workers \ {w} : Carries(work[v]) => work[v].d # d
    BY DEF Alone
  <1>3. \A x \in Deliveries : InFlight(x)' <=> InFlight(x) /\ x # d
    BY <1>2 DEF InFlight, Carries
  <1>4. InFlight(d)
    BY DEF InFlight, Carries
  <1>5. Alone' /\ OneCron' /\ Unborn'
    BY DEF Alone, OneCron, Unborn
  <1>6. Carried'
    BY <1>1, <1>2 DEF Carried
  <1>7. Rested'
    BY <1>3 DEF Rested
  <1>8. Batched'
    BY <1>3, <1>4 DEF Batched
  <1> QED
    BY <1>5, <1>6, <1>7, <1>8

\* The update is made: no write is refused.
LEMMA Updated ==
  ASSUME ~WritesFail, TypeOK, NEW d \in Deliveries, NEW row, UpdateDeliv(d, row)
  PROVE  /\ deliv'[d] = IF deliv[d].status = "gone" THEN deliv[d] ELSE row
         /\ \A x \in Deliveries \ {d} : deliv'[x] = deliv[x]
  BY DEF UpdateDeliv, TypeOK

\* A row pending is new to everyone: workers, batches and the history.
LEMMA Inserts ==
  ASSUME InHand, TypeOK, NEW d \in Deliveries, NEW w \in Workers, NEW s \in Subs, NEW e, NEW raw,
         InsertPending(d, s, e, raw), Launch(w, d, s, 1), UNCHANGED <<cron, history>>
  PROVE  InHand'
  <1> USE DEF InHand, history
  <1>1. PendingRow(s, e, raw).status = "pending"
    BY DEF PendingRow
  <1>2. /\ deliv[d].status = "none" /\ deliv'[d].status = "pending"
        /\ \A x \in Deliveries \ {d} : deliv'[x] = deliv[x]
    BY <1>1 DEF InsertPending, TypeOK
  <1>3. ~InFlight(d)
    BY <1>2 DEF Carried, Held, InFlight, Carries
  <1>4. tries[d] = 0 /\ d \notin acked
    BY <1>2, <1>3 DEF Rested, Resting
  <1>5. \A c \in Crons, x \in Deliveries :
          cron'[c].batch[x] # 0 => x # d /\ cron[c].batch[x] = cron'[c].batch[x]
    BY <1>2 DEF Batched, Taken
  <1>6. Alone' /\ Carried' /\ Rested' /\ Batched'
    BY <1>2, <1>3, <1>4, <1>5, SetsOut
  <1>7. OneCron' /\ Unborn'
    BY <1>2 DEF OneCron, Unborn
  <1> QED
    BY <1>6, <1>7

\* Nothing of it changes where no row, worker, batch or history does.
LEMMA StaysInHand ==
  ASSUME InHand, UNCHANGED <<deliv, work, cron, history>>
  PROVE  InHand'
  <1> USE DEF history
  <1>1. \A d \in Deliveries : InFlight(d)' <=> InFlight(d)
    BY DEF InFlight
  <1> QED
    BY <1>1 DEF InHand, Alone, Carried, Rested, Batched, OneCron, Unborn

LEMMA SubscriberInHand ==
  ASSUME InHand, TypeOK, SubscriberStep
  PROVE  InHand'
  <1>1. ASSUME NEW s \in Subs, DeleteSub(s) PROVE InHand'
    <2>1. \A d \in Deliveries : deliv'[d].status = "gone" \/ deliv'[d] = deliv[d]
      BY <1>1 DEF DeleteSub, GoneRow, TypeOK, DelivRow
    <2> QED
      BY <1>1, <2>1, RowsFade DEF DeleteSub
  <1>2. ASSUME NEW s \in Subs, DeliverTestWebhook(s) PROVE InHand'
    BY <1>2, Inserts DEF DeliverTestWebhook
  <1> QED
    BY <1>1, <1>2, StaysInHand
    DEF SubscriberStep, CreateSub, PatchStatus, DeleteEvent, DispatchWebhooks

LEMMA DispatchInHand ==
  ASSUME InHand, TypeOK, DispatchStep
  PROVE  InHand'
  BY Inserts, StaysInHand DEF DispatchStep, DispatchOne

LEMMA WorkerInHand ==
  ASSUME ~WritesFail, InHand, TypeOK, NEW w \in Workers, WorkerStep(w)
  PROVE  InHand'
  <1> DEFINE d == work[w].d
             n == work[w].n
  <1>1. /\ work[w] \in Flight /\ d \in Deliveries /\ n \in 1 .. MaxRetries
        /\ deliv[d] \in DelivRow
    BY WorkerBusy DEF Flight, TypeOK
  <1>2. Carries(work[w]) => Held(work[w], deliv[d], tries[d], d \in acked)
    BY DEF InHand, Carried
  <1>3. ~Carries(Idle) /\ \A pc \in {"okSub", "failSub"} : ~Carries([work[w] EXCEPT !.pc = pc])
    BY <1>1 DEF Idle, Carries, Flight
  <1>4. CASE ResolveSigningSecretFails(w)
    <2>1. SecretFailedRow(deliv[d]).status = "failed"
      BY <1>1 DEF SecretFailedRow, DelivRow
    <2>2. Carries(work[w]) /\ d \notin acked /\ deliv[d].status # "none"
      BY <1>2, <1>4 DEF ResolveSigningSecretFails, Carries, Held
    <2>3. /\ deliv'[d] = IF deliv[d].status = "gone" THEN deliv[d] ELSE SecretFailedRow(deliv[d])
          /\ \A x \in Deliveries \ {d} : deliv'[x] = deliv[x]
      BY <1>1, <1>4, Updated DEF ResolveSigningSecretFails
    <2>4. deliv'[d].status # "none" /\ Resting(deliv'[d], tries[d], d \in acked)
      BY <2>1, <2>2, <2>3 DEF Resting
    <2>5. work'[w] = Idle /\ \A v \in Workers \ {w} : work'[v] = work[v]
      BY <1>4 DEF ResolveSigningSecretFails, TypeOK
    <2>6. UNCHANGED <<cron, history>>
      BY <1>4 DEF ResolveSigningSecretFails
    <2> QED
      BY <1>1, <1>3, <2>2, <2>3, <2>4, <2>5, <2>6, LaysDown
  <1>5. CASE MarkDelivered(w)
    <2>1. DeliveredRow(deliv[d]).status = "delivered"
      BY <1>1 DEF DeliveredRow, DelivRow
    <2>2. Carries(work[w]) /\ deliv[d].status # "none"
      BY <1>2, <1>5 DEF MarkDelivered, Carries, Held
    <2>3. /\ deliv'[d] = IF deliv[d].status = "gone" THEN deliv[d] ELSE DeliveredRow(deliv[d])
          /\ \A x \in Deliveries \ {d} : deliv'[x] = deliv[x]
      BY <1>1, <1>5, Updated DEF MarkDelivered
    <2>4. deliv'[d].status # "none" /\ Resting(deliv'[d], tries[d], d \in acked)
      BY <2>1, <2>2, <2>3 DEF Resting
    <2>5. work'[w] = [work[w] EXCEPT !.pc = "okSub"] /\ \A v \in Workers \ {w} : work'[v] = work[v]
      BY <1>5 DEF MarkDelivered, TypeOK
    <2>6. UNCHANGED <<cron, history>>
      BY <1>5 DEF MarkDelivered
    <2> QED
      BY <1>1, <1>3, <2>2, <2>3, <2>4, <2>5, <2>6, LaysDown
  <1>6. CASE HandleDeliveryFailure(w)
    <2> DEFINE row == FailureRow(deliv[d], n)
    <2>1. /\ row.status \in {"retrying", "failed"} /\ row.attempt = n
      BY <1>1 DEF FailureRow, DelivRow
    <2>2. Carries(work[w]) /\ deliv[d].status # "none" /\ tries[d] = n /\ d \notin acked
      BY <1>2, <1>6 DEF HandleDeliveryFailure, Carries, Held
    <2>3. /\ deliv'[d] = IF deliv[d].status = "gone" THEN deliv[d] ELSE row
          /\ \A x \in Deliveries \ {d} : deliv'[x] = deliv[x]
      BY <1>1, <1>6, Updated DEF HandleDeliveryFailure
    <2>4. deliv'[d].status # "none" /\ Resting(deliv'[d], tries[d], d \in acked)
      BY <2>1, <2>2, <2>3 DEF Resting
    <2>5. work'[w] = [work[w] EXCEPT !.pc = "failSub"] /\ \A v \in Workers \ {w} : work'[v] = work[v]
      BY <1>6 DEF HandleDeliveryFailure, TypeOK
    <2>6. UNCHANGED <<cron, history>>
      BY <1>6 DEF HandleDeliveryFailure
    <2> QED
      BY <1>1, <1>3, <2>2, <2>3, <2>4, <2>5, <2>6, LaysDown
  <1>7. CASE ResetFailures(w) \/ IncrementWebhookFailures(w)
    <2>1. /\ ~Carries(work[w]) /\ work'[w] = Idle /\ \A v \in Workers \ {w} : work'[v] = work[v]
          /\ UNCHANGED <<deliv, cron, history>>
      BY <1>7 DEF ResetFailures, IncrementWebhookFailures, Carries, TypeOK
    <2>2. \A v \in Workers : Carries(work'[v]) => work'[v] = work[v]
      BY <1>3, <2>1
    <2>3. \A v \in Workers : Carries(work[v]) => work'[v] = work[v]
      BY <2>1
    <2>4. \A x \in Deliveries : InFlight(x)' <=> InFlight(x)
      BY <2>2, <2>3 DEF InFlight, Carries
    <2> QED
      BY <2>1, <2>2, <2>4 DEF InHand, Alone, Carried, Rested, Batched, OneCron, Unborn, history
  <1>8. CASE Post(w)
    <2>1. PICK pc \in {"ok", "fail"} :
            /\ work' = [work EXCEPT ![w].pc = pc]
            /\ acked' = IF pc = "ok" THEN acked \cup {d} ELSE acked
      BY <1>8 DEF Post, AfterPost
    <2>2. /\ work'[w].pc = pc /\ work'[w].d = d /\ work'[w].n = n
          /\ \A v \in Workers \ {w} : work'[v] = work[v]
      BY <1>1, <2>1 DEF TypeOK, Flight
    <2>3. work[w].pc = "run" /\ UNCHANGED <<deliv, cron>>
      BY <1>8 DEF Post
    <2>4. tries[d] = n - 1 /\ d \notin acked
      BY <1>2, <2>3 DEF Carries, Held
    <2>5. tries'[d] = n /\ \A x \in Deliveries \ {d} : tries'[x] = tries[x]
      BY <1>1, <1>8, <2>4, LimitsAssumption DEF Post, TypeOK, Min2
    <2>6. \A x \in Deliveries \ {d} : x \in acked' <=> x \in acked
      BY <2>1
    <2>7. \A v \in Workers : Carries(work'[v]) <=> Carries(work[v])
      BY <2>2, <2>3 DEF Carries
    <2>8. \A v \in Workers : Carries(work[v]) => work[v].d \in Deliveries
      BY DEF TypeOK, Flight, Idle, Carries
    <2>9. \A x \in Deliveries : InFlight(x)' <=> InFlight(x)
      BY <2>2, <2>7 DEF InFlight, Carries
    <2>10. InFlight(d)
      BY <2>3 DEF InFlight
    <2>11. Alone'
      BY <2>2, <2>7 DEF InHand, Alone
    <2>12. Carried'
      <3>1. Held(work'[w], deliv'[d], tries'[d], d \in acked')
        BY <1>2, <2>1, <2>2, <2>3, <2>5 DEF Held, Carries
      <3>2. ASSUME NEW v \in Workers \ {w}, Carries(work'[v])
            PROVE  Held(work'[v], deliv'[work'[v].d], tries'[work'[v].d], work'[v].d \in acked')
        <4>1. work[v].d # d
          BY <2>2, <2>3, <3>2 DEF InHand, Alone, Carries
        <4> QED
          BY <2>2, <2>3, <2>5, <2>6, <2>8, <3>2, <4>1 DEF InHand, Carried
      <3> QED
        BY <2>2, <3>1, <3>2 DEF Carried
    <2>13. Rested'
      BY <2>3, <2>5, <2>6, <2>9, <2>10 DEF InHand, Rested
    <2>14. Batched'
      BY <2>3, <2>5, <2>6, <2>9, <2>10 DEF InHand, Batched
    <2> QED
      BY <2>3, <2>11, <2>12, <2>13, <2>14 DEF InHand, OneCron, Unborn
  <1> QED
    BY <1>4, <1>5, <1>6, <1>7, <1>8 DEF WorkerStep

\* The loop leaves every other row in its batch.
LEMMA RowLeaves ==
  ASSUME InHand, TypeOK, NEW c \in Crons, NEW d \in Deliveries, CronRow(c, d), CronNextRow(c, d)
  PROVE  /\ OneCron'
         /\ \A e \in Crons, x \in Deliveries :
              cron'[e].batch[x] # 0 => x # d /\ cron[e].batch[x] = cron'[e].batch[x]
  <1> DEFINE rest == [cron[c].batch EXCEPT ![d] = 0]
             left == [cron[c] EXCEPT !.batch = rest]
  <1>1. /\ left.pc = cron[c].pc /\ left.batch = rest
        /\ rest[d] = 0 /\ \A x \in Deliveries \ {d} : rest[x] = cron[c].batch[x]
    BY DEF TypeOK, CronCall
  <1>2. cron' = [cron EXCEPT ![c] = IF rest = NoBatch THEN NoCron ELSE left]
    BY DEF CronNextRow
  <1> HIDE DEF rest, left
  <1>3. /\ cron'[c] = NoCron \/ cron'[c] = left
        /\ \A e \in Crons \ {c} : cron'[e] = cron[e]
    BY <1>2 DEF TypeOK
  <1>4. NoCron.pc = "idle" /\ NoCron.batch = NoBatch /\ \A x \in Deliveries : NoBatch[x] = 0
    BY DEF NoCron, NoBatch
  <1>5. cron[c].pc = "loop"
    BY DEF CronRow
  <1>6. \A e \in Crons \ {c} : cron[e].pc = "idle" /\ cron[e].batch = NoBatch
    BY <1>5 DEF InHand, OneCron
  <1>7. OneCron'
    BY <1>1, <1>3, <1>4, <1>5, <1>6 DEF OneCron
  <1> QED
    BY <1>1, <1>3, <1>4, <1>6, <1>7

\* What a batch takes is at rest: an attempt under way is the first of a row that
\* is not due, or a retry, for which the scheduler waits.
LEMMA SelectInHand ==
  ASSUME SerialCron, InHand, TypeOK, NEW c \in Crons, NEW batch \in SUBSET Due, CronSelect(c, batch)
  PROVE  InHand'
  <1> DEFINE r == [cron[c] EXCEPT !.pc = "reads", !.batch = AttemptsOf(batch)]
  <1>1. /\ r.pc = "reads" /\ r.batch = AttemptsOf(batch)
        /\ cron' = [cron EXCEPT ![c] = r]
    BY DEF CronSelect, TypeOK, CronCall
  <1> HIDE DEF r
  <1>2. cron'[c] = r /\ \A e \in Crons \ {c} : cron'[e] = cron[e]
    BY <1>1 DEF TypeOK
  <1>3. RetriesRecorded /\ UNCHANGED <<deliv, work, history>>
    BY DEF CronSelect
  <1>4. \A e \in Crons \ {c} : cron[e].pc = "idle" /\ cron[e].batch = NoBatch
    BY <1>3 DEF RetriesRecorded, InHand, OneCron
  <1>5. \A x \in Deliveries : NoBatch[x] = 0
    BY DEF NoBatch
  <1>6. ASSUME NEW d \in batch PROVE deliv[d].status = "retrying" /\ ~InFlight(d)
    <2>1. deliv[d].status = "retrying"
      BY DEF Due
    <2>2. ASSUME NEW w \in Workers, work[w].d = d, work[w].pc \in {"run", "ok", "fail"} PROVE FALSE
      <3>1. work[w].n = 1
        <4>1. work[w].n \in 1 .. MaxRetries
          BY <2>2 DEF TypeOK, Flight, Idle
        <4> QED
          BY <1>3, <2>2, <4>1, LimitsAssumption DEF RetriesRecorded
      <3> QED
        BY <2>1, <2>2, <3>1 DEF InHand, Carried, Held, Carries
    <2> QED
      BY <2>1, <2>2 DEF InFlight
  <1>7. ASSUME NEW d \in Deliveries, AttemptsOf(batch)[d] # 0
        PROVE  ~InFlight(d) /\ Taken(AttemptsOf(batch)[d], deliv[d], tries[d], d \in acked)
    <2>1. d \in batch /\ AttemptsOf(batch)[d] = deliv[d].attempt
      BY <1>7 DEF AttemptsOf
    <2> QED
      BY <1>6, <2>1 DEF InHand, Rested, Resting, Taken
  <1>8. \A d \in Deliveries : InFlight(d)' <=> InFlight(d)
    BY <1>3 DEF InFlight
  <1>9. Batched'
    BY <1>1, <1>2, <1>3, <1>4, <1>5, <1>7, <1>8 DEF Batched, history
  <1>10. OneCron'
    BY <1>1, <1>2, <1>4 DEF OneCron
  <1> QED
    BY <1>3, <1>8, <1>9, <1>10 DEF InHand, Alone, Carried, Rested, Unborn, history

LEMMA ReadsInHand ==
  ASSUME InHand, TypeOK, NEW c \in Crons, CronReadSubs(c) \/ CronReadEvents(c)
  PROVE  InHand'
  <1> DEFINE rs == [cron[c] EXCEPT !.pc   = IF cron[c].pc = "reads" THEN "events" ELSE "loop",
                                   !.live = {s \in Subs : subs[s].status = "active"}]
             re == [cron[c] EXCEPT !.pc    = IF cron[c].pc = "reads" THEN "subs" ELSE "loop",
                                   !.known = events]
  <1>1. /\ rs.batch = cron[c].batch /\ re.batch = cron[c].batch
        /\ rs.pc # "idle" /\ re.pc # "idle"
    BY DEF TypeOK, CronCall
  <1>2. cron' = [cron EXCEPT ![c] = rs] \/ cron' = [cron EXCEPT ![c] = re]
    BY DEF CronReadSubs, CronReadEvents
  <1> HIDE DEF rs, re
  <1>3. /\ cron'[c].batch = cron[c].batch /\ cron'[c].pc # "idle" /\ cron[c].pc # "idle"
        /\ \A e \in Crons \ {c} : cron'[e] = cron[e]
    BY <1>1, <1>2 DEF TypeOK, CronReadSubs, CronReadEvents
  <1>4. UNCHANGED <<deliv, work, history>>
    BY DEF CronReadSubs, CronReadEvents
  <1>5. \A d \in Deliveries : InFlight(d)' <=> InFlight(d)
    BY <1>4 DEF InFlight
  <1>6. OneCron'
    BY <1>3 DEF InHand, OneCron
  <1>7. \A e \in Crons, d \in Deliveries : cron'[e].batch[d] = cron[e].batch[d]
    BY <1>3
  <1>8. Batched'
    BY <1>4, <1>5, <1>7 DEF InHand, Batched, history
  <1> QED
    BY <1>4, <1>5, <1>6, <1>8 DEF InHand, Alone, Carried, Rested, Unborn, history

\* A row given up is at rest, as it was.
LEMMA AbandonsInHand ==
  ASSUME ~WritesFail, InHand, TypeOK, NEW c \in Crons, NEW d \in Deliveries,
         CronSubGone(c, d) \/ CronEventGone(c, d)
  PROVE  InHand'
  <1>1. /\ CronRow(c, d) /\ CronNextRow(c, d) /\ UNCHANGED <<work, history>>
        /\ \E cause \in {"sub", "event"} : UpdateDeliv(d, AbandonedRow(deliv[d], cause))
    BY DEF CronSubGone, CronEventGone
  <1>2. \A cause : AbandonedRow(deliv[d], cause).status = "failed"
    BY DEF AbandonedRow, TypeOK, DelivRow
  <1>3. /\ deliv'[d].status = "failed" \/ (deliv[d].status = "gone" /\ deliv'[d] = deliv[d])
        /\ \A x \in Deliveries \ {d} : deliv'[x] = deliv[x]
    BY <1>1, <1>2, Updated
  <1>4. ~InFlight(d) /\ d \notin acked
    BY <1>1 DEF CronRow, InHand, Batched, Taken
  <1>5. \A x \in Deliveries : InFlight(x)' <=> InFlight(x)
    BY <1>1 DEF InFlight
  <1>6. \A w \in Workers : Carries(work[w]) => work[w].d \in Deliveries \ {d}
    BY <1>4 DEF TypeOK, Flight, Idle, Carries, InFlight
  <1>7. OneCron' /\ \A e \in Crons, x \in Deliveries :
          cron'[e].batch[x] # 0 => x # d /\ cron[e].batch[x] = cron'[e].batch[x]
    BY <1>1, RowLeaves
  <1>8. Alone' /\ Unborn'
    BY <1>1, <1>3 DEF InHand, Alone, Unborn
  <1>9. Carried'
    BY <1>1, <1>3, <1>6 DEF InHand, Carried, history
  <1>10. Rested'
    BY <1>1, <1>3, <1>4, <1>5 DEF InHand, Rested, Resting, history
  <1>11. Batched'
    BY <1>1, <1>3, <1>5, <1>7 DEF InHand, Batched, history
  <1> QED
    BY <1>7, <1>8, <1>9, <1>10, <1>11 DEF InHand

LEMMA RetryInHand ==
  ASSUME InHand, TypeOK, NEW c \in Crons, NEW d \in Deliveries, CronRetry(c, d)
  PROVE  InHand'
  <1> DEFINE n == NextAttempt(cron[c].batch[d])
  <1>1. /\ CronRow(c, d) /\ CronNextRow(c, d) /\ UNCHANGED <<deliv, history>>
        /\ \E w \in Workers : Launch(w, d, deliv[d].sub, n)
    BY DEF CronRetry
  <1>2. /\ ~InFlight(d) /\ deliv[d].status \in {"retrying", "gone"} /\ d \notin acked
        /\ tries[d] = cron[c].batch[d] /\ cron[c].batch[d] # 0
    BY <1>1 DEF CronRow, InHand, Batched, Taken
  <1>3. n \in Nat /\ n # 1 /\ tries[d] = n - 1
    BY <1>2 DEF NextAttempt, TypeOK, CronCall
  <1>4. OneCron' /\ \A e \in Crons, x \in Deliveries :
          cron'[e].batch[x] # 0 => x # d /\ cron[e].batch[x] = cron'[e].batch[x]
    BY <1>1, RowLeaves
  <1> HIDE DEF n
  <1>5. Alone' /\ Carried' /\ Rested' /\ Batched'
    BY <1>1, <1>2, <1>3, <1>4, SetsOut
  <1> QED
    BY <1>1, <1>4, <1>5 DEF InHand, Unborn

LEMMA NextInHand ==
  ASSUME SerialCron, ~WritesFail, ~MayCrash
  PROVE  TypeOK /\ InHand /\ [Next]_vars => InHand'
  <1> SUFFICES ASSUME TypeOK, InHand, [Next]_vars PROVE InHand'
    OBVIOUS
  <1>1. ASSUME NEW c \in Crons, CronStep(c) PROVE InHand'
    BY <1>1, SelectInHand, ReadsInHand, AbandonsInHand, RetryInHand DEF CronStep
  <1>2. CASE Tick
    <2>1. \A r \in DelivRow : /\ NextMinute(r).status = r.status /\ NextMinute(r).sub = r.sub
                              /\ NextMinute(r).attempt = r.attempt
      BY DEF NextMinute, DelivRow
    <2> QED
      BY <1>2, <2>1, RowsFade DEF Tick, TypeOK
  <1>3. CASE UNCHANGED vars
    BY <1>3, StaysInHand DEF vars, history
  <1> QED
    BY <1>1, <1>2, <1>3, SubscriberInHand, DispatchInHand, WorkerInHand DEF Next, Crash

\* While the process stays up, writes succeed and the scheduler waits for the
\* retries of a cron call, no row stays pending that no worker carries and no
\* acknowledgement is overwritten, for any number of workers and cron calls.
THEOREM NothingIsLost ==
  ASSUME SerialCron, ~WritesFail, ~MayCrash
  PROVE  Spec => []NothingLost
  <1>1. TypeOK /\ InHand /\ [Next]_vars => InHand'
    BY NextInHand
  <1>2. Spec => [](TypeOK /\ InHand)
    BY <1>1, InitInHand, TypeCorrect, PTL DEF Spec
  <1> QED
    BY <1>2, InHandIs, PTL

-----------------------------------------------------------------------------
(* The engine implements the contract of a delivery: every step of it is one *)
(* of DeliveryContract, or none.                                            *)

Status == [d \in Deliveries |-> deliv[d].status]

\* what a step makes of one delivery is a step of it in the contract
LEMMA OneDelivery ==
  ASSUME NEW d \in Deliveries, \A x \in Deliveries \ {d} : deliv'[x] = deliv[x],
         UNCHANGED tries,
         \/ deliv'[d].status = deliv[d].status
         \/ deliv[d].status = "none" /\ deliv'[d].status = "pending"
         \/ /\ deliv[d].status \in {"pending", "retrying"}
            /\ \/ deliv'[d].status = "failed"
               \/ deliv'[d].status = "delivered" /\ tries[d] > 0
               \/ deliv'[d].status = "retrying" /\ 0 < tries[d] /\ tries[d] < MaxRetries
  PROVE  Contract!Next \/ UNCHANGED Contract!cvars
  <1>1. Status' = [Status EXCEPT ![d] = deliv'[d].status]
    BY DEF Status
  <1>2. Status[d] = deliv[d].status
    BY DEF Status
  <1>3. CASE deliv'[d].status = deliv[d].status
    <2>1. Status' = Status
      BY <1>3 DEF Status
    <2> QED
      BY <2>1 DEF Contract!cvars, Status
  <1>4. CASE deliv[d].status = "none" /\ deliv'[d].status = "pending"
    <2>1. Contract!Enqueue(d)
      BY <1>1, <1>2, <1>4 DEF Contract!Enqueue, Status
    <2> QED
      BY <2>1 DEF Contract!Next
  <1>5. CASE deliv[d].status \in {"pending", "retrying"} /\ deliv'[d].status = "failed"
    <2>1. Contract!GiveUp(d)
      BY <1>1, <1>2, <1>5 DEF Contract!GiveUp, Status
    <2> QED
      BY <2>1 DEF Contract!Next
  <1>6. CASE /\ deliv[d].status \in {"pending", "retrying"}
             /\ deliv'[d].status = "delivered" /\ tries[d] > 0
    <2>1. Contract!Succeed(d)
      BY <1>1, <1>2, <1>6 DEF Contract!Succeed, Status
    <2> QED
      BY <2>1 DEF Contract!Next
  <1>7. CASE /\ deliv[d].status \in {"pending", "retrying"}
             /\ deliv'[d].status = "retrying" /\ 0 < tries[d] /\ tries[d] < MaxRetries
    <2>1. Contract!Retry(d)
      BY <1>1, <1>2, <1>7 DEF Contract!Retry, Status
    <2> QED
      BY <2>1 DEF Contract!Next
  <1> QED
    BY <1>3, <1>4, <1>5, <1>6, <1>7

LEMMA RowsStay ==
  ASSUME UNCHANGED tries, \A d \in Deliveries : deliv'[d].status = deliv[d].status
  PROVE  UNCHANGED Contract!cvars
  <1>1. Status' = Status
    BY DEF Status
  <1> QED
    BY <1>1 DEF Contract!cvars, Status

LEMMA InsertKeepsContract ==
  ASSUME NEW d \in Deliveries, TypeOK, NEW s, NEW e, NEW raw,
         InsertPending(d, s, e, raw), UNCHANGED tries
  PROVE  Contract!Next \/ UNCHANGED Contract!cvars
  <1>1. PendingRow(s, e, raw).status = "pending"
    BY DEF PendingRow
  <1>2. /\ deliv[d].status = "none" /\ deliv'[d].status = "pending"
        /\ \A x \in Deliveries \ {d} : deliv'[x] = deliv[x]
    BY <1>1 DEF InsertPending, TypeOK
  <1> QED
    BY <1>2, OneDelivery

LEMMA SubscriberKeepsContract ==
  ASSUME InHand, TypeOK, SubscriberStep
  PROVE  Contract!Next \/ UNCHANGED Contract!cvars
  <1>1. ASSUME NEW s \in Subs, DeleteSub(s) PROVE Contract!Next
    <2>1. PICK gone \in SUBSET Deliveries : gone = {d \in Deliveries : deliv[d].sub = s}
      OBVIOUS
    <2>2. \A d \in gone : Status[d] # "none"
      BY <2>1, IdsAssumption DEF InHand, Unborn, Status
    <2>3. \A d \in Deliveries : deliv'[d].status = IF d \in gone THEN "gone" ELSE deliv[d].status
      BY <1>1, <2>1 DEF DeleteSub, GoneRow, TypeOK, DelivRow
    <2>4. Status' = [d \in Deliveries |-> IF d \in gone THEN "gone" ELSE Status[d]]
      BY <2>3 DEF Status
    <2>5. UNCHANGED tries
      BY <1>1 DEF DeleteSub, history
    <2>6. Contract!Drop(gone)
      BY <2>2, <2>4, <2>5 DEF Contract!Drop, Status
    <2> QED
      BY <2>6 DEF Contract!Next
  <1>2. ASSUME NEW s \in Subs, DeliverTestWebhook(s) PROVE Contract!Next \/ UNCHANGED Contract!cvars
    BY <1>2, InsertKeepsContract DEF DeliverTestWebhook, history
  <1>3. CASE UNCHANGED <<deliv, tries>>
    BY <1>3, RowsStay
  <1> QED
    BY <1>1, <1>2, <1>3
    DEF SubscriberStep, CreateSub, PatchStatus, DeleteEvent, DispatchWebhooks, history

LEMMA WorkerKeepsContract ==
  ASSUME ~WritesFail, InHand, TypeOK, NEW w \in Workers, WorkerStep(w)
  PROVE  Contract!Next \/ UNCHANGED Contract!cvars
  <1> DEFINE d == work[w].d
             n == work[w].n
  <1>1. /\ work[w] \in Flight /\ d \in Deliveries /\ n \in 1 .. MaxRetries
        /\ deliv[d] \in DelivRow
    BY WorkerBusy DEF Flight, TypeOK
  <1>2. Carries(work[w]) =>
          /\ deliv[d].status \in {"pending", "retrying", "gone"}
          /\ tries[d] = IF work[w].pc = "run" THEN n - 1 ELSE n
    BY DEF InHand, Carried, Held
  <1>3. CASE ResolveSigningSecretFails(w)
    <2>1. SecretFailedRow(deliv[d]).status = "failed"
      BY <1>1 DEF SecretFailedRow, DelivRow
    <2>2. /\ deliv'[d] = IF deliv[d].status = "gone" THEN deliv[d] ELSE SecretFailedRow(deliv[d])
          /\ \A x \in Deliveries \ {d} : deliv'[x] = deliv[x]
      BY <1>1, <1>3, Updated DEF ResolveSigningSecretFails
    <2>3. Carries(work[w]) /\ UNCHANGED tries
      BY <1>3 DEF ResolveSigningSecretFails, Carries, history
    <2> QED
      BY <1>1, <1>2, <2>1, <2>2, <2>3, OneDelivery
  <1>4. CASE MarkDelivered(w)
    <2>1. DeliveredRow(deliv[d]).status = "delivered"
      BY <1>1 DEF DeliveredRow, DelivRow
    <2>2. /\ deliv'[d] = IF deliv[d].status = "gone" THEN deliv[d] ELSE DeliveredRow(deliv[d])
          /\ \A x \in Deliveries \ {d} : deliv'[x] = deliv[x]
      BY <1>1, <1>4, Updated DEF MarkDelivered
    <2>3. Carries(work[w]) /\ tries[d] = n /\ n > 0 /\ UNCHANGED tries
      BY <1>1, <1>2, <1>4 DEF MarkDelivered, Carries, history
    <2> QED
      BY <1>1, <1>2, <2>1, <2>2, <2>3, OneDelivery
  <1>5. CASE HandleDeliveryFailure(w)
    <2> DEFINE row == FailureRow(deliv[d], n)
    <2>1. row.status = IF n < MaxRetries THEN "retrying" ELSE "failed"
      BY <1>1 DEF FailureRow, CanRetry, DelivRow
    <2>2. /\ deliv'[d] = IF deliv[d].status = "gone" THEN deliv[d] ELSE row
          /\ \A x \in Deliveries \ {d} : deliv'[x] = deliv[x]
      BY <1>1, <1>5, Updated DEF HandleDeliveryFailure
    <2>3. Carries(work[w]) /\ tries[d] = n /\ 0 < n /\ UNCHANGED tries
      BY <1>1, <1>2, <1>5 DEF HandleDeliveryFailure, Carries, history
    <2> QED
      BY <1>1, <1>2, <2>1, <2>2, <2>3, OneDelivery
  <1>6. CASE Post(w)
    <2>1. work[w].pc = "run" /\ UNCHANGED deliv
      BY <1>6 DEF Post
    <2>2. tries[d] = n - 1 /\ tries[d] < MaxRetries /\ tries[d] \in Nat
      BY <1>1, <1>2, <2>1, LimitsAssumption DEF Carries
    <2>3. tries' = [tries EXCEPT ![d] = tries[d] + 1]
      <3>1. Min2(tries[d] + 1, MaxRetries + 1) = tries[d] + 1
        BY <2>2, LimitsAssumption DEF Min2
      <3>2. tries' = [tries EXCEPT ![d] = Min2(tries[d] + 1, MaxRetries + 1)]
        BY <1>6 DEF Post
      <3> QED
        BY <3>1, <3>2
    <2>4. Status[d] \in {"pending", "retrying", "gone"} /\ Status' = Status
      BY <1>1, <1>2, <2>1 DEF Status, Carries
    <2>5. Contract!Attempt(d)
      BY <2>2, <2>3, <2>4 DEF Contract!Attempt, Status
    <2> QED
      BY <1>1, <2>5 DEF Contract!Next
  <1>7. CASE UNCHANGED <<deliv, tries>>
    BY <1>7, RowsStay
  <1> QED
    BY <1>3, <1>4, <1>5, <1>6, <1>7 DEF WorkerStep, ResetFailures, IncrementWebhookFailures, history

LEMMA CronKeepsContract ==
  ASSUME ~WritesFail, InHand, TypeOK, NEW c \in Crons, CronStep(c)
  PROVE  Contract!Next \/ UNCHANGED Contract!cvars
  <1>1. ASSUME NEW d \in Deliveries, CronSubGone(c, d) \/ CronEventGone(c, d)
        PROVE  Contract!Next \/ UNCHANGED Contract!cvars
    <2>1. /\ CronRow(c, d) /\ UNCHANGED tries
          /\ \E cause \in {"sub", "event"} : UpdateDeliv(d, AbandonedRow(deliv[d], cause))
      BY <1>1 DEF CronSubGone, CronEventGone, history
    <2>2. \A cause : AbandonedRow(deliv[d], cause).status = "failed"
      BY DEF AbandonedRow, TypeOK, DelivRow
    <2>3. /\ deliv'[d].status = "failed" \/ (deliv[d].status = "gone" /\ deliv'[d] = deliv[d])
          /\ \A x \in Deliveries \ {d} : deliv'[x] = deliv[x]
      BY <2>1, <2>2, Updated
    <2>4. deliv[d].status \in {"retrying", "gone"}
      BY <2>1 DEF CronRow, InHand, Batched, Taken
    <2>5. deliv[d].status = "gone" => deliv'[d].status = "gone"
      <3>1. PICK cause \in {"sub", "event"} : UpdateDeliv(d, AbandonedRow(deliv[d], cause))
        BY <2>1
      <3> QED
        BY <3>1, Updated
    <2> QED
      BY <2>1, <2>3, <2>4, <2>5, OneDelivery
  <1>2. CASE UNCHANGED <<deliv, tries>>
    BY <1>2, RowsStay
  <1> QED
    BY <1>1, <1>2 DEF CronStep, CronSelect, CronReadSubs, CronReadEvents, CronRetry, history

LEMMA NextKeepsContract ==
  ASSUME ~WritesFail, ~MayCrash
  PROVE  TypeOK /\ InHand /\ [Next]_vars => [Contract!Next]_(Contract!cvars)
  <1> SUFFICES ASSUME TypeOK, InHand, [Next]_vars PROVE Contract!Next \/ UNCHANGED Contract!cvars
    OBVIOUS
  <1>1. CASE DispatchStep
    BY <1>1, InsertKeepsContract, RowsStay DEF DispatchStep, DispatchOne, history
  <1>2. CASE Tick
    <2>1. \A r \in DelivRow : NextMinute(r).status = r.status
      BY DEF NextMinute, DelivRow
    <2> QED
      BY <1>2, <2>1, RowsStay DEF Tick, TypeOK, history
  <1>3. CASE UNCHANGED vars
    BY <1>3, RowsStay DEF vars
  <1> QED
    BY <1>1, <1>2, <1>3, SubscriberKeepsContract, WorkerKeepsContract, CronKeepsContract
    DEF Next, Crash

\* While the process stays up, writes succeed and the scheduler waits for the
\* retries of a cron call, every delivery follows the contract: attempts are
\* bounded and counted, a retry follows a failed attempt, an outcome is final.
THEOREM ContractImplemented ==
  ASSUME SerialCron, ~WritesFail, ~MayCrash
  PROVE  Spec => ContractSpec
  <1>1. TypeOK /\ InHand /\ [Next]_vars => InHand'
    BY NextInHand
  <1>2. TypeOK /\ InHand /\ [Next]_vars => [Contract!Next]_(Contract!cvars)
    BY NextKeepsContract
  <1>3. Init => Contract!Init
    BY DEF Init, Contract!Init, NoDeliv, NoBatch
  <1> QED
    BY <1>1, <1>2, <1>3, InitInHand, TypeCorrect, PTL DEF Spec, ContractSpec, Contract!Spec
=============================================================================
