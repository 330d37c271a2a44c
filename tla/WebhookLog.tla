----------------------------- MODULE WebhookLog -----------------------------
(***************************************************************************)
(* The idempotency of one Cashfree webhook event, delivered several times:  *)
(* a mark and a lock in Redis, which may be down, lose either or let the    *)
(* lock run out, and a row in cashfree_webhook_events, locked by the        *)
(* transaction that applies the event.  What applying does is the subject   *)
(* of PaymentHold and Refunds; here it is counted.                          *)
(***************************************************************************)
EXTENDS Integers, FiniteSets

CONSTANTS Deliveries,   \* deliveries of the event, first and repeated
          MaxDrops      \* bound: requests that die

VARIABLES row,        \* status of the event's row
          rowLock,    \* the delivery whose transaction holds the row
          mark,       \* cashfree:webhook:<key> is set
          busy,       \* cashfree:webhook-lock:<key> is set
          hook,       \* [delivery -> step]
          applications,   \* committed applications of the event
          failures,       \* times the row was marked failed
          drops

webhookVars == <<row, rowLock, mark, busy, hook, applications, failures, drops>>

NoDelivery == "free"
ASSUME DeliveryAssumption ==
  NoDelivery \notin Deliveries /\ IsFiniteSet(Deliveries) /\ MaxDrops \in Nat

Answered == {"ok", "error", "dropped"}

WebhookInit ==
  /\ row = "none" /\ rowLock = NoDelivery
  /\ mark = FALSE /\ busy = FALSE
  /\ hook = [d \in Deliveries |-> "new"]
  /\ applications = 0 /\ failures = 0 /\ drops = 0

Moves(d, s) == hook' = [hook EXCEPT ![d] = s]

\* The end of the handler: whoever believes it took the Redis lock deletes it.
Finish(d, s) == Moves(d, s) /\ (busy' = FALSE \/ busy' = busy)

\* wasWebhookProcessed: "no" when Redis does not answer.
CheckMark(d) ==
  /\ hook[d] = "new"
  /\ (mark /\ Moves(d, "ok")) \/ Moves(d, "unmarked")
  /\ UNCHANGED <<row, rowLock, mark, busy, applications, failures, drops>>

\* reserveWebhookProcessing: SET NX; "yes" when Redis does not answer.  A lock
\* that is taken answers the delivery as a concurrent duplicate.
ReserveHook(d) ==
  /\ hook[d] = "unmarked"
  /\ \/ busy /\ Moves(d, "ok") /\ UNCHANGED busy
     \/ ~busy /\ busy' = TRUE /\ Moves(d, "reserved")
     \/ Moves(d, "reserved") /\ UNCHANGED busy
  /\ UNCHANGED <<row, rowLock, mark, applications, failures, drops>>

\* The lock's TTL runs out before its request ends.
LockRunsOut ==
  /\ busy /\ busy' = FALSE
  /\ UNCHANGED <<row, rowLock, mark, hook, applications, failures, drops>>

\* Redis loses the mark (an eviction, a restart, its TTL).
MarkLost ==
  /\ mark /\ mark' = FALSE
  /\ UNCHANGED <<row, rowLock, busy, hook, applications, failures, drops>>

\* reserveWebhookEvent, as if it trusted the Redis lock alone.
NotBlocked == TRUE

\* The row of another delivery's open transaction is waited for.
RowFree == rowLock = NoDelivery

\* reserveWebhookEvent: INSERT ... ON CONFLICT DO NOTHING, else SELECT ... FOR
\* UPDATE; an event that is processed is a duplicate, and the transaction ends.
ReserveRow(d) ==
  /\ hook[d] = "reserved" /\ RowFree
  /\ IF row = "processed" THEN Moves(d, "known") /\ UNCHANGED rowLock
                          ELSE Moves(d, "applying") /\ rowLock' = d
  /\ UNCHANGED <<row, mark, busy, applications, failures, drops>>

Unheld(d) == rowLock' = IF rowLock = d THEN NoDelivery ELSE rowLock

\* processCashfreePayload and markWebhookEventProcessed commit.
Apply(d) ==
  /\ hook[d] = "applying"
  /\ applications' = applications + 1
  /\ row' = "processed"
  /\ Unheld(d) /\ Moves(d, "applied")
  /\ UNCHANGED <<mark, busy, failures, drops>>

\* The transaction fails, waiting for the row's lock or later, and rolls back.
ApplyFails(d) ==
  /\ hook[d] \in {"reserved", "applying"}
  /\ Unheld(d) /\ Moves(d, "failing")
  /\ UNCHANGED <<row, mark, busy, applications, failures, drops>>

\* markWebhookProcessedInRedis, which may fail; a duplicate then answers.
SetMark(d) ==
  /\ hook[d] \in {"applied", "known"}
  /\ mark' \in {mark, TRUE}
  /\ IF hook[d] = "known" THEN Finish(d, "ok") ELSE Moves(d, "marked") /\ UNCHANGED busy
  /\ UNCHANGED <<row, rowLock, applications, failures, drops>>

\* publishSideEffects: its reads may throw, after the commit.
Publish(d) ==
  /\ hook[d] = "marked"
  /\ Finish(d, "ok") \/ (Moves(d, "failing") /\ UNCHANGED busy)
  /\ UNCHANGED <<row, rowLock, mark, applications, failures, drops>>

\* markWebhookEventFailed: an upsert of its own, whatever the row says; it may
\* fail as well.  The gateway is told of the error and delivers again.
MarkFailure(d) ==
  /\ hook[d] = "failing"
  /\ \/ RowFree /\ row' = "failed" /\ failures' = failures + 1
     \/ UNCHANGED <<row, failures>>
  /\ Finish(d, "error")
  /\ UNCHANGED <<rowLock, mark, applications, drops>>

\* The request's process dies; its transaction rolls back, its Redis lock stays.
Dies(d) ==
  /\ hook[d] \notin Answered \cup {"new"} /\ drops < MaxDrops
  /\ drops' = drops + 1
  /\ Unheld(d) /\ Moves(d, "dropped")
  /\ UNCHANGED <<row, mark, busy, applications, failures>>

WebhookNext ==
  \/ \E d \in Deliveries :
       \/ CheckMark(d) \/ ReserveHook(d) \/ ReserveRow(d) \/ Apply(d) \/ ApplyFails(d)
       \/ SetMark(d) \/ Publish(d) \/ MarkFailure(d) \/ Dies(d)
  \/ LockRunsOut \/ MarkLost

WebhookSpec == WebhookInit /\ [][WebhookNext]_webhookVars

-----------------------------------------------------------------------------
WebhookTypeOK ==
  /\ row \in {"none", "processed", "failed"}
  /\ rowLock \in Deliveries \cup {NoDelivery}
  /\ mark \in BOOLEAN /\ busy \in BOOLEAN
  /\ hook \in [Deliveries -> Answered \cup {"new", "unmarked", "reserved", "applying", "applied",
                                        "known", "marked", "failing"}]
  /\ applications \in 0..Cardinality(Deliveries)
  /\ failures \in 0..Cardinality(Deliveries) /\ drops \in 0..MaxDrops

\* However often the event is delivered, and whatever Redis forgets: it is
\* applied again only after a failure was recorded for it, once for each.
AppliedOncePerFailure == applications <= 1 + failures
=============================================================================
