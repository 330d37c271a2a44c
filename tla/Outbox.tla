------------------------------- MODULE Outbox -------------------------------
(***************************************************************************)
(* notification_outbox: rows written with the change they tell of, claimed *)
(* in batches under a lease of five minutes, delivered one after the other *)
(* and retried.  A slow sweep may outlive its lease, so that two deliver    *)
(* the same row; a worker may die with its batch.                           *)
(***************************************************************************)
EXTENDS Integers, FiniteSets

CONSTANTS
    Mails,      \* idempotency keys
    Sweepers,   \* sweeps that may run at the same time
    MaxTries,   \* MAX_ATTEMPTS (8 in the code)
    MaxLosses   \* bound: workers that die in a sweep

ASSUME OutboxAssumption == MaxTries \in Nat \ {0} /\ MaxLosses \in Nat

VARIABLES
    mail,     \* status; "none" before the row is written
    tries,    \* attempts
    leased,   \* locked_until lies ahead
    inbox,    \* rows of notifications: how many for each key
    batch,    \* claimed by each sweep and not yet marked
    outcome,  \* the delivery each sweep has made and not yet marked
    losses

outboxVars == <<mail, tries, leased, inbox, batch, outcome, losses>>

NoMail == [of |-> "none", ok |-> FALSE]
Final == {"sent", "failed"}

OutboxInit ==
    /\ mail = [m \in Mails |-> "none"] /\ tries = [m \in Mails |-> 0]
    /\ leased = {} /\ inbox = [m \in Mails |-> 0]
    /\ batch = [w \in Sweepers |-> {}] /\ outcome = [w \in Sweepers |-> NoMail]
    /\ losses = 0

\* enqueueNotificationOutbox: ON CONFLICT DO NOTHING
Post(m) ==
    /\ mail[m] = "none"
    /\ mail' = [mail EXCEPT ![m] = "pending"]
    /\ UNCHANGED <<tries, leased, inbox, batch, outcome, losses>>

LeaseEnds(m) ==
    /\ m \in leased
    /\ leased' = leased \ {m}
    /\ UNCHANGED <<mail, tries, inbox, batch, outcome, losses>>

Expired == {m \in Mails : mail[m] = "processing" /\ m \notin leased}

AbandonedForgotten == {}  \* as if failExpiredNotificationOutboxRows did not run

\* Rows nobody finished: failed after the last attempt, claimed again before
Abandoned == {m \in Expired : tries[m] >= MaxTries}
Claimable == {m \in Mails : tries[m] < MaxTries
                 /\ (mail[m] = "pending" \/ m \in Expired)}

\* processNotificationOutboxBatch, with fewer rows than its limit
Sweep(w) ==
    /\ batch[w] = {} /\ Abandoned \cup Claimable # {}
    /\ mail' = [m \in Mails |-> CASE m \in Abandoned -> "failed"
                                  [] m \in Claimable -> "processing"
                                  [] OTHER -> mail[m]]
    /\ tries' = [m \in Mails |-> IF m \in Claimable THEN tries[m] + 1 ELSE tries[m]]
    /\ leased' = leased \cup Claimable
    /\ batch' = [batch EXCEPT ![w] = Claimable]
    /\ UNCHANGED <<inbox, outcome, losses>>

\* notifyUser: the row is inserted once for each key, and what follows may
\* throw; or nothing was inserted at all
Inserted(m) == IF inbox[m] = 0 THEN 1 ELSE inbox[m]

Deliver(w, m) ==
    /\ m \in batch[w] /\ outcome[w] = NoMail
    /\ \/ \E ok \in BOOLEAN :
            /\ inbox' = [inbox EXCEPT ![m] = Inserted(m)]
            /\ outcome' = [outcome EXCEPT ![w] = [of |-> m, ok |-> ok]]
       \/ /\ outcome' = [outcome EXCEPT ![w] = [of |-> m, ok |-> FALSE]]
          /\ UNCHANGED inbox
    /\ UNCHANGED <<mail, tries, leased, batch, losses>>

MarkableAlways(m) == TRUE  \* as if it said WHERE id=$1 alone

\* Both marks are of a row still being processed, whoever processes it
Markable(m) == mail[m] = "processing"

Mark(w) ==
    LET m == outcome[w].of IN
    /\ m # "none"
    /\ IF m \in Mails /\ Markable(m)
       THEN /\ mail' = [mail EXCEPT ![m] = IF outcome[w].ok THEN "sent"
                                           ELSE IF tries[m] >= MaxTries THEN "failed"
                                           ELSE "pending"]
            /\ leased' = leased \ {m}
       ELSE UNCHANGED <<mail, leased>>
    /\ batch' = [batch EXCEPT ![w] = @ \ {m}]
    /\ outcome' = [outcome EXCEPT ![w] = NoMail]
    /\ UNCHANGED <<tries, inbox, losses>>

SweeperDies(w) ==
    /\ batch[w] # {} /\ losses < MaxLosses
    /\ losses' = losses + 1
    /\ batch' = [batch EXCEPT ![w] = {}]
    /\ outcome' = [outcome EXCEPT ![w] = NoMail]
    /\ UNCHANGED <<mail, tries, leased, inbox>>

OutboxNext ==
    \/ \E m \in Mails : Post(m) \/ LeaseEnds(m)
    \/ \E w \in Sweepers :
        \/ Sweep(w) \/ Mark(w) \/ SweeperDies(w)
        \/ \E m \in Mails : Deliver(w, m)

\* The repeatable job sweeps for ever, a sweep that lives finishes its batch,
\* and time passes.
OutboxFairness ==
    /\ \A m \in Mails : WF_outboxVars(LeaseEnds(m))
    /\ \A w \in Sweepers : /\ WF_outboxVars(Sweep(w)) /\ WF_outboxVars(Mark(w))
                          /\ WF_outboxVars(\E m \in Mails : Deliver(w, m))

-----------------------------------------------------------------------------
OutboxTypeOK ==
    /\ mail \in [Mails -> {"none", "pending", "processing"} \cup Final]
    /\ tries \in [Mails -> 0..MaxTries] /\ leased \subseteq Mails
    /\ inbox \in [Mails -> Nat] /\ batch \in [Sweepers -> SUBSET Mails]
    /\ \A w \in Sweepers : outcome[w].of \in batch[w] \cup {"none"}
    /\ losses \in 0..MaxLosses

\* A row that is sent or failed stays so: a sweep that outlived its lease and
\* then fails does not have the row sent again, nor does one that succeeds
\* late reopen a failure.
FinalStays == [][\A m \in Mails : mail[m] \in Final => mail'[m] = mail[m]]_outboxVars

\* Every row written ends sent with its one notification, or failed after all
\* attempts, although deliveries throw, leases end early and workers die.
OutboxEnds ==
    \A m \in Mails : mail[m] # "none" ~>
        \/ mail[m] = "sent" /\ inbox[m] = 1
        \/ mail[m] = "failed" /\ tries[m] = MaxTries

=============================================================================
