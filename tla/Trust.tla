------------------------------- MODULE Trust -------------------------------
(***************************************************************************)
(* The trust engine of one subject: an append-only log of trust events, the *)
(* workers that process it, and the score they project from it.            *)
(*                                                                         *)
(* An event is appended once per key (the derivation sweep and the request *)
(* paths both try) and is numbered by its created_at, the start of the     *)
(* appending transaction: events may appear, and be processed, in any      *)
(* order.  A worker runs one transaction per event: it claims the row with *)
(* SKIP LOCKED, takes the subject's advisory lock, inserts the effect row, *)
(* and projects the score from EVERY applied event in created_at order.    *)
(* What a transaction writes appears at its commit; a crash leaves nothing.*)
(*                                                                         *)
(* Scores are counted in half points, so that the 0.5 decay of a repeated  *)
(* gain stays an integer; times are hours.  All pickups are at one         *)
(* provider.  Payload overrides no code writes (restriction_level,         *)
(* cooldown_until, restriction_level_delta) are left out.                  *)
(***************************************************************************)
EXTENDS Integers, FiniteSets, FiniteSetsExt, Folds

CONSTANTS Events,         \* the event keys, numbered by created_at
          Hour,           \* [Events -> Nat], their created_at
          Kinds,          \* [type of subject -> the event types it is given]
          Workers,        \* concurrent runs of the trust worker
          MaxAttempts,    \* TRUST_EVENT_MAX_ATTEMPTS
          ComplaintStep,  \* complaints per restriction level (the code's 10)
          MaxCrashes      \* bound on the transactions lost

ASSUME TrustAssumption ==
  /\ Events \subseteq Nat \ {0} /\ IsFiniteSet(Events)
  /\ Hour \in [Events -> Nat]
  /\ \A e, f \in Events : e < f => Hour[e] <= Hour[f]
  /\ MaxAttempts \in Nat \ {0} /\ ComplaintStep \in Nat \ {0} /\ MaxCrashes \in Nat
  /\ {"nobody", "script"} \cap Workers = {}

VARIABLES subject,      \* its type: "user", "volunteer", "provider"
          kind,         \* [event -> its type], NoKind before it is appended
          eventStatus,  \* [event -> processing_status]
          attempts,     \* [event -> attempt_count]
          applied,      \* the events with a row in trust_event_effects
          stored,       \* the subject's trust_scores row, NoRow before there is one
          holder,       \* the transaction that holds the subject's advisory lock
          tx,           \* [process -> its transaction]
          crashes

trustVars == <<subject, kind, eventStatus, attempts, applied, stored, holder, tx, crashes>>

NoKind == "none"
NoRow == [score |-> -1]
Nobody == "nobody"
Script == "script"                       \* rebuild-provider-trust-projections.js
Runners == Workers \cup {Script}
NoTx == [at |-> "idle", event |-> 0, view |-> {}]

-----------------------------------------------------------------------------
(* The projection: pure functions of an event and the projection so far.   *)

Effect(gain, penalty, marks) == [gain |-> gain, penalty |-> penalty, marks |-> marks]

\* What each event type does; a free pickup or delivery has its gain suppressed
\* and still counts for recovery.
Rules ==
  [ user_pickup_completed           |-> Effect(8, 0, {"domain", "credits", "repeats"}),
    free_pickup_completed           |-> Effect(0, 0, {"domain", "credits"}),
    user_pickup_failed              |-> Effect(-14, 2, {}),
    user_payment_timeout            |-> Effect(-4, 1, {}),
    user_cancelled_reservation      |-> Effect(-2, 1, {}),
    user_refund_completed           |-> Effect(2, 0, {"credits"}),
    volunteer_delivery_completed    |-> Effect(10, 0, {"domain", "credits", "repeats"}),
    volunteer_delivery_failed       |-> Effect(-24, 3, {}),
    volunteer_assignment_timeout    |-> Effect(-16, 3, {}),
    verified_good_behavior          |-> Effect(6, 0, {"credits"}),
    provider_successful_fulfillment |-> Effect(6, 0, {"domain", "credits"}),
    provider_report_validated       |-> Effect(0, 0, {"complaint"}) ]

ASSUME KindsAssumption == \A who \in DOMAIN Kinds : Kinds[who] \subseteq DOMAIN Rules

Negative(r) == r.gain < 0 \/ r.penalty > 0

InitialProjection ==
  [score |-> 200, penalty |-> 0, wins |-> 0, losses |-> 0, complaints |-> 0, level |-> 0,
   cooldown |-> 0, last |-> -1, day |-> -1, gained |-> 0, repeats |-> 0]

MaxGainPerDay == 20
RecoveryTarget == 2
RecoveryCredit == 2
DecayHours == 14 * 24

\* The gain of an event after the decay for repeats and the daily cap.
GainQuality(p, r, hour) ==
  LET today == p.day = hour \div 24
      repeats == IF today THEN p.repeats ELSE 0
      gained == IF today THEN p.gained ELSE 0
      decayed == IF "repeats" \notin r.marks \/ repeats = 0 THEN r.gain
                 ELSE IF repeats = 1 THEN r.gain \div 2 ELSE 0
      allowed == Min({decayed, Max({0, MaxGainPerDay - gained})})
  IN  IF r.gain <= 0
      THEN [gain |-> r.gain, day |-> p.day, gained |-> p.gained, repeats |-> p.repeats]
      ELSE [gain |-> allowed, day |-> hour \div 24, gained |-> gained + allowed,
            repeats |-> repeats + IF "repeats" \in r.marks THEN 1 ELSE 0]

\* RESTRICTION_THRESHOLDS by level (level 1's scoreBelow 88 is at most 175 halves).
Thresholds == << [penalty |-> 4,  score |-> 175, losses |-> 3],
                 [penalty |-> 6,  score |-> 160, losses |-> 3],
                 [penalty |-> 8,  score |-> 144, losses |-> 4],
                 [penalty |-> 12, score |-> 116, losses |-> 5],
                 [penalty |-> 16, score |-> 90,  losses |-> 7] >>

RestrictionLevel(p) ==
  Max({0} \cup {l \in 1..5 : \/ p.penalty >= Thresholds[l].penalty
                             \/ p.score <= Thresholds[l].score
                             \/ p.losses >= Thresholds[l].losses})

ComplaintLevel(n) == IF n < ComplaintStep THEN 0 ELSE Min({5, n \div ComplaintStep})

CooldownHours(level, losses, complaint) ==
  CASE complaint /\ level > 0 -> level
    [] ~(complaint /\ level > 0) /\ level < 3 -> 0
    [] ~complaint /\ level = 3 -> IF losses >= 3 THEN 12 ELSE 2
    [] ~complaint /\ level = 4 -> 12
    [] OTHER -> 24

\* As if a cooldown were renewed by every event that leaves the level up.
CooldownRenewed(p, q, r, hour) ==
  LET length == CooldownHours(q.level, q.losses, "complaint" \in r.marks)
  IN  IF length = 0 THEN 0 ELSE hour + length

\* A cooldown grows only for a cause, and goes once the level gives none.
Cooldown(p, q, r, hour) ==
  LET length == CooldownHours(q.level, q.losses, "complaint" \in r.marks)
      active == IF p.cooldown > hour THEN p.cooldown ELSE 0
      cause == \/ Negative(r) \/ q.level > p.level
               \/ q.penalty > p.penalty \/ q.losses > p.losses
               \/ ("complaint" \in r.marks /\ q.level > ComplaintLevel(p.complaints))
  IN  IF length = 0 THEN 0
      ELSE IF cause THEN Max({active, hour + length}) ELSE active

\* projectOperationalTrustState: one event of type k, at the given hour, after p.
Project(p, who, k, hour) ==
  LET r == Rules[k]
      g == GainQuality(p, r, hour)
      success == \/ "domain" \in r.marks
                 \/ "credits" \in r.marks /\ ~(r.gain > 0 /\ g.gain <= 0)
      good == success /\ ~Negative(r)
      decay == IF good /\ p.last >= 0 THEN Min({(hour - p.last) \div DecayHours, p.penalty}) ELSE 0
      owed == p.penalty + r.penalty - decay
      wins == IF good THEN p.wins + 1 ELSE 0
      cycles == IF good /\ owed > 0 THEN wins \div RecoveryTarget ELSE 0
      credit == Min({owed, cycles * RecoveryCredit})
      q == [p EXCEPT
              !.score = Min({200, Max({0, p.score + g.gain + 4 * credit + 4 * decay})}),
              !.penalty = owed - credit,
              !.wins = IF cycles > 0 THEN wins % RecoveryTarget ELSE wins,
              !.losses = IF Negative(r) THEN p.losses + 1 ELSE 0,
              !.complaints = IF "complaint" \in r.marks THEN @ + 1
                             ELSE IF who = "provider" /\ "domain" \in r.marks /\ wins >= RecoveryTarget
                                  THEN 0 ELSE @,
              !.last = hour, !.day = g.day, !.gained = g.gained, !.repeats = g.repeats]
      leveled == [q EXCEPT !.level = Max({RestrictionLevel(q),
                              IF who = "provider" THEN ComplaintLevel(q.complaints) ELSE 0})]
  IN  [leveled EXCEPT !.cooldown = Cooldown(p, leveled, r, hour)]

\* The rows in order: each is a number, and the kind and hour of an event.
ReplayFrom(who, p, rows) ==
  MapThenFoldSet(LAMBDA n, q : Project(q, who, rows[n].kind, rows[n].hour), p,
                 LAMBDA n : n, LAMBDA T : Max(T), DOMAIN rows)

\* buildTrustProjectionFromEvents: the events of S in created_at order.
Replay(S) ==
  ReplayFrom(subject, InitialProjection, [e \in S |-> [kind |-> kind[e], hour |-> Hour[e]]])

\* successes_to_clear_penalty, and successes_to_drop_current_restriction.
SuccessesFor(points, wins) ==
  LET cycles == (points + RecoveryCredit - 1) \div RecoveryCredit
  IN  IF cycles <= 0 THEN 0
      ELSE (IF wins > 0 THEN Max({0, RecoveryTarget - wins}) ELSE RecoveryTarget)
           + (cycles - 1) * RecoveryTarget

SuccessesToClearPenalty(p) == SuccessesFor(p.penalty, p.wins)

SuccessesToDrop(p) ==
  IF p.level = 0 THEN 0
  ELSE SuccessesFor(Max({0, p.penalty - (Thresholds[p.level].penalty - 1)}), p.wins)

-----------------------------------------------------------------------------
TrustInit ==
  /\ subject \in DOMAIN Kinds
  /\ kind = [e \in Events |-> NoKind]
  /\ eventStatus = [e \in Events |-> "absent"]
  /\ attempts = [e \in Events |-> 0]
  /\ applied = {}
  /\ stored = NoRow
  /\ holder = Nobody
  /\ tx = [w \in Runners |-> NoTx]
  /\ crashes = 0

\* appendTrustEvent: ON CONFLICT (event_key) DO NOTHING, so a second attempt
\* with the same key is a step that changes nothing.
AppendEvent(e) ==
  /\ eventStatus[e] = "absent"
  /\ \E k \in Kinds[subject] : kind' = [kind EXCEPT ![e] = k]
  /\ eventStatus' = [eventStatus EXCEPT ![e] = "pending"]
  /\ UNCHANGED <<subject, attempts, applied, stored, holder, tx, crashes>>

EventClaimable(e) == /\ eventStatus[e] \in {"pending", "retry"}
                     /\ \A w \in Workers : tx[w].event # e      \* SKIP LOCKED

\* claimTrustEvents, of a job's own event or of the sweep's: any claimable row.
Claim(w) ==
  /\ tx[w] = NoTx
  /\ \E e \in Events : /\ EventClaimable(e)
                       /\ tx' = [tx EXCEPT ![w] = [NoTx EXCEPT !.at = "claimed", !.event = e]]
  /\ UNCHANGED <<subject, kind, eventStatus, attempts, applied, stored, holder, crashes>>

\* The script lists the providers with a processed event and rebuilds each.
StartRebuild ==
  /\ tx[Script] = NoTx
  /\ subject = "provider" /\ \E e \in Events : eventStatus[e] = "processed"
  /\ tx' = [tx EXCEPT ![Script] = [NoTx EXCEPT !.at = "claimed"]]
  /\ UNCHANGED <<subject, kind, eventStatus, attempts, applied, stored, holder, crashes>>

\* As if there were no advisory lock.
NoLock == TRUE

\* pg_advisory_xact_lock on the subject: held until the transaction ends.
LockFree == holder = Nobody

\* The events a transaction replays: a worker's are those with an effect row,
\* its own among them; the script's are the processed ones.
Loaded(w) == IF w = Script THEN {e \in Events : eventStatus[e] = "processed"}
             ELSE applied \cup {tx[w].event}

\* Takes the lock, then inserts the effect and reads: while the lock is held no
\* other transaction adds an effect of this subject.
LockAndLoad(w) ==
  /\ tx[w].at = "claimed" /\ LockFree
  /\ holder' = w
  /\ tx' = [tx EXCEPT ![w].at = "loaded", ![w].view = Loaded(w)]
  /\ UNCHANGED <<subject, kind, eventStatus, attempts, applied, stored, crashes>>

Unlock(w) == holder' = IF holder = w THEN Nobody ELSE holder

\* markTrustEventProcessed and COMMIT; an effect already there leaves the score.
Commit(w) ==
  /\ w # Script /\ tx[w].at = "loaded"
  /\ LET e == tx[w].event IN
       /\ eventStatus' = [eventStatus EXCEPT ![e] = "processed"]
       /\ attempts' = [attempts EXCEPT ![e] = @ + 1]
       /\ applied' = applied \cup {e}
       /\ stored' = IF e \in applied THEN stored ELSE Replay(tx[w].view)
  /\ tx' = [tx EXCEPT ![w] = NoTx]
  /\ Unlock(w)
  /\ UNCHANGED <<subject, kind, crashes>>

CommitRebuild ==
  /\ tx[Script].at = "loaded"
  /\ stored' = Replay(tx[Script].view)
  /\ tx' = [tx EXCEPT ![Script] = NoTx]
  /\ Unlock(Script)
  /\ UNCHANGED <<subject, kind, eventStatus, attempts, applied, crashes>>

FailedStatus(e) == IF attempts[e] + 1 >= MaxAttempts THEN "failed" ELSE "retry"

\* An error inside the savepoint (a lock timeout, a failed statement): the
\* projection is rolled back and the event marked for a retry, or failed.
MarkRetry(w) ==
  /\ w # Script /\ tx[w].at \in {"claimed", "loaded"}
  /\ eventStatus' = [eventStatus EXCEPT ![tx[w].event] = FailedStatus(tx[w].event)]
  /\ attempts' = [attempts EXCEPT ![tx[w].event] = @ + 1]
  /\ tx' = [tx EXCEPT ![w] = NoTx]
  /\ Unlock(w)
  /\ UNCHANGED <<subject, kind, applied, stored, crashes>>

\* The process, or its connection, dies: the whole transaction rolls back.
Crash(w) ==
  /\ tx[w] # NoTx /\ crashes < MaxCrashes
  /\ crashes' = crashes + 1
  /\ tx' = [tx EXCEPT ![w] = NoTx]
  /\ Unlock(w)
  /\ UNCHANGED <<subject, kind, eventStatus, attempts, applied, stored>>

TrustNext ==
  \/ \E e \in Events : AppendEvent(e)
  \/ \E w \in Workers : Claim(w) \/ Commit(w) \/ MarkRetry(w)
  \/ \E w \in Runners : LockAndLoad(w) \/ Crash(w)
  \/ StartRebuild \/ CommitRebuild

TrustSpec == TrustInit /\ [][TrustNext]_trustVars

-----------------------------------------------------------------------------
TrustTypeOK ==
  /\ subject \in DOMAIN Kinds
  /\ kind \in [Events -> Kinds[subject] \cup {NoKind}]
  /\ eventStatus \in [Events -> {"absent", "pending", "retry", "processed", "failed"}]
  /\ attempts \in [Events -> 0..MaxAttempts]
  /\ applied \subseteq Events
  /\ stored = NoRow \/ (stored.score \in 0..200 /\ stored.level \in 0..5)
  /\ holder \in Runners \cup {Nobody}
  /\ \A w \in Runners : tx[w].event \in Events \cup {0} /\ tx[w].view \subseteq Events
  /\ crashes \in 0..MaxCrashes

\* The score in force is what replaying the processed events in the order of
\* created_at gives, whatever the order they were appended and processed in,
\* however many workers, retries, crashes and rebuilds there were.
ScoreIsReplay ==
  LET done == {e \in Events : eventStatus[e] = "processed"}
  IN  /\ applied = done
      /\ stored = IF done = {} THEN NoRow ELSE Replay(done)

\* The successes the app promises a restricted subject are enough: after that
\* many completed pickups (or fulfilments) the penalty is cleared, and the
\* penalty no longer holds the level.
Good == IF subject = "provider" THEN "provider_successful_fulfillment" ELSE "free_pickup_completed"

After(p, n) == ReplayFrom(subject, p, [i \in 1..n |-> [kind |-> Good, hour |-> p.last + i]])

RecoveryAsPromised ==
  stored # NoRow =>
    /\ After(stored, SuccessesToClearPenalty(stored)).penalty = 0
    /\ stored.level > 0 =>
         After(stored, SuccessesToDrop(stored)).penalty < Thresholds[stored.level].penalty

\* A success never makes things worse: whatever the subject's state, one more
\* completed pickup neither raises the restriction level nor starts or
\* lengthens a cooldown.
SuccessNeverPunishes ==
  stored # NoRow =>
    \A after \in {0, 3, 30, 400} :
      LET p == Project(stored, subject, Good, stored.last + after)
      IN  /\ p.level <= stored.level
          /\ p.cooldown <= stored.cooldown
          /\ p.score >= stored.score

\* Both: a restricted subject gets out by successes, as many as the app says, and
\* none of them is a step back.
SuccessesHelp == RecoveryAsPromised /\ SuccessNeverPunishes

=============================================================================
