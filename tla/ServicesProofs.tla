--------------------------- MODULE ServicesProofs ---------------------------
(***************************************************************************)
(* Proofs about the services that are small protocols around a locked row: *)
(* WebhookLog, PayoutAccounts, Moderation, Outbox and Sessions, for any     *)
(* number of deliveries, accounts, reports, admins, mails, sweeps and tabs. *)
(***************************************************************************)
EXTENDS PayoutAccounts, Outbox, Moderation, WebhookLog, Sessions, FiniteSetTheorems, TLAPS

-----------------------------------------------------------------------------
(* WebhookLog.                                                              *)

\* AppliedOncePerFailure is not inductive: a delivery may be about to apply an
\* event that is already applied.  It is not, because a delivery that applies
\* holds the row and found it unprocessed, and while it holds the row nobody
\* else changes it; and the application that left the row processed is the
\* only one no failure stands for.
Counted == applications <= failures + IF row = "processed" THEN 1 ELSE 0

HookSteps == Answered \cup {"new", "unmarked", "reserved", "applying", "applied",
                           "known", "marked", "failing"}

HookInv ==
  /\ applications \in Nat /\ failures \in Nat
  /\ row \in {"none", "processed", "failed"}
  /\ hook \in [Deliveries -> HookSteps]
  /\ \A d \in Deliveries : hook[d] = "applying" <=> rowLock = d
  /\ rowLock # NoDelivery => rowLock \in Deliveries /\ row # "processed"
  /\ Counted

LEMMA HookInit == WebhookInit => HookInv
  BY DeliveryAssumption DEF DeliveryAssumption, WebhookInit, HookInv, HookSteps, Answered, Counted, NoDelivery

LEMMA HookStep == HookInv /\ [WebhookNext]_webhookVars => HookInv'
  <1> SUFFICES ASSUME HookInv, [WebhookNext]_webhookVars PROVE HookInv'
    OBVIOUS
  <1> USE DeliveryAssumption DEF DeliveryAssumption, HookSteps, HookInv, Counted, NoDelivery, Answered, Moves, Unheld, Finish
  <1>1. ASSUME NEW d \in Deliveries, CheckMark(d) PROVE HookInv'
    BY <1>1 DEF CheckMark
  <1>2. ASSUME NEW d \in Deliveries, ReserveHook(d) PROVE HookInv'
    BY <1>2 DEF ReserveHook
  <1>3. ASSUME NEW d \in Deliveries, ReserveRow(d) PROVE HookInv'
    BY <1>3 DEF ReserveRow, RowFree
  <1>4. ASSUME NEW d \in Deliveries, Apply(d) PROVE HookInv'
    BY <1>4 DEF Apply
  <1>5. ASSUME NEW d \in Deliveries, ApplyFails(d) PROVE HookInv'
    BY <1>5 DEF ApplyFails
  <1>6. ASSUME NEW d \in Deliveries, SetMark(d) PROVE HookInv'
    BY <1>6 DEF SetMark
  <1>7. ASSUME NEW d \in Deliveries, Publish(d) PROVE HookInv'
    BY <1>7 DEF Publish
  <1>8. ASSUME NEW d \in Deliveries, MarkFailure(d) PROVE HookInv'
    BY <1>8 DEF MarkFailure, RowFree
  <1>9. ASSUME NEW d \in Deliveries, Dies(d) PROVE HookInv'
    BY <1>9 DEF Dies
  <1>10. CASE LockRunsOut \/ MarkLost
    BY <1>10 DEF LockRunsOut, MarkLost
  <1>11. CASE UNCHANGED webhookVars
    BY <1>11 DEF webhookVars
  <1> QED
    BY <1>1, <1>2, <1>3, <1>4, <1>5, <1>6, <1>7, <1>8, <1>9, <1>10, <1>11
       DEF WebhookNext

\* For any number of deliveries, crashes and losses of Redis, an event is
\* applied at most once more often than a failure was recorded for it.
THEOREM AlwaysApplied == WebhookSpec => []AppliedOncePerFailure
  <1>1. HookInv => AppliedOncePerFailure
    BY DEF HookInv, Counted, AppliedOncePerFailure
  <1> QED
    BY HookInit, HookStep, <1>1, PTL DEF WebhookSpec

\* Each delivery applies the event once at most, and is answered once.
Past == {d \in Deliveries : hook[d] \notin {"new", "unmarked", "reserved", "applying"}}
Concluded == {d \in Deliveries : hook[d] \in Answered}

HookTypes ==
  /\ WebhookTypeOK
  /\ applications <= Cardinality(Past) /\ failures <= Cardinality(Concluded)

LEMMA SetGrows ==
  ASSUME NEW S \in SUBSET Deliveries, NEW T \in SUBSET Deliveries, S \subseteq T
  PROVE  /\ Cardinality(S) \in Nat /\ Cardinality(T) \in Nat /\ Cardinality(Deliveries) \in Nat
         /\ Cardinality(S) <= Cardinality(T) /\ Cardinality(T) <= Cardinality(Deliveries)
         /\ S # T => Cardinality(S) + 1 <= Cardinality(T)
  <1>1. IsFiniteSet(Deliveries) /\ IsFiniteSet(S) /\ IsFiniteSet(T)
    BY DeliveryAssumption, FS_Subset DEF DeliveryAssumption
  <1>2. /\ Cardinality(S) \in Nat /\ Cardinality(T) \in Nat /\ Cardinality(Deliveries) \in Nat
        /\ Cardinality(S) <= Cardinality(T) /\ Cardinality(T) <= Cardinality(Deliveries)
    BY <1>1, FS_Subset, FS_CardinalityType
  <1>3. ASSUME S # T PROVE Cardinality(S) + 1 <= Cardinality(T)
    <2>1. PICK d \in T : d \notin S
      BY <1>3
    <2>2. Cardinality(S \cup {d}) = Cardinality(S) + 1
      BY <1>1, <2>1, FS_AddElement
    <2>3. Cardinality(S \cup {d}) <= Cardinality(T)
      BY <1>1, <2>1, FS_Subset
    <2> QED
      BY <2>2, <2>3
  <1> QED
    BY <1>2, <1>3

LEMMA HookTypesInit == WebhookInit => HookTypes
  <1> SUFFICES ASSUME WebhookInit PROVE HookTypes
    OBVIOUS
  <1>1. Cardinality(Past) \in Nat /\ Cardinality(Concluded) \in Nat /\ Cardinality(Deliveries) \in Nat
    BY SetGrows DEF Past, Concluded
  <1>2. /\ 0 \in 0..Cardinality(Deliveries) /\ 0 \in 0..MaxDrops
        /\ 0 <= Cardinality(Past) /\ 0 <= Cardinality(Concluded)
    BY <1>1, DeliveryAssumption DEF DeliveryAssumption
  <1>3. WebhookTypeOK
    BY <1>2 DEF WebhookInit, WebhookTypeOK
  <1> QED
    BY <1>2, <1>3 DEF WebhookInit, HookTypes

LEMMA HookTypesStep == HookTypes /\ [WebhookNext]_webhookVars => HookTypes'
  <1> SUFFICES ASSUME HookTypes, [WebhookNext]_webhookVars PROVE HookTypes'
    OBVIOUS
  <1> DEFINE Plain == /\ row' \in {"none", "processed", "failed"}
                      /\ rowLock' \in Deliveries \cup {NoDelivery}
                      /\ mark' \in BOOLEAN /\ busy' \in BOOLEAN /\ drops' \in 0..MaxDrops
                      /\ hook' \in [Deliveries -> HookSteps]
                      /\ Past \subseteq Past' /\ Concluded \subseteq Concluded'
                      /\ \/ applications' = applications
                         \/ applications' = applications + 1 /\ Past # Past'
                      /\ \/ failures' = failures
                         \/ failures' = failures + 1 /\ Concluded # Concluded'
  <1>1. Plain
    <2> USE DeliveryAssumption DEF DeliveryAssumption, HookTypes, WebhookTypeOK, HookSteps, NoDelivery,
            Answered, Moves, Unheld, Finish, Past, Concluded
    <2>1. ASSUME NEW d \in Deliveries, CheckMark(d) \/ ReserveHook(d) \/ ReserveRow(d) PROVE Plain
      BY <2>1 DEF CheckMark, ReserveHook, ReserveRow
    <2>2. ASSUME NEW d \in Deliveries, Apply(d) PROVE Plain
      <3>1. d \in Past' /\ d \notin Past
        BY <2>2 DEF Apply
      <3> QED
        BY <2>2, <3>1 DEF Apply
    <2>3. ASSUME NEW d \in Deliveries, ApplyFails(d) \/ SetMark(d) \/ Publish(d) PROVE Plain
      BY <2>3 DEF ApplyFails, SetMark, Publish
    <2>4. ASSUME NEW d \in Deliveries, MarkFailure(d) PROVE Plain
      <3>1. d \in Concluded' /\ d \notin Concluded
        BY <2>4 DEF MarkFailure
      <3> QED
        BY <2>4, <3>1 DEF MarkFailure
    <2>5. ASSUME NEW d \in Deliveries, Dies(d) PROVE Plain
      BY <2>5 DEF Dies
    <2>6. CASE LockRunsOut \/ MarkLost
      BY <2>6 DEF LockRunsOut, MarkLost
    <2>7. CASE UNCHANGED webhookVars
      BY <2>7 DEF webhookVars
    <2> QED
      BY <2>1, <2>2, <2>3, <2>4, <2>5, <2>6, <2>7 DEF WebhookNext
  <1>2. /\ Past \in SUBSET Deliveries /\ Past' \in SUBSET Deliveries
        /\ Concluded \in SUBSET Deliveries /\ Concluded' \in SUBSET Deliveries
    BY DEF Past, Concluded
  <1>3. /\ Cardinality(Past) \in Nat /\ Cardinality(Past') \in Nat
        /\ Cardinality(Concluded) \in Nat /\ Cardinality(Concluded') \in Nat
        /\ Cardinality(Past) <= Cardinality(Past') /\ Cardinality(Concluded) <= Cardinality(Concluded')
        /\ Past # Past' => Cardinality(Past) + 1 <= Cardinality(Past')
        /\ Concluded # Concluded' => Cardinality(Concluded) + 1 <= Cardinality(Concluded')
        /\ Cardinality(Past') <= Cardinality(Deliveries) /\ Cardinality(Concluded') <= Cardinality(Deliveries)
        /\ Cardinality(Deliveries) \in Nat
    BY <1>1, <1>2, SetGrows
  <1>4. /\ applications' \in Nat /\ applications' <= Cardinality(Past')
        /\ failures' \in Nat /\ failures' <= Cardinality(Concluded')
    <2>1. applications \in Nat /\ failures \in Nat
      BY <1>3 DEF HookTypes, WebhookTypeOK
    <2>2. applications <= Cardinality(Past) /\ failures <= Cardinality(Concluded)
      BY DEF HookTypes
    <2> QED
      BY <1>1, <1>3, <2>1, <2>2
  <1>5. applications' \in 0..Cardinality(Deliveries) /\ failures' \in 0..Cardinality(Deliveries)
    BY <1>3, <1>4
  <1> QED
    BY <1>1, <1>4, <1>5 DEF HookTypes, WebhookTypeOK, HookSteps

\* Every delivery has its step, and the counters count deliveries.
LEMMA WebhookTyped == WebhookSpec => []WebhookTypeOK
  <1>1. HookTypes => WebhookTypeOK
    BY DEF HookTypes
  <1> QED
    BY HookTypesInit, HookTypesStep, <1>1, PTL DEF WebhookSpec

-----------------------------------------------------------------------------
(* PayoutAccounts.                                                          *)

PayoutSpec == AccountsInit /\ [][AccountsNext]_accountVars

\* One account is active, or the provider has none or closed the last one.
OneOrNone ==
  IF rows = {} \/ closed THEN active = {} ELSE \E i \in Accounts : active = {i}

LEMMA OneRowOne ==
  ASSUME NEW S \in SUBSET Accounts, NEW i \in S,
         active = {} \/ \E j \in Accounts : active = {j}
  PROVE  (OneRow(S) = S /\ S = {i}) \/ OneRow(S) = active
  <1>1. CASE \E k \in S : k # i
    <2>1. PICK k \in S : k # i
      BY <1>1
    <2>2. IsFiniteSet({i}) /\ Cardinality({i}) = 1
      BY FS_Singleton
    <2>3. IsFiniteSet({i} \cup {k}) /\ Cardinality({i} \cup {k}) = 2
      <3>1. k \notin {i}
        BY <2>1
      <3>2. Cardinality({i} \cup {k}) = Cardinality({i}) + 1
        BY <2>2, <3>1, FS_AddElement
      <3>3. IsFiniteSet({i} \cup {k})
        BY <2>2, FS_AddElement
      <3> QED
        BY <2>2, <3>2, <3>3
    <2>4. {i} \cup {k} \in SUBSET S
      BY <2>1
    <2>5. CASE ~ IsFiniteSet(S)
      <3>1. IsFiniteSet(S)
        BY AccountsAssumption, FS_Subset DEF AccountsAssumption
      <3> QED
        BY <2>5, <3>1
    <2>6. CASE IsFiniteSet(S)
      <3>1. Cardinality({i} \cup {k}) =< Cardinality(S) /\ Cardinality(S) \in Nat
        BY <2>4, <2>6, FS_Subset, FS_CardinalityType
      <3>2. ~(Cardinality(S) =< 1)
        BY <3>1, <2>3
      <3> QED
        BY <3>2 DEF OneRow
    <2> QED
      BY <2>5, <2>6
  <1>2. CASE \A k \in S : k = i
    <2>1. S = {i}
      BY <1>2
    <2> QED
      BY <2>1 DEF OneRow
  <1> QED
    BY <1>1, <1>2

AccountInv ==
  /\ rows \subseteq Accounts /\ active \subseteq rows
  /\ upload \in {"none", "nothing", "old"} /\ closed \in BOOLEAN
  /\ checks \subseteq rows \X BOOLEAN
  /\ OneOrNone

LEMMA AccountInit == AccountsInit => AccountInv
  BY DEF AccountsInit, AccountInv, OneOrNone

LEMMA UploadInv ==
  ASSUME AccountInv, UploadWrites PROVE AccountInv'
  <1>1. PICK i \in Accounts \ rows :
          /\ active' = OneRow({i} \cup (IF upload = "old" THEN {} ELSE active))
          /\ rows' = IF i \in active' THEN rows \cup {i} ELSE rows
          /\ closed' = (closed /\ i \notin active')
          /\ upload' = "none" /\ checks' = checks
    BY DEF UploadWrites
  <1> DEFINE S == {i} \cup (IF upload = "old" THEN {} ELSE active)
  <1>2. active = {} \/ \E j \in Accounts : active = {j}
    BY DEF AccountInv, OneOrNone
  <1>3. S \in SUBSET Accounts /\ i \in S
    BY DEF AccountInv
  <1>4. (OneRow(S) = S /\ S = {i}) \/ OneRow(S) = active
    <2> HIDE DEF S
    <2> QED BY <1>2, <1>3, OneRowOne
  <1>5. active' = {i} \/ active' = active
    BY <1>1, <1>4
  <1>6. CASE active' = {i}
    BY <1>1, <1>6 DEF AccountInv, OneOrNone
  <1>7. CASE active' = active
    <2>1. i \notin active
      BY DEF AccountInv
    <2> QED
      BY <1>1, <1>7, <2>1 DEF AccountInv, OneOrNone
  <1> QED
    BY <1>5, <1>6, <1>7

LEMMA VerifyInv ==
  ASSUME AccountInv, NEW i \in Accounts, NEW was \in BOOLEAN, VerifyWrites(i, was)
  PROVE  AccountInv'
  <1> DEFINE S == {i} \cup (active \ {j \in active \ {i} : UnderChange(j)})
  <1>1. /\ <<i, was>> \in checks
        /\ active' = IF was THEN active ELSE OneRow(S)
        /\ closed' = (closed /\ active' = {})
        /\ checks' = checks \ {<<i, was>>}
        /\ rows' = rows /\ upload' = upload
    BY DEF VerifyWrites
  <1>2. i \in rows
    BY <1>1 DEF AccountInv
  <1>3. active = {} \/ \E j \in Accounts : active = {j}
    BY DEF AccountInv, OneOrNone
  <1>4. S \in SUBSET Accounts /\ i \in S
    BY DEF AccountInv
  <1>5. (OneRow(S) = S /\ S = {i}) \/ OneRow(S) = active
    <2> HIDE DEF S
    <2> QED BY <1>3, <1>4, OneRowOne
  <1>6. CASE active' = {i}
    BY <1>1, <1>2, <1>6 DEF AccountInv, OneOrNone
  <1>7. CASE active' = active
    BY <1>1, <1>2, <1>7 DEF AccountInv, OneOrNone
  <1> QED
    BY <1>1, <1>5, <1>6, <1>7

LEMMA AccountStep == AccountInv /\ [AccountsNext]_accountVars => AccountInv'
  <1> SUFFICES ASSUME AccountInv, [AccountsNext]_accountVars PROVE AccountInv'
    OBVIOUS
  <1>1. CASE UploadReads
    BY <1>1 DEF UploadReads, AccountInv, OneOrNone
  <1>2. CASE UploadWrites
    BY <1>2, UploadInv
  <1>3. CASE RequestChange
    BY <1>3 DEF RequestChange, AccountInv, OneOrNone
  <1>4. CASE Deactivate
    BY <1>4 DEF Deactivate, AccountInv, OneOrNone
  <1>5. ASSUME NEW i \in Accounts, ApproveChange(i) \/ RejectChange(i) \/ RejectAccount(i)
        PROVE  AccountInv'
    BY <1>5 DEF ApproveChange, RejectChange, RejectAccount, AccountInv, OneOrNone
  <1>6. ASSUME NEW i \in Accounts, VerifyReads(i) PROVE AccountInv'
    <2>1. (i \in active) \in BOOLEAN
      OBVIOUS
    <2>2. \A b \in BOOLEAN : i \in rows => {<<i, b>>} \subseteq rows \X BOOLEAN
      OBVIOUS
    <2>3. checks' \subseteq rows \X BOOLEAN
      BY <1>6, <2>1, <2>2, Zenon DEF VerifyReads
    <2> QED
      BY <1>6, <2>3 DEF VerifyReads, AccountInv, OneOrNone
  <1>7. ASSUME NEW i \in Accounts, NEW was \in BOOLEAN, VerifyWrites(i, was)
        PROVE  AccountInv'
    BY <1>7, VerifyInv
  <1>8. CASE UNCHANGED accountVars
    BY <1>8 DEF accountVars, AccountInv, OneOrNone
  <1> QED
    BY <1>1, <1>2, <1>3, <1>4, <1>5, <1>6, <1>7, <1>8 DEF AccountsNext

\* However many accounts were ever uploaded, a provider has exactly one that is
\* active, unless there is none yet or the provider closed it.
THEOREM AlwaysOneAccount == PayoutSpec => []OneActiveAccount
  <1>1. AccountInv => OneActiveAccount
    <2>1. Cardinality({}) = 0
      BY FS_EmptySet
    <2>2. \A i \in Accounts : Cardinality({i}) = 1
      BY FS_Singleton
    <2> QED
      BY <2>1, <2>2 DEF AccountInv, OneOrNone, OneActiveAccount
  <1> QED
    BY AccountInit, AccountStep, <1>1, PTL DEF PayoutSpec

\* What an account was judged speaks of rows that exist.
AccountTypes == AccountsTypeOK /\ AccountInv

LEMMA AccountTypesInit == AccountsInit => AccountTypes
  BY AccountInit DEF AccountsInit, AccountTypes, AccountsTypeOK

LEMMA AccountTypesStep == AccountTypes /\ [AccountsNext]_accountVars => AccountTypes'
  <1> SUFFICES ASSUME AccountTypes, [AccountsNext]_accountVars PROVE AccountsTypeOK'
    BY AccountStep DEF AccountTypes
  <1>1. /\ rows' \subseteq Accounts /\ active' \subseteq rows' /\ closed' \in BOOLEAN
        /\ upload' \in {"none", "nothing", "old"} /\ checks' \subseteq Accounts \X BOOLEAN
    BY AccountStep DEF AccountTypes, AccountInv
  <1> DEFINE Change == {"none", "pending", "rejected", "replacement_pending"}
             Judged == /\ verified' \subseteq rows' /\ judged' \subseteq rows' \ verified'
                       /\ change' \in [Accounts -> Change]
  <1>2. Judged
    <2> USE DEF AccountTypes, AccountsTypeOK
    <2>1. CASE UploadReads \/ Deactivate
      BY <2>1 DEF UploadReads, Deactivate
    <2>2. CASE UploadWrites
      BY <2>2 DEF UploadWrites
    <2>3. CASE RequestChange
      BY <2>3 DEF RequestChange
    <2>4. ASSUME NEW i \in Accounts, ApproveChange(i) \/ RejectChange(i) \/ RejectAccount(i) \/ VerifyReads(i)
          PROVE  Judged
      BY <2>4 DEF ApproveChange, RejectChange, RejectAccount, VerifyReads
    <2>5. ASSUME NEW i \in Accounts, NEW was \in BOOLEAN, VerifyWrites(i, was) PROVE Judged
      <3>1. i \in rows
        BY <2>5 DEF VerifyWrites, AccountInv
      <3>2. /\ rows' = rows
            /\ \/ verified' = verified \cup {i} /\ judged' = judged \ {i}
               \/ verified' = verified /\ judged' = judged
        BY <2>5 DEF VerifyWrites
      <3>3. change' = change \/ \E L \in SUBSET active :
                change' = [j \in Accounts |-> IF j \in L THEN "none" ELSE change[j]]
        BY <2>5 DEF VerifyWrites
      <3> QED
        BY <3>1, <3>2, <3>3
    <2>6. CASE UNCHANGED accountVars
      BY <2>6 DEF accountVars
    <2> QED
      BY <2>1, <2>2, <2>3, <2>4, <2>5, <2>6 DEF AccountsNext
  <1> QED
    BY <1>1, <1>2 DEF AccountsTypeOK

\* Only rows that exist are active, verified or rejected, and none is both of the last.
LEMMA AccountsTyped == PayoutSpec => []AccountsTypeOK
  <1>1. AccountTypes => AccountsTypeOK
    BY DEF AccountTypes
  <1> QED
    BY AccountTypesInit, AccountTypesStep, <1>1, PTL DEF PayoutSpec

-----------------------------------------------------------------------------
(* Moderation.                                                              *)

CaseStates == {"none", "OPEN", "UNDER_REVIEW", "VALIDATED", "DISMISSED"}
AppealStates == {"none", "SUBMITTED", "UNDER_REVIEW", "ACCEPTED", "REJECTED", "WITHDRAWN"}

\* What a status form has read may be old, but only in one direction: a report
\* it saw decided is decided still, so a verdict it carries for such a report
\* finds a case that is closed and refuses every other verdict.
FormsKnow ==
  \A a \in Admins :
    /\ form[a] = NoForm \/ form[a].want \in {"UNDER_REVIEW", "VALIDATED", "DISMISSED"}
    /\ form[a] # NoForm => form[a].of \in Reports /\ report[form[a].of] # "none"
    /\ form[a] # NoForm /\ ~form[a].pending =>
          report[form[a].of] \in {"validated", "dismissed"}

CaseInv ==
  /\ report \in [Reports -> {"none", "pending", "validated", "dismissed"}]
  /\ mcase \in [Reports -> CaseStates]
  /\ appeal \in [Reports -> AppealStates]
  /\ form = [a \in Admins |-> form[a]]
  /\ FormsKnow
  /\ VerdictsAgree

LEMMA CaseInit == ModerationInit => CaseInv
  BY DEF ModerationInit, CaseInv, CaseStates, AppealStates, FormsKnow, VerdictsAgree, Verdicts

LEMMA ReviewKeeps ==
  ASSUME CaseInv, NEW r \in Reports, NEW v \in Verdicts, Review(r, v)
  PROVE  /\ report' \in [Reports -> {"none", "pending", "validated", "dismissed"}]
         /\ mcase' \in [Reports -> CaseStates] /\ appeal' = appeal
         /\ \A s \in Reports : report'[s] = report[s] \/ report'[s] \in {"validated", "dismissed"}
         /\ VerdictsAgree'
  BY DEF CaseInv, CaseStates, Verdicts, Review, Reviewable, CaseTakes, ReportStatus, VerdictsAgree

LEMMA FormsOf ==
  ASSUME CaseInv, form' = form,
         \A s \in Reports : report'[s] = report[s] \/ report'[s] \in {"validated", "dismissed"}
  PROVE  FormsKnow'
  BY DEF CaseInv, FormsKnow

LEMMA FormSent ==
  ASSUME CaseInv, NEW a \in Admins, form' = [form EXCEPT ![a] = NoForm],
         \A s \in Reports : report'[s] = report[s] \/ report'[s] \in {"validated", "dismissed"}
  PROVE  FormsKnow' /\ form' = [b \in Admins |-> form'[b]]
  <1>1. \A b \in Admins : form'[b] = IF b = a THEN NoForm ELSE form[b]
    BY DEF CaseInv
  <1>2. form' = [b \in Admins |-> form'[b]]
    BY DEF CaseInv
  <1>3. ASSUME NEW b \in Admins, b = a
        PROVE  form'[b] = NoForm
    BY <1>1, <1>3
  <1>4. ASSUME NEW b \in Admins, b # a
        PROVE  form'[b] = form[b]
    BY <1>1, <1>4
  <1> QED
    BY <1>2, <1>3, <1>4 DEF CaseInv, FormsKnow

LEMMA UpdateKeeps ==
  ASSUME CaseInv, NEW a \in Admins, UpdateCase(a)
  PROVE  CaseInv'
  <1> DEFINE f == form[a]
  <1>1. f # NoForm /\ form' = [form EXCEPT ![a] = NoForm]
    BY DEF UpdateCase
  <1>2. f.of \in Reports /\ f.want \in {"UNDER_REVIEW", "VALIDATED", "DISMISSED"}
    BY <1>1 DEF CaseInv, FormsKnow
  <1>3. CASE f.want \in Verdicts /\ f.pending /\ Review(f.of, f.want)
    <2> HIDE DEF f
    <2>1. /\ report' \in [Reports -> {"none", "pending", "validated", "dismissed"}]
          /\ mcase' \in [Reports -> CaseStates] /\ appeal' = appeal
          /\ \A s \in Reports : report'[s] = report[s] \/ report'[s] \in {"validated", "dismissed"}
          /\ VerdictsAgree'
      BY <1>2, <1>3, ReviewKeeps
    <2> QED
      BY <1>1, <2>1, FormSent DEF CaseInv
  <1>4. CASE UNCHANGED <<report, mcase, appeal, faults, refunds>>
    BY <1>1, <1>4, FormSent DEF CaseInv, VerdictsAgree
  <1>5. CASE ~(f.want \in Verdicts /\ f.pending) /\ Transition(f.of, f.want)
    <2> HIDE DEF f
    <2>1. f.want = "UNDER_REVIEW" \/ ~f.pending
      BY <1>2, <1>5 DEF Verdicts
    <2>2. f.want = "UNDER_REVIEW" \/ report[f.of] \in {"validated", "dismissed"}
      BY <1>1, <2>1 DEF CaseInv, FormsKnow, f
    <2>3. mcase' = mcase \/ /\ mcase' = [mcase EXCEPT ![f.of] = "UNDER_REVIEW"]
                            /\ mcase[f.of] \notin Verdicts
      <3>1. CASE f.want = "UNDER_REVIEW"
        BY <1>5, <3>1 DEF Transition, CaseTakes, Verdicts
      <3>2. CASE report[f.of] \in {"validated", "dismissed"}
        <4>1. mcase[f.of] \in Verdicts
          BY <1>2, <3>2 DEF CaseInv, VerdictsAgree, Verdicts
        <4>2. [mcase EXCEPT ![f.of] = mcase[f.of]] = mcase
          BY DEF CaseInv
        <4> QED
          BY <1>5, <4>1, <4>2 DEF Transition, CaseTakes
      <3> QED
        BY <2>2, <3>1, <3>2
    <2>4. UNCHANGED <<report, appeal, faults, refunds>>
      BY <1>5 DEF Transition
    <2>5. VerdictsAgree' /\ mcase' \in [Reports -> CaseStates]
      BY <1>2, <2>3, <2>4 DEF CaseInv, VerdictsAgree, Verdicts, CaseStates
    <2> QED
      BY <1>1, <2>4, <2>5, FormSent DEF CaseInv
  <1> QED
    BY <1>3, <1>4, <1>5 DEF UpdateCase

LEMMA CaseStep == CaseInv /\ [ModerationNext]_moderationVars => CaseInv'
  <1> SUFFICES ASSUME CaseInv, [ModerationNext]_moderationVars PROVE CaseInv'
    OBVIOUS
  <1>1. ASSUME NEW r \in Reports, CreateReport(r) PROVE CaseInv'
    <2>1. FormsKnow'
      BY <1>1 DEF CreateReport, CaseInv, FormsKnow
    <2> QED
      BY <1>1, <2>1 DEF CreateReport, CaseInv, VerdictsAgree, CaseStates, Verdicts
  <1>2. ASSUME NEW r \in Reports, NEW s \in {"UNDER_REVIEW", "ACCEPTED", "REJECTED", "WITHDRAWN"},
               AppealMoves(r, s)
        PROVE  CaseInv'
    BY <1>2, FormsOf DEF AppealMoves, CaseInv, VerdictsAgree, AppealStates
  <1>3. ASSUME NEW r \in Reports, SubmitAppeal(r) PROVE CaseInv'
    BY <1>3, FormsOf DEF SubmitAppeal, CaseInv, VerdictsAgree, AppealStates
  <1>4. ASSUME NEW r \in Reports, NEW v \in Verdicts, ReviewReport(r, v) PROVE CaseInv'
    BY <1>4, ReviewKeeps, FormsOf DEF ReviewReport, CaseInv
  <1>5. ASSUME NEW a \in Admins, NEW r \in Reports, NEW w \in Verdicts \cup {"UNDER_REVIEW"},
               ReadCase(a, r, w)
        PROVE  CaseInv'
    <2> DEFINE g == [of |-> r, want |-> w, pending |-> report[r] = "pending"]
    <2>1. g.of = r /\ g.want = w /\ (g.pending <=> report[r] = "pending")
      BY Zenon
    <2>2. form' = [form EXCEPT ![a] = g] /\ report[r] # "none"
      BY <1>5 DEF ReadCase
    <2> HIDE DEF g
    <2>3. form' = [b \in Admins |-> IF b = a THEN g ELSE form[b]]
      BY <2>2 DEF CaseInv
    <2>4. FormsKnow'
      <3>1. report' = report /\ report[r] \in {"pending", "validated", "dismissed"}
        BY <1>5, <2>2 DEF ReadCase, CaseInv
      <3> QED
        BY <2>1, <2>3, <3>1 DEF CaseInv, FormsKnow, Verdicts
    <2> QED
      BY <1>5, <2>3, <2>4 DEF ReadCase, CaseInv, VerdictsAgree
  <1>6. ASSUME NEW a \in Admins, UpdateCase(a) PROVE CaseInv'
    BY <1>6, UpdateKeeps
  <1>7. CASE UNCHANGED moderationVars
    BY <1>7, FormsOf DEF moderationVars, CaseInv, VerdictsAgree
  <1> QED
    BY <1>1, <1>2, <1>3, <1>4, <1>5, <1>6, <1>7
       DEF ModerationNext, WithdrawAppeal, DecideAppeal

\* However many admins review, through either door and on reads however old,
\* report, case, trust record and refund tell of one verdict.
THEOREM AlwaysAgreed == ModerationSpec => []VerdictsAgree
  <1>1. CaseInv => VerdictsAgree
    BY DEF CaseInv
  <1> QED
    BY CaseInit, CaseStep, <1>1, PTL DEF ModerationSpec

\* No step changes a verdict or a decided appeal.
THEOREM AlwaysStand == ModerationSpec => VerdictsStand
  <1> DEFINE Stand == \A r \in Reports :
                        /\ mcase[r] \in Verdicts => mcase'[r] = mcase[r]
                        /\ appeal[r] \in Decided => appeal'[r] = appeal[r]
  <1>1. CaseInv /\ [ModerationNext]_moderationVars => [Stand]_moderationVars
    <2> SUFFICES ASSUME CaseInv, ModerationNext PROVE Stand
      OBVIOUS
    <2> USE DEF CaseInv, Verdicts, Decided
    <2>1. ASSUME NEW r \in Reports, CreateReport(r) PROVE Stand
      BY <2>1 DEF CreateReport, VerdictsAgree
    <2>2. ASSUME NEW r \in Reports, SubmitAppeal(r) \/ (\E s \in {"UNDER_REVIEW",
                   "ACCEPTED", "REJECTED", "WITHDRAWN"} : AppealMoves(r, s))
          PROVE  Stand
      BY <2>2 DEF SubmitAppeal, AppealMoves
    <2>3. ASSUME NEW r \in Reports, NEW v \in Verdicts, Review(r, v) PROVE Stand
      BY <2>3 DEF Review, CaseTakes
    <2>4. ASSUME NEW a \in Admins, NEW r \in Reports, NEW w \in Verdicts \cup {"UNDER_REVIEW"},
                 ReadCase(a, r, w)
          PROVE  Stand
      BY <2>4 DEF ReadCase
    <2>5. ASSUME NEW a \in Admins, UpdateCase(a) PROVE Stand
      <3>1. form[a].of \in Reports
        BY <2>5 DEF UpdateCase, FormsKnow
      <3>2. CASE form[a].want \in Verdicts /\ Review(form[a].of, form[a].want)
        BY <3>1, <3>2, <2>3
      <3>3. CASE UNCHANGED <<report, mcase, appeal, faults, refunds>>
        BY <3>3
      <3>4. CASE Transition(form[a].of, form[a].want)
        BY <3>1, <3>4 DEF Transition, CaseTakes
      <3> QED
        BY <2>5, <3>2, <3>3, <3>4 DEF UpdateCase
    <2> QED
      BY <2>1, <2>2, <2>3, <2>4, <2>5
         DEF ModerationNext, ReviewReport, WithdrawAppeal, DecideAppeal
  <1> QED
    BY CaseInit, CaseStep, <1>1, PTL DEF ModerationSpec, VerdictsStand

CaseTypes == CaseInv /\ faults \subseteq Reports /\ refunds \subseteq Reports

LEMMA CaseTypesStep == CaseTypes /\ [ModerationNext]_moderationVars => CaseTypes'
  <1> SUFFICES ASSUME CaseTypes, [ModerationNext]_moderationVars
               PROVE  faults' \subseteq Reports /\ refunds' \subseteq Reports
    BY CaseStep DEF CaseTypes
  <1> USE DEF CaseTypes
  <1>1. ASSUME NEW r \in Reports, NEW v \in Verdicts, Review(r, v)
        PROVE  faults' \subseteq Reports /\ refunds' \subseteq Reports
    BY <1>1 DEF Review
  <1>2. ASSUME NEW a \in Admins, UpdateCase(a)
        PROVE  faults' \subseteq Reports /\ refunds' \subseteq Reports
    <2>1. form[a].of \in Reports
      BY <1>2 DEF UpdateCase, CaseInv, FormsKnow
    <2>2. CASE form[a].want \in Verdicts /\ Review(form[a].of, form[a].want)
      BY <1>1, <2>1, <2>2
    <2>3. CASE UNCHANGED <<report, mcase, appeal, faults, refunds>>
      BY <2>3
    <2>4. CASE Transition(form[a].of, form[a].want)
      BY <2>4 DEF Transition
    <2> QED
      BY <1>2, <2>2, <2>3, <2>4 DEF UpdateCase
  <1>3. CASE UNCHANGED <<faults, refunds>>
    BY <1>3
  <1> QED
    BY <1>1, <1>2, <1>3
       DEF ModerationNext, ReviewReport, CreateReport, SubmitAppeal, WithdrawAppeal, DecideAppeal,
           AppealMoves, ReadCase, moderationVars

\* Every column keeps to its statuses, and every form is about a report.
LEMMA ModerationTyped == ModerationSpec => []ModerationTypeOK
  <1>1. ModerationInit => CaseTypes
    BY CaseInit DEF ModerationInit, CaseTypes
  <1>2. CaseTypes => ModerationTypeOK
    <2> SUFFICES ASSUME CaseTypes PROVE ModerationTypeOK
      OBVIOUS
    <2>1. \A a \in Admins : form[a].of \in Reports \cup {"none"}
      BY DEF CaseTypes, CaseInv, FormsKnow, NoForm
    <2> QED
      BY <2>1 DEF CaseTypes, CaseInv, ModerationTypeOK, CaseStates, AppealStates, Verdicts, Decided
  <1> QED
    BY <1>1, <1>2, CaseTypesStep, PTL DEF ModerationSpec

-----------------------------------------------------------------------------
(* Outbox.                                                                  *)

OutboxSpec == OutboxInit /\ [][OutboxNext]_outboxVars

\* A row marked sent has its one notification, and so has every row whose
\* delivery some sweep believes to have made, whether or not it still leases it.
SentOnce == \A m \in Mails : mail[m] = "sent" => inbox[m] = 1

OutcomesTrue ==
  \A w \in Sweepers : outcome[w] = NoMail \/ /\ outcome[w].of \in Mails
                                             /\ outcome[w].ok => inbox[outcome[w].of] = 1

MailInv ==
  /\ mail \in [Mails -> {"none", "pending", "processing", "sent", "failed"}]
  /\ tries \in [Mails -> Nat]
  /\ inbox \in [Mails -> {0, 1}]
  /\ outcome = [w \in Sweepers |-> outcome[w]]
  /\ batch = [w \in Sweepers |-> batch[w]]
  /\ \A w \in Sweepers : batch[w] \subseteq Mails
  /\ OutcomesTrue
  /\ SentOnce

LEMMA MailInit == OutboxInit => MailInv
  BY DEF OutboxInit, MailInv, OutcomesTrue, SentOnce

LEMMA MailOnly ==
  ASSUME MailInv, inbox' = inbox, outcome' = outcome PROVE OutcomesTrue'
  BY DEF MailInv, OutcomesTrue

LEMMA Cleared ==
  ASSUME MailInv, inbox' = inbox, NEW w \in Sweepers, outcome' = [outcome EXCEPT ![w] = NoMail]
  PROVE  OutcomesTrue' /\ outcome' = [x \in Sweepers |-> outcome'[x]]
  <1>1. outcome' = [x \in Sweepers |-> IF x = w THEN NoMail ELSE outcome[x]]
    BY DEF MailInv
  <1> QED
    BY <1>1 DEF MailInv, OutcomesTrue

LEMMA DeliverKeeps ==
  ASSUME MailInv, NEW w \in Sweepers, NEW m \in Mails, Deliver(w, m) PROVE MailInv'
  <1>1. /\ inbox' \in [Mails -> {0, 1}]
        /\ \A n \in Mails : inbox[n] = 1 => inbox'[n] = 1
        /\ mail' = mail /\ batch' = batch /\ tries' = tries
    BY DEF Deliver, Inserted, MailInv
  <1>2. PICK ok \in BOOLEAN :
          /\ outcome' = [outcome EXCEPT ![w] = [of |-> m, ok |-> ok]]
          /\ ok => inbox'[m] = 1
    <2>1. CASE inbox' = [inbox EXCEPT ![m] = Inserted(m)]
      <3>1. inbox'[m] = 1
        BY <2>1 DEF Inserted, MailInv
      <3> QED
        BY <3>1, Zenon DEF Deliver
    <2>2. CASE outcome' = [outcome EXCEPT ![w] = [of |-> m, ok |-> FALSE]]
      BY <2>2, Zenon
    <2> QED
      BY <2>1, <2>2 DEF Deliver
  <1> DEFINE g == [of |-> m, ok |-> ok]
  <1>3. g.of = m /\ (g.ok => inbox'[m] = 1)
    BY <1>2, Zenon
  <1>4. outcome' = [outcome EXCEPT ![w] = g]
    BY <1>2
  <1> HIDE DEF g
  <1>5. outcome' = [x \in Sweepers |-> IF x = w THEN g ELSE outcome[x]]
    BY <1>4 DEF MailInv
  <1>6. OutcomesTrue'
    BY <1>1, <1>3, <1>5 DEF MailInv, OutcomesTrue
  <1> QED
    BY <1>1, <1>5, <1>6 DEF MailInv, SentOnce

LEMMA MarkKeeps ==
  ASSUME MailInv, NEW w \in Sweepers, Mark(w) PROVE MailInv'
  <1> DEFINE m == outcome[w].of
  <1>1. /\ m # "none"
        /\ outcome' = [outcome EXCEPT ![w] = NoMail]
        /\ batch' = [batch EXCEPT ![w] = @ \ {m}]
        /\ inbox' = inbox /\ tries' = tries
    BY DEF Mark
  <1>2. m \in Mails /\ (outcome[w].ok => inbox[m] = 1)
    BY <1>1 DEF MailInv, OutcomesTrue, NoMail
  <1>3. mail' \in [Mails -> {"none", "pending", "processing", "sent", "failed"}] /\ SentOnce'
    <2>1. CASE ~Markable(m)
      BY <1>1, <1>2, <2>1 DEF Mark, MailInv, SentOnce
    <2>2. CASE Markable(m)
      <3>1. \E s \in {"sent", "pending", "failed"} :
              /\ s = "sent" => inbox[m] = 1
              /\ mail' = [mail EXCEPT ![m] = s]
        <4>1. mail' = [mail EXCEPT ![m] = IF outcome[w].ok THEN "sent"
                                          ELSE IF tries[m] >= MaxTries THEN "failed"
                                          ELSE "pending"]
          BY <1>2, <2>2 DEF Mark
        <4>2. CASE outcome[w].ok
          BY <1>2, <4>1, <4>2, Zenon
        <4>3. CASE ~outcome[w].ok
          BY <4>1, <4>3, Zenon
        <4> QED
          BY <4>2, <4>3
      <3> QED
        BY <1>1, <1>2, <3>1 DEF MailInv, SentOnce
    <2> QED
      BY <2>1, <2>2
  <1>4. OutcomesTrue' /\ outcome' = [x \in Sweepers |-> outcome'[x]]
    BY <1>1, Cleared
  <1>5. /\ batch' = [x \in Sweepers |-> batch'[x]]
        /\ \A x \in Sweepers : batch'[x] \subseteq Mails
    BY <1>1 DEF MailInv
  <1> QED
    BY <1>1, <1>3, <1>4, <1>5 DEF MailInv

LEMMA SweepMail ==
  ASSUME MailInv, NEW w \in Sweepers, Sweep(w)
  PROVE  mail' = [m \in Mails |-> IF m \in Abandoned THEN "failed"
                                  ELSE IF m \in Claimable THEN "processing" ELSE mail[m]]
  <1>1. ASSUME NEW m \in Mails PROVE ~(m \in Abandoned /\ m \in Claimable)
    <2>1. tries[m] \in Nat /\ MaxTries \in Nat
      BY OutboxAssumption DEF OutboxAssumption, MailInv
    <2>2. ~(tries[m] >= MaxTries /\ tries[m] < MaxTries)
      BY <2>1
    <2> QED
      BY <2>2 DEF Abandoned, Claimable
  <1> QED
    BY <1>1 DEF Sweep

LEMMA MailStep == MailInv /\ [OutboxNext]_outboxVars => MailInv'
  <1> SUFFICES ASSUME MailInv, [OutboxNext]_outboxVars PROVE MailInv'
    OBVIOUS
  <1>1. ASSUME NEW m \in Mails, Post(m) \/ LeaseEnds(m) PROVE MailInv'
    BY <1>1, MailOnly DEF Post, LeaseEnds, MailInv, SentOnce
  <1>2. ASSUME NEW w \in Sweepers, Sweep(w) PROVE MailInv'
    <2>1. tries' \in [Mails -> Nat]
      BY <1>2 DEF Sweep, MailInv
    <2> QED
      BY <1>2, <2>1, SweepMail, MailOnly DEF Sweep, Claimable, MailInv, SentOnce
  <1>3. ASSUME NEW w \in Sweepers, SweeperDies(w) PROVE MailInv'
    BY <1>3, Cleared DEF SweeperDies, MailInv, SentOnce
  <1>4. CASE UNCHANGED outboxVars
    BY <1>4, MailOnly DEF outboxVars, MailInv, SentOnce
  <1> QED
    BY <1>1, <1>2, <1>3, <1>4, MarkKeeps, DeliverKeeps DEF OutboxNext

\* Sweeps that overlap, die or outlive their lease notify once: a row that is
\* sent has exactly one notification.
THEOREM AlwaysSentOnce == OutboxSpec => []SentOnce
  <1>1. MailInv => SentOnce
    BY DEF MailInv
  <1> QED
    BY MailInit, MailStep, <1>1, PTL DEF OutboxSpec

\* No sweep, however late, reopens a row that is sent or failed.
THEOREM AlwaysFinal == OutboxSpec => FinalStays
  <1> DEFINE Stays == \A m \in Mails : mail[m] \in Final => mail'[m] = mail[m]
  <1>1. MailInv /\ [OutboxNext]_outboxVars => [Stays]_outboxVars
    <2> SUFFICES ASSUME MailInv, OutboxNext PROVE Stays
      OBVIOUS
    <2>1. ASSUME NEW m \in Mails, Post(m) \/ LeaseEnds(m) PROVE Stays
      BY <2>1 DEF Post, LeaseEnds, Final, MailInv
    <2>2. ASSUME NEW w \in Sweepers, Sweep(w) PROVE Stays
      BY <2>2, SweepMail DEF Abandoned, Claimable, Expired, Final, MailInv
    <2>3. ASSUME NEW w \in Sweepers, Mark(w) PROVE Stays
      BY <2>3 DEF Mark, Markable, Final, MailInv
    <2>4. ASSUME NEW w \in Sweepers, SweeperDies(w) \/ (\E m \in Mails : Deliver(w, m)) PROVE Stays
      BY <2>4 DEF SweeperDies, Deliver
    <2> QED
      BY <2>1, <2>2, <2>3, <2>4 DEF OutboxNext
  <1> QED
    BY MailInit, MailStep, <1>1, PTL DEF OutboxSpec, FinalStays

\* A sweep has an outcome only for a row of its batch, and no row is claimed once
\* too often.
MailTypes ==
  /\ MailInv
  /\ tries \in [Mails -> 0..MaxTries] /\ leased \subseteq Mails /\ losses \in 0..MaxLosses
  /\ \A w \in Sweepers : outcome[w] = NoMail \/ outcome[w].of \in batch[w]

LEMMA MailTypesInit == OutboxInit => MailTypes
  <1> SUFFICES ASSUME OutboxInit PROVE MailTypes
    OBVIOUS
  <1>1. 0 \in 0..MaxTries /\ 0 \in 0..MaxLosses
    BY OutboxAssumption DEF OutboxAssumption
  <1> QED
    BY <1>1, MailInit DEF OutboxInit, MailTypes

LEMMA MailTypesStep == MailTypes /\ [OutboxNext]_outboxVars => MailTypes'
  <1> SUFFICES ASSUME MailTypes, [OutboxNext]_outboxVars PROVE MailTypes'
    OBVIOUS
  <1>1. MailInv /\ MailInv'
    BY MailStep DEF MailTypes
  <1> DEFINE Held == \A w \in Sweepers : outcome[w] = NoMail \/ outcome[w].of \in batch[w]
             Rest == /\ tries' \in [Mails -> 0..MaxTries] /\ leased' \subseteq Mails
                     /\ losses' \in 0..MaxLosses /\ Held'
  <1> USE OutboxAssumption DEF OutboxAssumption, MailTypes
  <1>2. ASSUME NEW m \in Mails, Post(m) \/ LeaseEnds(m) PROVE Rest
    BY <1>2 DEF Post, LeaseEnds
  <1>3. ASSUME NEW w \in Sweepers, Sweep(w) PROVE Rest
    <2>1. tries' \in [Mails -> 0..MaxTries]
      BY <1>3 DEF Sweep, Claimable
    <2>2. leased' \subseteq Mails /\ losses' = losses
      BY <1>3 DEF Sweep, Claimable
    <2>3. Held'
      BY <1>1, <1>3 DEF Sweep, MailInv
    <2> QED
      BY <2>1, <2>2, <2>3
  <1>4. ASSUME NEW w \in Sweepers, NEW m \in Mails, Deliver(w, m) PROVE Rest
    <2>1. PICK ok \in BOOLEAN : outcome' = [outcome EXCEPT ![w] = [of |-> m, ok |-> ok]]
      BY <1>4, Zenon DEF Deliver
    <2> DEFINE g == [of |-> m, ok |-> ok]
    <2>2. g.of = m
      BY Zenon
    <2>3. outcome' = [outcome EXCEPT ![w] = g]
      BY <2>1
    <2> HIDE DEF g
    <2>4. outcome' = [x \in Sweepers |-> IF x = w THEN g ELSE outcome[x]]
      BY <1>1, <2>3 DEF MailInv
    <2>5. m \in batch[w] /\ UNCHANGED <<tries, leased, batch, losses>>
      BY <1>4 DEF Deliver
    <2> QED
      BY <2>2, <2>4, <2>5
  <1>5. ASSUME NEW w \in Sweepers, Mark(w) PROVE Rest
    <2>1. /\ outcome' = [x \in Sweepers |-> IF x = w THEN NoMail ELSE outcome[x]]
          /\ \A x \in Sweepers : x # w => batch'[x] = batch[x]
      BY <1>1, <1>5 DEF Mark, MailInv
    <2>2. leased' \subseteq Mails /\ UNCHANGED <<tries, losses>>
      BY <1>5 DEF Mark
    <2> QED
      BY <2>1, <2>2
  <1>6. ASSUME NEW w \in Sweepers, SweeperDies(w) PROVE Rest
    <2>1. /\ outcome' = [x \in Sweepers |-> IF x = w THEN NoMail ELSE outcome[x]]
          /\ \A x \in Sweepers : x # w => batch'[x] = batch[x]
      BY <1>1, <1>6 DEF SweeperDies, MailInv
    <2>2. losses' \in 0..MaxLosses /\ UNCHANGED <<tries, leased>>
      BY <1>6 DEF SweeperDies
    <2> QED
      BY <2>1, <2>2
  <1>7. ASSUME UNCHANGED outboxVars PROVE Rest
    BY <1>7 DEF outboxVars
  <1> QED
    BY <1>1, <1>2, <1>3, <1>4, <1>5, <1>6, <1>7 DEF OutboxNext

\* Every row has its attempts within the limit, whoever claimed it and however late.
LEMMA OutboxTyped == OutboxSpec => []OutboxTypeOK
  <1>1. MailTypes => OutboxTypeOK
    <2> SUFFICES ASSUME MailTypes PROVE OutboxTypeOK
      OBVIOUS
    <2>1. \A w \in Sweepers : outcome[w].of \in batch[w] \cup {"none"}
      BY DEF MailTypes, NoMail
    <2>2. inbox \in [Mails -> Nat] /\ batch \in [Sweepers -> SUBSET Mails]
      BY DEF MailTypes, MailInv
    <2> QED
      BY <2>1, <2>2 DEF MailTypes, MailInv, OutboxTypeOK, Final
  <1> QED
    BY <1>1, MailTypesInit, MailTypesStep, PTL DEF OutboxSpec

-----------------------------------------------------------------------------
(* Sessions.                                                                *)

\* LogoutSticks is not inductive: the UPDATE of a refresh under way would bring a
\* session back if it named the token NULL.  It names the token of a cookie, and a
\* request is sent only with one.
WithToken == {"sent", "leaving", "found", "lost", "rotated"}

TokenInv ==
  /\ issued \in Nat
  /\ tab \in [Tabs -> [at : WithToken \cup {"idle", "answered"}, has : Nat, gets : Nat]]
  /\ cookie \in Nat
  /\ \A g \in grace : g.new \in Nat
  /\ \A t \in Tabs : /\ tab[t].at \in WithToken => tab[t].has # 0
                     /\ tab[t].at = "rotated" => tab[t].gets # 0
  /\ LogoutSticks

LEMMA TokenInit == SessionInit => TokenInv
  BY DEF SessionInit, TokenInv, LogoutSticks, WithToken, Quiet

LEMMA TokenStep == TokenInv /\ [SessionNext]_sessionVars => TokenInv'
  <1> SUFFICES ASSUME TokenInv, [SessionNext]_sessionVars PROVE TokenInv'
    OBVIOUS
  <1> USE DEF TokenInv, LogoutSticks, WithToken, Quiet, Goes
  <1>1. ASSUME NEW t \in Tabs, SendRequest(t) PROVE TokenInv'
    <2>1. PICK s \in {"sent", "leaving"} :
            tab' = [tab EXCEPT ![t] = [at |-> s, has |-> cookie, gets |-> 0]]
      BY <1>1 DEF SendRequest
    <2> QED
      BY <1>1, <2>1 DEF SendRequest
  <1>2. ASSUME NEW t \in Tabs, ReadToken(t) PROVE TokenInv'
    BY <1>2 DEF ReadToken
  <1>3. ASSUME NEW t \in Tabs, RotateToken(t) PROVE TokenInv'
    BY <1>3 DEF RotateToken, StillMine
  <1>4. ASSUME NEW t \in Tabs, Remember(t) PROVE TokenInv'
    BY <1>4 DEF Remember, EntryKey
  <1>5. ASSUME NEW t \in Tabs, Reuse(t) PROVE TokenInv'
    <2>1. PICK g \in grace : tab' = [tab EXCEPT ![t].at = "answered", ![t].gets = g.new]
      BY <1>5 DEF Reuse
    <2>2. g.new \in Nat /\ UNCHANGED <<live, issued, grace, cookie, loggedOut, disturbed>>
      BY <1>5 DEF Reuse
    <2>3. tab' \in [Tabs -> [at : WithToken \cup {"idle", "answered"}, has : Nat, gets : Nat]]
      BY <2>1, <2>2
    <2>4. \A u \in Tabs : /\ tab'[u].at \in WithToken => tab'[u].has # 0
                          /\ tab'[u].at = "rotated" => tab'[u].gets # 0
      BY <2>1
    <2> QED
      BY <2>2, <2>3, <2>4
  <1>6. ASSUME NEW t \in Tabs, ReuseElsewhere(t) PROVE TokenInv'
    BY <1>6 DEF ReuseElsewhere
  <1>7. ASSUME NEW t \in Tabs, GiveUpPolling(t) PROVE TokenInv'
    BY <1>7 DEF GiveUpPolling
  <1>8. ASSUME NEW t \in Tabs, Logout(t) PROVE TokenInv'
    BY <1>8 DEF Logout
  <1>9. ASSUME NEW t \in Tabs, Receive(t) PROVE TokenInv'
    BY <1>9 DEF Receive
  <1>10. CASE Login
    BY <1>10 DEF Login
  <1>11. CASE GraceEnds
    BY <1>11 DEF GraceEnds
  <1>12. CASE UNCHANGED sessionVars
    BY <1>12 DEF sessionVars
  <1> QED
    BY <1>1, <1>2, <1>3, <1>4, <1>5, <1>6, <1>7, <1>8, <1>9, <1>10, <1>11, <1>12
       DEF SessionNext

\* No refresh under way or late gives a user who logged out a session again.
THEOREM AlwaysLoggedOut == SessionSpec => []LogoutSticks
  <1>1. TokenInv => LogoutSticks
    BY DEF TokenInv
  <1> QED
    BY TokenInit, TokenStep, <1>1, PTL DEF SessionSpec

\* TabsStaySignedIn speaks of tabs at rest only.  What carries it, until something
\* other than a refresh ends the session: from every token that a tab or the browser
\* holds there is a way to the live one, and a token that is not in Redis yet is
\* known to nobody, so that it cannot be rotated in its turn.

\* A request got its new token for n, and has not written it to Redis yet.
Rotating(n) == \E u \in Tabs : tab[u].at = "rotated" /\ tab[u].has = n

\* Token m was replaced by the next one, and whoever still has m can find out.
Edge(m) == [old |-> m, new |-> m + 1] \in grace \/ Rotating(m)

WayFrom(n) == n \in 1..issued /\ \A m \in n..(issued - 1) : Edge(m)

\* What a request that has not been answered to the browser may count on.
Underway(t) ==
  /\ tab[t].at = "idle" => tab[t] = Quiet
  /\ tab[t].at # "idle" => WayFrom(tab[t].has)
  /\ tab[t].at = "lost" => tab[t].has < issued
  /\ tab[t].at = "answered" => tab[t].has < issued /\ tab[t].gets = tab[t].has + 1

\* Nobody knows the token that t got but has not written to Redis yet.
Unknown(t) ==
  /\ tab[t].has = issued - 1 /\ tab[t].gets = issued /\ cookie < issued
  /\ \A g \in grace : g.old # tab[t].has
  /\ \A u \in Tabs \ {t} : /\ tab[u].at # "rotated" /\ tab[u].has < issued
                           /\ tab[u].at = "answered" => tab[u].gets < issued

Kept ==
  /\ live = issued
  /\ \A g \in grace : g.old \in 1..(issued - 1) /\ g = [old |-> g.old, new |-> g.old + 1]
  /\ WayFrom(cookie)
  /\ \A t \in Tabs : Underway(t)
  /\ \A t \in Tabs : tab[t].at = "rotated" => Unknown(t)

KeptInv == ~disturbed => Kept

LEMMA WayStays ==
  ASSUME NEW n, WayFrom(n), issued' = issued, \A m \in Nat : Edge(m) /\ m >= n => Edge(m)', n \in Nat, issued \in Nat
  PROVE  WayFrom(n)'
  BY DEF WayFrom

LEMMA KeptInit == SessionInit => KeptInv
  BY DEF SessionInit, KeptInv, Kept, WayFrom, Edge, Underway, Unknown, Quiet

\* A step that leaves the entries and the rotations under way as they are.
LEMMA SameEdges ==
  ASSUME TokenInv, NEW t \in Tabs, grace' = grace,
         tab' \in [Tabs -> [at : WithToken \cup {"idle", "answered"}, has : Nat, gets : Nat]],
         \A u \in Tabs \ {t} : tab'[u] = tab[u],
         tab[t].at # "rotated"
  PROVE  \A m \in Nat : Edge(m) => Edge(m)'
  BY DEF Edge, Rotating

\* A step of one request that neither rotates a token nor writes an entry.
LEMMA OneTabKeeps ==
  ASSUME TokenInv, TokenInv', Kept, NEW t \in Tabs,
         tab[t].at # "rotated", tab'[t].at \notin {"rotated", "idle"},
         \A u \in Tabs \ {t} : tab'[u] = tab[u],
         live' = live, issued' = issued, grace' = grace, cookie' = cookie,
         WayFrom(tab'[t].has),
         tab'[t].at = "lost" => tab'[t].has < issued,
         tab'[t].at = "answered" => tab'[t].has < issued /\ tab'[t].gets = tab'[t].has + 1,
         \A u \in Tabs : tab[u].at = "rotated" =>
            tab'[t].has < issued /\ (tab'[t].at = "answered" => tab'[t].gets < issued)
  PROVE  Kept'
  <1>1. \A n \in Nat : WayFrom(n) => WayFrom(n)'
    BY SameEdges, WayStays DEF TokenInv
  <1>2. \A u \in Tabs : Underway(u)'
    BY <1>1 DEF Underway, Kept, TokenInv
  <1>3. ASSUME NEW u \in Tabs, tab'[u].at = "rotated" PROVE Unknown(u)'
    BY <1>3 DEF Unknown, Kept, TokenInv
  <1>4. WayFrom(cookie)'
    BY <1>1 DEF Kept, TokenInv
  <1> QED
    BY <1>2, <1>3, <1>4 DEF Kept

LEMMA SendKeeps ==
  ASSUME TokenInv, TokenInv', Kept, NEW t \in Tabs, SendRequest(t)
  PROVE  Kept'
  <1>1. PICK s \in {"sent", "leaving"} : tab' = [tab EXCEPT ![t] = [at |-> s, has |-> cookie, gets |-> 0]]
    BY DEF SendRequest, Quiet
  <1>2. tab'[t] = [at |-> s, has |-> cookie, gets |-> 0] /\ tab[t].at = "idle"
    <2>1. tab'[t] = [at |-> s, has |-> cookie, gets |-> 0]
      BY <1>1 DEF TokenInv
    <2>2. tab[t].at = "idle"
      BY DEF SendRequest, Quiet
    <2> QED
      BY <2>1, <2>2
  <1>3. \A u \in Tabs \ {t} : tab'[u] = tab[u]
    BY <1>1 DEF TokenInv
  <1>4. live' = live /\ issued' = issued /\ grace' = grace /\ cookie' = cookie
    BY DEF SendRequest
  <1>5. \A u \in Tabs : tab[u].at = "rotated" => cookie < issued
    BY DEF Kept, Unknown
  <1> QED
    BY <1>2, <1>3, <1>4, <1>5, OneTabKeeps DEF Kept

LEMMA MoveKeeps ==
  ASSUME TokenInv, TokenInv', Kept, NEW t \in Tabs, NEW s \in {"found", "lost"},
         tab[t].at \in {"sent", "found"}, Goes(t, s), s = "lost" => live # tab[t].has,
         live' = live, issued' = issued, grace' = grace, cookie' = cookie
  PROVE  Kept'
  <1>1. /\ tab'[t].at = s /\ tab'[t].has = tab[t].has
        /\ \A u \in Tabs \ {t} : tab'[u] = tab[u]
    BY DEF Goes, TokenInv
  <1>2. WayFrom(tab[t].has) /\ tab[t].has \in Nat /\ issued \in Nat
    BY DEF Kept, Underway, TokenInv
  <1>3. s = "lost" => tab[t].has < issued
    BY <1>2 DEF WayFrom, Kept
  <1>4. \A u \in Tabs : tab[u].at = "rotated" => tab[t].has < issued
    BY DEF Kept, Unknown
  <1> QED
    BY <1>1, <1>2, <1>3, <1>4, OneTabKeeps

LEMMA RotateKeeps ==
  ASSUME TokenInv, TokenInv', Kept, NEW t \in Tabs, tab[t].at = "found", StillMine(t),
         issued' = issued + 1, live' = issued + 1, grace' = grace, cookie' = cookie,
         tab' = [tab EXCEPT ![t].at = "rotated", ![t].gets = issued + 1]
  PROVE  Kept'
  <1>1. /\ tab'[t].at = "rotated" /\ tab'[t].has = tab[t].has /\ tab'[t].gets = issued + 1
        /\ \A u \in Tabs \ {t} : tab'[u] = tab[u]
    BY DEF TokenInv
  <1>2. issued \in Nat /\ tab[t].has = issued
    BY DEF StillMine, Kept, TokenInv
  <1>3. \A u \in Tabs : tab[u].at # "rotated"
    BY <1>2 DEF Kept, Unknown
  <1>4. ASSUME NEW n \in Nat, WayFrom(n) PROVE WayFrom(n)'
    <2>1. \A m \in Nat : Edge(m) => Edge(m)'
      BY <1>1, <1>3 DEF Edge, Rotating
    <2>2. \A m \in Nat : m = issued => Edge(m)'
      BY <1>1, <1>2 DEF Edge, Rotating
    <2> QED
      BY <1>2, <1>4, <2>1, <2>2 DEF WayFrom
  <1>5. \A n \in Nat : WayFrom(n) => n =< issued
    BY DEF WayFrom
  <1>6. ASSUME NEW u \in Tabs PROVE Underway(u)'
    BY <1>1, <1>2, <1>4 DEF Underway, Kept, TokenInv
  <1>7. Unknown(t)'
    <2>1. cookie' < issued'
      BY <1>2, <1>5 DEF Kept, TokenInv
    <2>2. \A g \in grace : g.old < issued
      BY <1>2 DEF Kept
    <2>3. \A u \in Tabs \ {t} : /\ tab'[u].at # "rotated" /\ tab'[u].has < issued'
                                /\ tab'[u].at = "answered" => tab'[u].gets < issued'
      <3> SUFFICES ASSUME NEW u \in Tabs \ {t} 
                   PROVE  tab[u].has < issued + 1 /\ (tab[u].at = "answered" => tab[u].gets < issued + 1)
        BY <1>1, <1>3
      <3>1. tab[u].has \in Nat /\ Underway(u)
        BY DEF TokenInv, Kept
      <3>2. tab[u].has = 0 \/ WayFrom(tab[u].has)
        BY <3>1 DEF Underway, Quiet
      <3> QED
        BY <1>2, <1>5, <3>1, <3>2 DEF Underway
    <2>4. tab'[t].has = issued' - 1 /\ tab'[t].gets = issued'
      BY <1>1, <1>2
    <2>5. \A g \in grace' : g.old # tab'[t].has
      BY <1>1, <1>2, <2>2
    <2> QED
      BY <2>1, <2>3, <2>4, <2>5 DEF Unknown
  <1>8. \A g \in grace' : g.old \in 1..(issued' - 1) /\ g = [old |-> g.old, new |-> g.old + 1]
    BY <1>2 DEF Kept
  <1>9. WayFrom(cookie)'
    BY <1>4 DEF Kept, TokenInv
  <1> QED
    BY <1>1, <1>3, <1>6, <1>7, <1>8, <1>9 DEF Kept

LEMMA RememberKeeps ==
  ASSUME TokenInv, TokenInv', Kept, NEW t \in Tabs, Remember(t), ~disturbed'
  PROVE  Kept'
  <1> DEFINE n == tab[t].has
  <1>1. /\ tab[t].at = "rotated" /\ tab[t].gets = issued /\ n = issued - 1
        /\ \A g \in grace : g.old # n
    BY DEF Remember, Kept, Unknown
  <1>2. grace' = grace \cup {[old |-> n, new |-> n + 1]}
    <2>1. grace' = {g \in grace : g.old # n} \cup {[old |-> n, new |-> issued]}
      BY <1>1 DEF Remember, EntryKey
    <2>2. issued = n + 1 
      BY <1>1 DEF TokenInv
    <2> QED
      BY <1>1, <2>1, <2>2
  <1>3. /\ tab'[t].at = "answered" /\ tab'[t].has = n /\ tab'[t].gets = issued
        /\ \A u \in Tabs \ {t} : tab'[u] = tab[u]
        /\ live' = live /\ issued' = issued /\ cookie' = cookie
    BY <1>1 DEF Remember, Goes, TokenInv
  <1>4. n \in Nat /\ issued \in Nat /\ WayFrom(n)
    BY <1>1 DEF TokenInv, Kept, Underway
  <1>5. \A m \in Nat : Edge(m) => Edge(m)'
    <2>1. \A m \in Nat : Rotating(m) => m = n \/ Rotating(m)'
      BY <1>1, <1>3 DEF Rotating
    <2>2. \A m \in Nat : [old |-> m, new |-> m + 1] \in grace => [old |-> m, new |-> m + 1] \in grace'
      BY <1>2
    <2>3. [old |-> n, new |-> n + 1] \in grace'
      BY <1>2
    <2> HIDE DEF n
    <2> QED
      BY <2>1, <2>2, <2>3 DEF Edge
  <1>6. \A k \in Nat : WayFrom(k) => WayFrom(k)'
    BY <1>3, <1>4, <1>5, WayStays
  <1>7. \A u \in Tabs : tab'[u].at # "rotated"
    BY <1>1, <1>3 DEF Kept, Unknown
  <1>8. ASSUME NEW u \in Tabs PROVE Underway(u)'
    <2>1. CASE u = t
      BY <1>1, <1>3, <1>4, <1>6, <2>1 DEF Underway
    <2>2. CASE u # t
      BY <1>3, <1>6, <2>2 DEF Underway, Kept, TokenInv
    <2> QED
      BY <2>1, <2>2
  <1>9. ASSUME NEW g \in grace' PROVE g.old \in 1..(issued' - 1) /\ g = [old |-> g.old, new |-> g.old + 1]
    <2>1. CASE g \in grace
      BY <1>3, <2>1 DEF Kept
    <2>2. CASE g = [old |-> n, new |-> n + 1]
      BY <1>1, <1>3, <1>4, <2>2 DEF WayFrom
    <2> QED
      BY <1>2, <2>1, <2>2
  <1>10. WayFrom(cookie)'
    BY <1>3, <1>6 DEF Kept, TokenInv
  <1> QED
    BY <1>3, <1>7, <1>8, <1>9, <1>10 DEF Kept

LEMMA ReuseKeeps ==
  ASSUME TokenInv, TokenInv', Kept, NEW t \in Tabs, Reuse(t)
  PROVE  Kept'
  <1>1. PICK g \in grace : /\ g.old = tab[t].has
                           /\ tab' = [tab EXCEPT ![t].at = "answered", ![t].gets = g.new]
    BY DEF Reuse
  <1>2. /\ tab'[t].at = "answered" /\ tab'[t].has = tab[t].has /\ tab'[t].gets = g.new
        /\ \A u \in Tabs \ {t} : tab'[u] = tab[u]
    BY <1>1 DEF TokenInv
  <1>3. g.new = tab[t].has + 1
    BY <1>1 DEF Kept
  <1>4. /\ tab[t].at = "lost" /\ WayFrom(tab[t].has) /\ tab[t].has < issued
        /\ tab[t].has \in Nat /\ issued \in Nat
    BY DEF Reuse, Kept, Underway, TokenInv
  <1>5. \A u \in Tabs : tab[u].at = "rotated" => g.new < issued
    <2> SUFFICES ASSUME NEW u \in Tabs, tab[u].at = "rotated" PROVE g.new < issued
      OBVIOUS
    <2>1. g.old # issued - 1
      BY DEF Kept, Unknown
    <2> QED
      BY <1>1, <1>3, <1>4, <2>1
  <1>6. live' = live /\ issued' = issued /\ grace' = grace /\ cookie' = cookie
    BY DEF Reuse
  <1> QED
    BY <1>2, <1>3, <1>4, <1>5, <1>6, OneTabKeeps

\* Who lost the race finds the entry, or the winner has not written it yet.
LEMMA NobodyGivesUp ==
  ASSUME TokenInv, Kept, NEW t \in Tabs, GiveUpPolling(t)
  PROVE  disturbed'
  <1>1. WayFrom(tab[t].has) /\ tab[t].has < issued /\ tab[t].has \in Nat /\ issued \in Nat
    BY DEF GiveUpPolling, Kept, Underway, TokenInv
  <1>2. Edge(tab[t].has)
    BY <1>1 DEF WayFrom
  <1> QED
    BY <1>2 DEF Edge, Rotating, GiveUpPolling

LEMMA ReceiveKeeps ==
  ASSUME TokenInv, TokenInv', Kept, NEW t \in Tabs, Receive(t)
  PROVE  Kept'
  <1>1. /\ tab[t].at = "answered" /\ cookie' = tab[t].gets /\ tab'[t] = Quiet
        /\ \A u \in Tabs \ {t} : tab'[u] = tab[u]
        /\ live' = live /\ issued' = issued /\ grace' = grace
    BY DEF Receive, TokenInv
  <1>2. /\ WayFrom(tab[t].has) /\ tab[t].has < issued /\ tab[t].has \in Nat /\ issued \in Nat
        /\ tab[t].gets = tab[t].has + 1
    BY <1>1 DEF Kept, Underway, TokenInv
  <1>3. \A n \in Nat : WayFrom(n) => WayFrom(n)'
    BY <1>1, SameEdges, WayStays DEF TokenInv
  <1>4. WayFrom(tab[t].gets)
    BY <1>2 DEF WayFrom
  <1>5. WayFrom(cookie)'
    BY <1>1, <1>2, <1>3, <1>4
  <1>6. ASSUME NEW u \in Tabs PROVE Underway(u)'
    <2>1. CASE u = t
      BY <1>1, <2>1 DEF Underway, Quiet
    <2>2. CASE u # t
      BY <1>1, <1>3, <2>2 DEF Underway, Kept, TokenInv
    <2> QED
      BY <2>1, <2>2
  <1>7. ASSUME NEW u \in Tabs, tab'[u].at = "rotated" PROVE Unknown(u)'
    <2>1. u # t /\ tab[u].at = "rotated" /\ tab'[u] = tab[u]
      BY <1>1, <1>7 DEF Quiet
    <2>2. Unknown(u)
      BY <2>1 DEF Kept
    <2>3. cookie' < issued
      BY <1>1, <2>1, <2>2 DEF Unknown
    <2>4. tab'[t].at # "answered" /\ tab'[t].at # "rotated" /\ tab'[t].has < issued
      BY <1>1, <1>2 DEF Quiet
    <2> QED
      BY <1>1, <2>1, <2>2, <2>3, <2>4 DEF Unknown
  <1> QED
    BY <1>1, <1>5, <1>6, <1>7 DEF Kept

LEMMA GraceKeeps ==
  ASSUME TokenInv, TokenInv', Kept, GraceEnds, ~disturbed'
  PROVE  Kept'
  <1>1. PICK g \in grace : /\ \A h \in grace : g.new =< h.new
                           /\ \A t \in Tabs : tab[t].has # g.old
                           /\ grace' = grace \ {g}
                           /\ cookie # g.old
    BY DEF GraceEnds
  <1>2. live' = live /\ issued' = issued /\ cookie' = cookie /\ tab' = tab /\ issued \in Nat
    BY DEF GraceEnds, TokenInv
  <1>3. g.old \in 1..(issued - 1) /\ g.new = g.old + 1
    BY <1>1 DEF Kept
  <1>4. ASSUME NEW n \in Nat, WayFrom(n), n # g.old PROVE WayFrom(n)'
    <2>1. n > g.old
      <3>1. CASE n < g.old
        <4>1. Edge(n)
          BY <1>2, <1>3, <1>4, <3>1 DEF WayFrom
        <4>2. [old |-> n, new |-> n + 1] \notin grace
          BY <1>1, <1>3, <3>1
        <4>3. PICK u \in Tabs : tab[u].at = "rotated" /\ tab[u].has = n
          BY <4>1, <4>2 DEF Edge, Rotating
        <4>4. n = issued - 1
          BY <4>3 DEF Kept, Unknown
        <4> QED
          BY <1>2, <1>3, <3>1, <4>4
      <3> QED
        BY <1>3, <1>4, <3>1
    <2>2. \A m \in Nat : m >= n /\ Edge(m) => Edge(m)'
      BY <1>1, <1>2, <1>3, <2>1 DEF Edge, Rotating
    <2> QED
      BY <1>2, <1>4, <2>2, WayStays
  <1>5. WayFrom(cookie)'
    BY <1>1, <1>2, <1>4 DEF Kept, TokenInv
  <1>6. ASSUME NEW u \in Tabs PROVE Underway(u)'
    BY <1>1, <1>2, <1>4 DEF Underway, Kept, TokenInv
  <1>7. ASSUME NEW u \in Tabs, tab'[u].at = "rotated" PROVE Unknown(u)'
    BY <1>1, <1>2, <1>7 DEF Unknown, Kept
  <1> QED
    BY <1>1, <1>2, <1>5, <1>6, <1>7 DEF Kept

LEMMA KeptStep == TokenInv /\ TokenInv' /\ KeptInv /\ [SessionNext]_sessionVars => KeptInv'
  <1> SUFFICES ASSUME TokenInv, TokenInv', KeptInv, [SessionNext]_sessionVars, ~disturbed'
               PROVE  Kept'
    BY DEF KeptInv
  <1>0. Kept
    BY DEF KeptInv, SessionNext, sessionVars, SendRequest, ReadToken, RotateToken, Remember,
           Reuse, ReuseElsewhere, GiveUpPolling, Logout, Receive, Login, GraceEnds
  <1>1. ASSUME NEW t \in Tabs, SendRequest(t) PROVE Kept'
    BY <1>0, <1>1, SendKeeps
  <1>2. ASSUME NEW t \in Tabs, ReadToken(t) PROVE Kept'
    BY <1>0, <1>2, MoveKeeps DEF ReadToken
  <1>3. ASSUME NEW t \in Tabs, RotateToken(t) PROVE Kept'
    <2>1. CASE StillMine(t)
      BY <1>0, <1>3, <2>1, RotateKeeps DEF RotateToken
    <2>2. CASE ~StillMine(t)
      BY <1>0, <1>3, <2>2, MoveKeeps DEF RotateToken, StillMine
    <2> QED
      BY <2>1, <2>2
  <1>4. ASSUME NEW t \in Tabs, Remember(t) PROVE Kept'
    BY <1>0, <1>4, RememberKeeps
  <1>5. ASSUME NEW t \in Tabs, Reuse(t) PROVE Kept'
    BY <1>0, <1>5, ReuseKeeps
  <1>6. ASSUME NEW t \in Tabs, GiveUpPolling(t) PROVE FALSE
    BY <1>0, <1>6, NobodyGivesUp
  <1>7. ASSUME NEW t \in Tabs, ReuseElsewhere(t) \/ Logout(t) PROVE FALSE
    BY <1>7 DEF ReuseElsewhere, Logout
  <1>8. ASSUME NEW t \in Tabs, Receive(t) PROVE Kept'
    BY <1>0, <1>8, ReceiveKeeps
  <1>9. CASE GraceEnds
    BY <1>0, <1>9, GraceKeeps
  <1>10. ~Login
    BY DEF Login
  <1>11. CASE UNCHANGED sessionVars
    BY <1>0, <1>11 DEF sessionVars, Kept, WayFrom, Edge, Rotating, Underway, Unknown
  <1> QED
    BY <1>1, <1>2, <1>3, <1>4, <1>5, <1>6, <1>7, <1>8, <1>9, <1>10, <1>11 DEF SessionNext

\* With every request answered, the way from the browser's token is in Redis.
LEMMA KeptSignedIn == TokenInv /\ KeptInv /\ issued =< MaxTokens => TabsStaySignedIn
  <1> SUFFICES ASSUME TokenInv, Kept, issued =< MaxTokens, \A t \in Tabs : tab[t] = Quiet, cookie # live
               PROVE  live \in Onward(cookie)
    BY DEF KeptInv, TabsStaySignedIn
  <1> DEFINE path == {[old |-> m, new |-> m + 1] : m \in cookie..(issued - 1)}
  <1>1. cookie \in 1..(issued - 1) /\ live = issued /\ issued \in Nat
    BY DEF Kept, WayFrom, TokenInv
  <1>2. path \in SUBSET grace
    <2>1. \A m \in cookie..(issued - 1) : Edge(m) /\ ~Rotating(m)
      BY DEF Kept, WayFrom, Rotating, Quiet
    <2> QED
      BY <2>1 DEF Edge
  <1>3. \E g \in path : g.old = cookie
    <2>1. [old |-> cookie, new |-> cookie + 1] \in path
      BY <1>1
    <2> QED
      BY <2>1
  <1>4. \E g \in path : g.new = live
    <2>1. [old |-> issued - 1, new |-> (issued - 1) + 1] \in path
      BY <1>1
    <2> QED
      BY <1>1, <2>1
  <1>5. ASSUME NEW g \in path, g.new # live PROVE \E h \in path : h.old = g.new
    <2>1. PICK m \in cookie..(issued - 1) : g = [old |-> m, new |-> m + 1]
      OBVIOUS
    <2>2. m + 1 \in cookie..(issued - 1)
      BY <1>1, <1>5, <2>1
    <2>3. [old |-> m + 1, new |-> (m + 1) + 1] \in path
      BY <2>2
    <2> QED
      BY <2>1, <2>3
  <1>6. live \in 1..MaxTokens
    BY <1>1
  <1> HIDE DEF path
  <1> QED
    BY <1>2, <1>3, <1>4, <1>5, <1>6 DEF Onward

LEMMA TypesInit == SessionInit => SessionTypeOK
  <1> SUFFICES ASSUME SessionInit PROVE SessionTypeOK
    OBVIOUS
  <1>1. \A t \in Tabs : tab[t].at = "idle" /\ tab[t].has = 0 /\ tab[t].gets = 0
    BY DEF SessionInit, Quiet
  <1>2. /\ live = 1 /\ issued = 1 /\ cookie = 1 /\ grace = {}
    BY DEF SessionInit
  <1>3. loggedOut \in BOOLEAN /\ disturbed \in BOOLEAN
    BY DEF SessionInit
  <1> QED
    BY <1>1, <1>2, <1>3, TokensAssumption DEF TokensAssumption, SessionTypeOK

LEMMA TypesStep == TokenInv /\ SessionTypeOK /\ [SessionNext]_sessionVars => SessionTypeOK'
  <1> SUFFICES ASSUME TokenInv, SessionTypeOK, [SessionNext]_sessionVars PROVE SessionTypeOK'
    OBVIOUS
  <1> USE TokensAssumption DEF TokensAssumption, SessionTypeOK, TokenInv, Quiet, Goes
  <1>1. ASSUME NEW t \in Tabs, SendRequest(t) PROVE SessionTypeOK'
    <2>1. PICK s \in {"sent", "leaving"} :
            tab' = [tab EXCEPT ![t] = [at |-> s, has |-> cookie, gets |-> 0]]
      BY <1>1 DEF SendRequest
    <2>2. tab'[t] = [at |-> s, has |-> cookie, gets |-> 0] /\ \A u \in Tabs \ {t} : tab'[u] = tab[u]
      BY <2>1
    <2>3. UNCHANGED <<live, issued, grace, cookie, loggedOut, disturbed>>
      BY <1>1 DEF SendRequest
    <2> QED
      BY <2>2, <2>3
  <1>2. ASSUME NEW t \in Tabs, ReadToken(t) PROVE SessionTypeOK'
    BY <1>2 DEF ReadToken
  <1>3. ASSUME NEW t \in Tabs, GiveUpPolling(t) PROVE SessionTypeOK'
    <2>1. disturbed' \in BOOLEAN
      BY <1>3 DEF GiveUpPolling
    <2>2. /\ tab'[t].at = "answered" /\ tab'[t].has = tab[t].has /\ tab'[t].gets = tab[t].gets
          /\ \A u \in Tabs \ {t} : tab'[u] = tab[u]
      BY <1>3 DEF GiveUpPolling
    <2>3. UNCHANGED <<live, issued, grace, cookie, loggedOut>>
      BY <1>3 DEF GiveUpPolling
    <2> QED
      BY <2>1, <2>2, <2>3
  <1>4. ASSUME NEW t \in Tabs, Logout(t) PROVE SessionTypeOK'
    <2>1. live' \in {live, 0} /\ loggedOut' \in BOOLEAN /\ disturbed' \in BOOLEAN
      BY <1>4 DEF Logout
    <2>2. /\ tab'[t].at = "answered" /\ tab'[t].has = tab[t].has /\ tab'[t].gets = tab[t].gets
          /\ \A u \in Tabs \ {t} : tab'[u] = tab[u]
      BY <1>4 DEF Logout
    <2>3. UNCHANGED <<issued, grace, cookie>>
      BY <1>4 DEF Logout
    <2> QED
      BY <2>1, <2>2, <2>3
  <1>5. ASSUME NEW t \in Tabs, RotateToken(t) PROVE SessionTypeOK'
    BY <1>5 DEF RotateToken
  <1>6. ASSUME NEW t \in Tabs, Remember(t) PROVE SessionTypeOK'
    <2>1. /\ tab'[t].at = "answered" /\ tab'[t].has = tab[t].has /\ tab'[t].gets = tab[t].gets
          /\ \A u \in Tabs \ {t} : tab'[u] = tab[u]
      BY <1>6 DEF Remember
    <2>2. \A g \in grace' : g.old \in 1..issued /\ g.new \in 1..issued
      BY <1>6 DEF Remember, EntryKey, WithToken
    <2> QED
      BY <1>6, <2>1, <2>2 DEF Remember
  <1>7. ASSUME NEW t \in Tabs, Reuse(t) PROVE SessionTypeOK'
    BY <1>7 DEF Reuse
  <1>8. ASSUME NEW t \in Tabs, ReuseElsewhere(t) PROVE SessionTypeOK'
    BY <1>8 DEF ReuseElsewhere
  <1>9. ASSUME NEW t \in Tabs, Receive(t) PROVE SessionTypeOK'
    <2>1. tab'[t] = [at |-> "idle", has |-> 0, gets |-> 0] /\ \A u \in Tabs \ {t} : tab'[u] = tab[u]
      BY <1>9 DEF Receive
    <2>2. cookie' = tab[t].gets /\ UNCHANGED <<live, issued, grace, loggedOut, disturbed>>
      BY <1>9 DEF Receive
    <2> QED
      BY <2>1, <2>2
  <1>10. CASE Login
    <2>1. loggedOut' \in BOOLEAN /\ disturbed' \in BOOLEAN
      BY <1>10 DEF Login
    <2>2. /\ issued < MaxTokens /\ issued' = issued + 1 /\ live' = issued + 1
          /\ cookie' = cookie \/ cookie' = issued + 1
          /\ grace' = grace /\ tab' = tab
      BY <1>10 DEF Login
    <2> QED
      BY <2>1, <2>2
  <1>11. CASE GraceEnds
    BY <1>11 DEF GraceEnds
  <1>12. CASE UNCHANGED sessionVars
    BY <1>12 DEF sessionVars
  <1> QED
    BY <1>1, <1>2, <1>3, <1>4, <1>5, <1>6, <1>7, <1>8, <1>9, <1>10, <1>11, <1>12
       DEF SessionNext

\* The tokens of the row, the browser, Redis and the requests are tokens issued.
THEOREM SessionTypes == SessionSpec => []SessionTypeOK
  BY TokenInit, TokenStep, TypesInit, TypesStep, PTL DEF SessionSpec

\* However many tabs refresh with one token at once, and however often: while nobody
\* logs in or out, Redis answers and a request takes less than ten seconds, they
\* keep the session.
THEOREM AlwaysSignedIn == SessionSpec => []TabsStaySignedIn
  <1>1. SessionTypeOK => issued =< MaxTokens
    BY TokensAssumption DEF SessionTypeOK, TokensAssumption
  <1> QED
    BY TokenInit, TokenStep, KeptInit, KeptStep, KeptSignedIn, SessionTypes, <1>1, PTL
       DEF SessionSpec

=============================================================================
