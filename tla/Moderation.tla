----------------------------- MODULE Moderation -----------------------------
(***************************************************************************)
(* Reports of one reporter against a provider for one reservation, the      *)
(* moderation case opened with each, the provider's appeal, and the trust   *)
(* event a validated report leaves.                                        *)
(*                                                                         *)
(* Two doors lead to a verdict: the report's own review, and the case's     *)
(* status form, which first reads, without a lock, whether the report is    *)
(* still pending.  ESCALATED and AWAITING_RESPONSE, which differ from       *)
(* UNDER_REVIEW in name only, are left out, and so are attachments and      *)
(* responses: they touch no status.                                        *)
(***************************************************************************)
EXTENDS FiniteSets

CONSTANTS Reports,   \* reports that may be written
          Admins     \* admins with a status form under way

VARIABLES report,    \* provider_reports.status
          mcase,     \* moderation_cases.status
          appeal,    \* moderation_appeals.status
          faults,    \* reports with a provider trust event
          refunds,   \* reports whose provider-fault refund is queued
          form       \* [admin -> what the status form has read]

moderationVars == <<report, mcase, appeal, faults, refunds, form>>

Verdicts == {"VALIDATED", "DISMISSED"}
NoForm == [of |-> "none", want |-> "none", pending |-> FALSE]
Decided == {"ACCEPTED", "REJECTED", "WITHDRAWN"}

ReportStatus(v) == IF v = "VALIDATED" THEN "validated" ELSE "dismissed"

ModerationInit ==
  /\ report = [r \in Reports |-> "none"]
  /\ mcase = [r \in Reports |-> "none"]
  /\ appeal = [r \in Reports |-> "none"]
  /\ faults = {}
  /\ refunds = {}
  /\ form = [a \in Admins |-> NoForm]

\* createProviderReport: refused while one of the reporter's reports for the
\* reservation is pending (or younger than 30 days, left to chance); the case is
\* opened in the same transaction.
CreateReport(r) ==
  /\ report[r] = "none"
  /\ \A s \in Reports : report[s] # "pending"
  /\ report' = [report EXCEPT ![r] = "pending"]
  /\ mcase' = [mcase EXCEPT ![r] = "OPEN"]
  /\ UNCHANGED <<appeal, faults, refunds, form>>

\* UPDATE provider_reports ... WHERE status='pending'.
Reviewable(r) == report[r] = "pending"

\* As if the check for a terminal case were forgotten.
AnyCase(r, v) == TRUE

\* "Terminal moderation cases cannot be changed".
CaseTakes(r, v) == mcase[r] \notin Verdicts \/ mcase[r] = v

\* validateProviderReport and dismissProviderReport: the report, the trust event
\* and the case in one transaction; a terminal case that disagrees undoes it all.
\* The refund of undelivered food is queued after the commit, and only by the
\* process that made it: it may die first.
Review(r, v) ==
  /\ Reviewable(r) /\ CaseTakes(r, v)
  /\ report' = [report EXCEPT ![r] = ReportStatus(v)]
  /\ mcase' = [mcase EXCEPT ![r] = v]
  /\ faults' = IF v = "VALIDATED" THEN faults \cup {r} ELSE faults
  /\ \/ v = "VALIDATED" /\ refunds' = refunds \cup {r}
     \/ UNCHANGED refunds
  /\ UNCHANGED appeal

ReviewReport(r, v) == Review(r, v) /\ UNCHANGED form

\* updateModerationCaseStatus reads the case and its report, unlocked.
ReadCase(a, r, w) ==
  /\ form[a] = NoForm /\ report[r] # "none"
  /\ form' = [form EXCEPT ![a] = [of |-> r, want |-> w, pending |-> report[r] = "pending"]]
  /\ UNCHANGED <<report, mcase, appeal, faults, refunds>>

\* transitionModerationCaseStatus, the case row locked.
Transition(r, w) ==
  /\ mcase' = IF CaseTakes(r, w) THEN [mcase EXCEPT ![r] = w] ELSE mcase
  /\ UNCHANGED <<report, appeal, faults, refunds>>

\* As if the status form did not go through the review of the report.
UpdateCaseAlone(a) ==
  /\ form[a] # NoForm
  /\ Transition(form[a].of, form[a].want)
  /\ form' = [form EXCEPT ![a] = NoForm]

\* A verdict on a report that was pending goes through its review (which finds
\* nothing to do if another admin came first); everything else is a transition.
UpdateCase(a) ==
  LET f == form[a] IN
  /\ f # NoForm
  /\ IF f.want \in Verdicts /\ f.pending
     THEN \/ Review(f.of, f.want)
          \/ /\ ~(Reviewable(f.of) /\ CaseTakes(f.of, f.want))
             /\ UNCHANGED <<report, mcase, appeal, faults, refunds>>
     ELSE Transition(f.of, f.want)
  /\ form' = [form EXCEPT ![a] = NoForm]

SubmitAppeal(r) ==
  /\ mcase[r] \in Verdicts /\ appeal[r] = "none"
  /\ appeal' = [appeal EXCEPT ![r] = "SUBMITTED"]
  /\ UNCHANGED <<report, mcase, faults, refunds, form>>

\* withdrawProviderModerationAppeal and transitionModerationAppealStatus lock the
\* appeal row; a decided appeal is refused.
AppealMoves(r, s) ==
  /\ appeal[r] \notin Decided \cup {"none", s}
  /\ appeal' = [appeal EXCEPT ![r] = s]
  /\ UNCHANGED <<report, mcase, faults, refunds, form>>

WithdrawAppeal(r) == AppealMoves(r, "WITHDRAWN")
DecideAppeal(r) == \E s \in {"UNDER_REVIEW", "ACCEPTED", "REJECTED"} : AppealMoves(r, s)

ModerationNext ==
  \/ \E r \in Reports : CreateReport(r) \/ SubmitAppeal(r) \/ WithdrawAppeal(r) \/ DecideAppeal(r)
  \/ \E r \in Reports, v \in Verdicts : ReviewReport(r, v)
  \/ \E a \in Admins, r \in Reports, w \in Verdicts \cup {"UNDER_REVIEW"} : ReadCase(a, r, w)
  \/ \E a \in Admins : UpdateCase(a)

ModerationSpec == ModerationInit /\ [][ModerationNext]_moderationVars

-----------------------------------------------------------------------------
ModerationTypeOK ==
  /\ report \in [Reports -> {"none", "pending", "validated", "dismissed"}]
  /\ mcase \in [Reports -> {"none", "OPEN", "UNDER_REVIEW"} \cup Verdicts]
  /\ appeal \in [Reports -> {"none", "SUBMITTED", "UNDER_REVIEW"} \cup Decided]
  /\ faults \subseteq Reports /\ refunds \subseteq Reports
  /\ \A a \in Admins : form[a].of \in Reports \cup {"none"}

\* Whichever door the admins came through, and however stale what they read: the
\* report, its case and the provider's trust record tell of the same verdict,
\* money is refunded for validated reports only, and only a closed case is
\* appealed.
VerdictsAgree ==
  \A r \in Reports :
    /\ report[r] = "validated" <=> mcase[r] = "VALIDATED"
    /\ report[r] = "dismissed" <=> mcase[r] = "DISMISSED"
    /\ r \in faults <=> report[r] = "validated"
    /\ r \in refunds => r \in faults
    /\ appeal[r] # "none" => mcase[r] \in Verdicts

\* A verdict and a decision on an appeal are final: no second review, form or
\* withdrawal changes them.
VerdictsStand ==
  [][\A r \in Reports :
       /\ mcase[r] \in Verdicts => mcase'[r] = mcase[r]
       /\ appeal[r] \in Decided => appeal'[r] = appeal[r]]_moderationVars
=============================================================================
