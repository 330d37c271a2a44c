--------------------------- MODULE PayoutAccounts ---------------------------
(***************************************************************************)
(* The payout accounts of one provider: each upload makes a new row, one of *)
(* them is active.  A verified account is replaced only after a change      *)
(* request was approved.  The uploads and verifications read without a lock *)
(* and write later, so that they are two steps each; a unique index on the  *)
(* active row stops whoever comes second.                                   *)
(***************************************************************************)
EXTENDS Integers, FiniteSets

CONSTANT Accounts  \* rows that may be made, in the order of their creation

ASSUME AccountsAssumption == Accounts \subseteq Nat \ {0} /\ IsFiniteSet(Accounts)

VARIABLES
    rows,      \* rows that exist
    active,    \* is_active
    verified,  \* verification_status = verified
    judged,    \* ... = rejected
    change,    \* change_request_status
    closed,    \* the provider deactivated the account
    upload,    \* an upload under way: "none", or the active row it read
    checks     \* verifications under way: the row, and whether it was active

accountVars == <<rows, active, verified, judged, change, closed, upload, checks>>

AccountsInit ==
    /\ rows = {} /\ active = {} /\ verified = {} /\ judged = {} /\ closed = FALSE
    /\ change = [i \in Accounts |-> "none"]
    /\ upload = "none" /\ checks = {}

UnderChange(i) == change[i] \in {"approved", "replacement_pending"}
ActiveRow == IF active = {} THEN 0 ELSE CHOOSE i \in active : TRUE

\* idx_provider_payout_accounts_one_active
SecondActive(D) == D
OneRow(D) == IF Cardinality(D) =< 1 THEN D ELSE active

-----------------------------------------------------------------------------
\* replaceProviderPayoutAccount: reads the active row, refuses a verified one
\* without an approved change; later deactivates and inserts
UploadReads ==
    /\ upload = "none" /\ rows # Accounts
    /\ ActiveRow \in verified => UnderChange(ActiveRow)
    /\ upload' = IF active = {} THEN "nothing" ELSE "old"
    /\ UNCHANGED <<rows, active, verified, judged, change, closed, checks>>

UploadWrites ==
    \E i \in Accounts \ rows :
      LET now == OneRow({i} \cup (IF upload = "old" THEN {} ELSE active)) IN
      /\ upload # "none" /\ \A j \in Accounts \ rows : i =< j
      /\ active' = now
      /\ rows' = IF i \in now THEN rows \cup {i} ELSE rows
      /\ closed' = (closed /\ i \notin now)
      /\ upload' = "none"
      /\ UNCHANGED <<verified, judged, change, checks>>

\* requestProviderPayoutAccountChange
RequestChange ==
    /\ ActiveRow \in verified
    /\ change' = [change EXCEPT ![ActiveRow] = "pending"]
    /\ UNCHANGED <<rows, active, verified, judged, closed, upload, checks>>

\* approve and reject look at nothing but the row being active
ApproveChange(i) ==
    /\ i \in active
    /\ change' = [change EXCEPT ![i] = "replacement_pending"]
    /\ UNCHANGED <<rows, active, verified, judged, closed, upload, checks>>

RejectChange(i) ==
    /\ i \in active
    /\ change' = [change EXCEPT ![i] = "rejected"]
    /\ UNCHANGED <<rows, active, verified, judged, closed, upload, checks>>

\* verifyProviderPayoutAccount: an inactive row becomes active again; the
\* active one makes room only when its change is approved
VerifyReads(i) ==
    /\ i \in rows /\ checks = {}
    /\ checks' = {<<i, i \in active>>}
    /\ UNCHANGED <<rows, active, verified, judged, change, closed, upload>>

VerifyWrites(i, wasActive) ==
    LET leaves == {j \in active \ {i} : UnderChange(j)}
        now == IF wasActive THEN active ELSE OneRow({i} \cup (active \ leaves))
        done == wasActive \/ i \in now IN  \* else the index fails it
    /\ <<i, wasActive>> \in checks
    /\ active' = now
    /\ verified' = IF done THEN verified \cup {i} ELSE verified
    /\ judged' = IF done THEN judged \ {i} ELSE judged
    /\ change' = IF wasActive \/ i \notin now THEN change
                 ELSE [j \in Accounts |-> IF j \in leaves THEN "none" ELSE change[j]]
    /\ closed' = (closed /\ now = {})
    /\ checks' = checks \ {<<i, wasActive>>}
    /\ UNCHANGED <<rows, upload>>

\* rejectProviderPayoutAccount
RejectAccount(i) ==
    /\ i \in active
    /\ verified' = verified \ {i} /\ judged' = judged \cup {i}
    /\ UNCHANGED <<rows, active, change, closed, upload, checks>>

\* deactivateProviderPayoutAccount
Deactivate ==
    /\ active # {}
    /\ active' = {} /\ closed' = TRUE
    /\ UNCHANGED <<rows, verified, judged, change, upload, checks>>

AccountsNext ==
    \/ UploadReads \/ UploadWrites \/ RequestChange \/ Deactivate
    \/ \E i \in Accounts :
        \/ ApproveChange(i) \/ RejectChange(i) \/ RejectAccount(i) \/ VerifyReads(i)
        \/ \E was \in BOOLEAN : VerifyWrites(i, was)

-----------------------------------------------------------------------------
AccountsTypeOK ==
    /\ rows \subseteq Accounts /\ active \subseteq rows /\ verified \subseteq rows
    /\ judged \subseteq rows \ verified /\ closed \in BOOLEAN
    /\ change \in [Accounts -> {"none", "pending", "rejected", "replacement_pending"}]
    /\ upload \in {"none", "nothing", "old"} /\ checks \subseteq Accounts \X BOOLEAN

\* However uploads, verifications and reviews cross, a provider that has an
\* account has exactly one active, until the provider deactivates it.
OneActiveAccount ==
    Cardinality(active) = IF rows = {} \/ closed THEN 0 ELSE 1

=============================================================================
