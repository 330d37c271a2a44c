----------------------------- MODULE Membership -----------------------------
(***************************************************************************)
(* One volunteer's requests to join NGOs, the invitations NGOs send, and    *)
(* the memberships both lead to.  The approval of a join locks its own row, *)
(* looks for another active membership without a lock, and rejects the      *)
(* volunteer's other joins one row after the other, waiting for each row    *)
(* another approval holds; two approvals that wait for each other deadlock, *)
(* and PostgreSQL rolls one of them back.                                   *)
(*                                                                         *)
(* Left to chance: the hour before a join may be repeated, and whether the  *)
(* volunteer has tasks when leaving (NgoTasks has the tasks).              *)
(***************************************************************************)
EXTENDS Integers, FiniteSets

CONSTANTS Joins,      \* volunteer_requests of type volunteer_join
          Invites,    \* volunteer_requests of type ngo_invite
          NgoAt       \* [Joins \cup Invites -> the NGO of the request]

ASSUME JoinAssumption == "free" \notin Joins /\ Joins \cap Invites = {}

VARIABLES asked,      \* volunteer_requests.status
          member,     \* volunteers.status, per NGO
          step,       \* [request -> step of the request that writes or approves it]
          joinLock,   \* [join -> the approval whose transaction holds its row]
          unrejected, \* [join -> the rows its approval has yet to reject]
          crossed     \* a join was written while an approval was rejecting the others

membershipVars == <<asked, member, step, joinLock, unrejected, crossed>>

Asks == Joins \cup Invites
AllNgos == {NgoAt[q] : q \in Asks}
NoApproval == "free"

MembershipInit ==
  /\ asked = [q \in Asks |-> "none"]
  /\ member = [n \in AllNgos |-> "none"]
  /\ step = [q \in Asks |-> "idle"]
  /\ joinLock = [q \in Joins |-> NoApproval]
  /\ unrejected = [q \in Joins |-> {}]
  /\ crossed = FALSE

At(q, s) == step' = [step EXCEPT ![q] = s]

SameKind(q) == IF q \in Joins THEN Joins ELSE Invites

\* joinNGO and requestVolunteer: not an active member, nothing of the kind
\* pending between the two.  Nothing is locked.
CheckAsk(q) ==
  /\ asked[q] = "none" /\ step[q] = "idle"
  /\ member[NgoAt[q]] # "active"
  /\ \A o \in SameKind(q) : NgoAt[o] = NgoAt[q] => asked[o] # "pending"
  /\ At(q, "checked")
  /\ UNCHANGED <<asked, member, joinLock, unrejected, crossed>>

InsertAsk(q) ==
  /\ step[q] = "checked"
  /\ asked' = [asked EXCEPT ![q] = "pending"]
  /\ At(q, "idle")
  /\ crossed' = (crossed \/ (q \in Joins /\ \E o \in Joins : step[o] = "rejecting"))
  /\ UNCHANGED <<member, joinLock, unrejected>>

-----------------------------------------------------------------------------
\* The unique key (user_id, ngo_id) is held by a transaction that inserts it.
KeyFree(n) ==
  \A o \in Joins : NgoAt[o] = n => step[o] \notin {"granting", "rejecting"}

\* handleVolunteerJoinRequest: SELECT ... WHERE status='pending' FOR UPDATE.
LockJoin(q) ==
  /\ asked[q] = "pending" /\ step[q] = "idle" /\ joinLock[q] = NoApproval
  /\ joinLock' = [joinLock EXCEPT ![q] = q]
  /\ At(q, "locked")
  /\ UNCHANGED <<asked, member, unrejected, crossed>>

\* otherActive, read without a lock.
NoneElsewhere(q) == \A n \in AllNgos \ {NgoAt[q]} : member[n] # "active"

Rollback(q) ==
  /\ joinLock' = [o \in Joins |-> IF joinLock[o] = q THEN NoApproval ELSE joinLock[o]]
  /\ unrejected' = [unrejected EXCEPT ![q] = {}]
  /\ At(q, "idle")
  /\ UNCHANGED <<asked, member, crossed>>

\* "Volunteer is already active in another NGO"; else the membership is inserted
\* and the own row approved, uncommitted.
GrantJoin(q) ==
  /\ step[q] = "locked"
  /\ \/ ~NoneElsewhere(q) /\ Rollback(q)
     \/ /\ NoneElsewhere(q) /\ KeyFree(NgoAt[q])
        /\ At(q, "granting")
        /\ UNCHANGED <<asked, member, joinLock, unrejected, crossed>>

\* The others, as if rows another transaction holds were skipped.
FreeOthers(q) == {o \in Joins \ {q} : asked[o] = "pending" /\ joinLock[o] = NoApproval}

\* UPDATE ... WHERE volunteer_id AND id<>$2 AND status='pending': its snapshot.
Others(q) == {o \in Joins \ {q} : asked[o] = "pending"}

FindOthers(q) ==
  /\ step[q] = "granting"
  /\ unrejected' = [unrejected EXCEPT ![q] = Others(q)]
  /\ At(q, "rejecting")
  /\ UNCHANGED <<asked, member, joinLock, crossed>>

\* Its next row, waited for; one that is no longer pending is passed over.
TakeOther(q, o) ==
  /\ step[q] = "rejecting" /\ o \in unrejected[q] /\ joinLock[o] = NoApproval
  /\ unrejected' = [unrejected EXCEPT ![q] = @ \ {o}]
  /\ joinLock' = IF asked[o] = "pending" THEN [joinLock EXCEPT ![o] = q] ELSE joinLock
  /\ UNCHANGED <<asked, member, step, crossed>>

CommitJoin(q) ==
  /\ step[q] = "rejecting" /\ unrejected[q] = {}
  /\ asked' = [o \in Asks |-> IF o = q THEN "approved"
                              ELSE IF o \in Joins /\ joinLock[o] = q THEN "rejected" ELSE asked[o]]
  /\ member' = [member EXCEPT ![NgoAt[q]] = "active"]
  /\ joinLock' = [o \in Joins |-> IF joinLock[o] = q THEN NoApproval ELSE joinLock[o]]
  /\ At(q, "idle")
  /\ UNCHANGED <<unrejected, crossed>>

\* A deadlock, a lost connection or any other error: ROLLBACK.
FailJoin(q) == step[q] \in {"locked", "granting", "rejecting"} /\ Rollback(q)

\* handleVolunteerJoinRequest, reject: the same lock, one row written.
RejectJoin(q) ==
  /\ asked[q] = "pending" /\ joinLock[q] = NoApproval
  /\ asked' = [asked EXCEPT ![q] = "rejected"]
  /\ UNCHANGED <<member, step, joinLock, unrejected, crossed>>

\* respondToRequest: the invitation's row is locked, and an acceptance makes the
\* membership active, whatever other memberships there are.
Respond(q) ==
  /\ asked[q] = "pending"
  /\ \/ /\ KeyFree(NgoAt[q])
        /\ asked' = [asked EXCEPT ![q] = "approved"]
        /\ member' = [member EXCEPT ![NgoAt[q]] = "active"]
     \/ asked' = [asked EXCEPT ![q] = "rejected"] /\ UNCHANGED member
  /\ UNCHANGED <<step, joinLock, unrejected, crossed>>

\* leaveNGO: one UPDATE of the membership's row, where there is one.
LeaveNgo(n) ==
  /\ member[n] # "none" /\ KeyFree(n)
  /\ member' = [member EXCEPT ![n] = "left"]
  /\ UNCHANGED <<asked, step, joinLock, unrejected, crossed>>

MembershipNext ==
  \/ \E q \in Asks : CheckAsk(q) \/ InsertAsk(q)
  \/ \E q \in Joins : \/ LockJoin(q) \/ GrantJoin(q) \/ FindOthers(q) \/ CommitJoin(q)
                      \/ FailJoin(q) \/ RejectJoin(q)
  \/ \E q, o \in Joins : TakeOther(q, o)
  \/ \E q \in Invites : Respond(q)
  \/ \E n \in AllNgos : LeaveNgo(n)

MembershipSpec == MembershipInit /\ [][MembershipNext]_membershipVars

-----------------------------------------------------------------------------
MembershipTypeOK ==
  /\ asked \in [Asks -> {"none", "pending", "approved", "rejected"}]
  /\ member \in [AllNgos -> {"none", "active", "left"}]
  /\ step \in [Asks -> {"idle", "checked", "locked", "granting", "rejecting"}]
  /\ joinLock \in [Joins -> Joins \cup {NoApproval}]
  /\ unrejected \in [Joins -> SUBSET Joins]
  /\ crossed \in BOOLEAN

\* "Volunteer is already active in another NGO": who was never invited belongs to
\* one NGO at a time, however many NGOs approve at once, although the check takes
\* no lock: approvals under way wait for each other's rows, and one is undone.
\* Only a join written between an approval's search for the others and its commit
\* escapes both.
OneNgoByJoining ==
  (~crossed /\ \A q \in Invites : asked[q] # "approved")
    => Cardinality({n \in AllNgos : member[n] = "active"}) <= 1
=============================================================================
