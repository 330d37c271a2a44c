----------------------------- MODULE Incidents -----------------------------
(***************************************************************************)
(* Incidents opened from one monitored source.  A record never changes: the*)
(* status of an incident is the to_status of its latest event, by the       *)
(* created_at of the event, which is the time its transaction BEGAN.       *)
(*                                                                         *)
(* A request reads the status in the statement that locks the record.  The*)
(* statement's snapshot is taken before it waits for the lock, and the     *)
(* transaction it waits for only inserts events and never changes the      *)
(* locked row, so READ COMMITTED has nothing to read again: a request that*)
(* waited decides on the status of before the wait.                        *)
(*                                                                         *)
(* IDENTIFIED and MITIGATING, which differ from INVESTIGATING in name only,*)
(* are left out, and so are assignments and notes: they touch no status.   *)
(***************************************************************************)
EXTENDS Integers, FiniteSets, FiniteSetsExt

CONSTANTS Cases,      \* incidents that may be opened
          Requests    \* requests of admins, each made once

ASSUME CasesAssumption == IsFiniteSet(Cases) /\ IsFiniteSet(Requests)

VARIABLES timeline,   \* [incident -> its status events, as [to, at]]
          lessons,    \* incidents with a postmortem
          lock,       \* [incident -> the request that holds its row]
          ticket,     \* [request -> its progress]
          ticks       \* transactions begun

incidentVars == <<timeline, lessons, lock, ticket, ticks>>

NoRequest == "free"
Blank == [at |-> "none", case |-> 0, want |-> "none", began |-> 0, seen |-> "none"]
Ended == [Blank EXCEPT !.at = "ended"]

Transitions == [OPEN |-> {"INVESTIGATING", "RESOLVED"}, INVESTIGATING |-> {"RESOLVED"},
                RESOLVED |-> {"CLOSED"}, CLOSED |-> {}]
ActiveStatuses == {"OPEN", "INVESTIGATING"}

Opened == {c \in Cases : timeline[c] # {}}

\* The latest event by created_at.
IncidentStatus(c) ==
  (CHOOSE e \in timeline[c] : \A f \in timeline[c] : f.at <= e.at).to

Active == {c \in Opened : IncidentStatus(c) \in ActiveStatuses}

NoneActive == Active = {}

-----------------------------------------------------------------------------
IncidentsInit ==
  /\ timeline = [c \in Cases |-> {}]
  /\ lessons = {}
  /\ lock = [c \in Cases |-> NoRequest]
  /\ ticket = [q \in Requests |-> Blank]
  /\ ticks = 0

\* createIncident: an advisory lock on the source, then the check for an active
\* incident of the source, both in one transaction.
CreateIncident(c) ==
  /\ timeline[c] = {} /\ NoneActive
  /\ timeline' = [timeline EXCEPT ![c] = {[to |-> "OPEN", at |-> ticks + 1]}]
  /\ ticks' = ticks + 1
  /\ UNCHANGED <<lessons, lock, ticket>>

\* BEGIN of transitionIncidentStatus, or of addIncidentPostmortem.
BeginRequest(q) ==
  /\ ticket[q] = Blank
  /\ \E c \in Opened, w \in {"INVESTIGATING", "RESOLVED", "CLOSED", "POSTMORTEM"} :
       ticket' = [ticket EXCEPT ![q] = [at |-> "begun", case |-> c, want |-> w,
                                          began |-> ticks + 1, seen |-> "none"]]
  /\ ticks' = ticks + 1
  /\ UNCHANGED <<timeline, lessons, lock>>

\* The SELECT ... FOR UPDATE starts: its snapshot is now, the lock perhaps later.
ReadIncident(q) ==
  /\ ticket[q].at = "begun"
  /\ LET c == ticket[q].case
         free == lock[c] = NoRequest
     IN /\ ticket' = [ticket EXCEPT ![q].at = IF free THEN "locked" ELSE "waiting",
                                      ![q].seen = IncidentStatus(c)]
        /\ lock' = IF free THEN [lock EXCEPT ![c] = q] ELSE lock
  /\ UNCHANGED <<timeline, lessons, ticks>>

\* The holder has committed: the row is unchanged, and what was read stands.
LockIncident(q) ==
  /\ ticket[q].at = "waiting" /\ lock[ticket[q].case] = NoRequest
  /\ lock' = [lock EXCEPT ![ticket[q].case] = q]
  /\ ticket' = [ticket EXCEPT ![q].at = "locked"]
  /\ UNCHANGED <<timeline, lessons, ticks>>

\* assertTransitionAllowed.
TransitionAllowed(seen, want) == want \in Transitions[seen]

EndRequest(q) ==
  /\ ticket' = [ticket EXCEPT ![q] = Ended]
  /\ lock' = [lock EXCEPT ![ticket[q].case] = NoRequest]
  /\ UNCHANGED ticks

\* Appends the event, with the created_at of the transaction, and commits; a
\* transition the table refuses rolls back.
WriteStatus(q) ==
  /\ ticket[q].at = "locked" /\ ticket[q].want # "POSTMORTEM"
  /\ LET r == ticket[q]
     IN timeline' = IF TransitionAllowed(r.seen, r.want)
                    THEN [timeline EXCEPT ![r.case] = @ \cup {[to |-> r.want, at |-> r.began]}]
                    ELSE timeline
  /\ UNCHANGED lessons
  /\ EndRequest(q)

WritePostmortem(q) ==
  /\ ticket[q].at = "locked" /\ ticket[q].want = "POSTMORTEM"
  /\ lessons' = IF ticket[q].seen \in {"RESOLVED", "CLOSED"}
                THEN lessons \cup {ticket[q].case} ELSE lessons
  /\ UNCHANGED timeline
  /\ EndRequest(q)

IncidentsNext ==
  \/ \E c \in Cases : CreateIncident(c)
  \/ \E q \in Requests : \/ BeginRequest(q) \/ ReadIncident(q) \/ LockIncident(q)
                         \/ WriteStatus(q) \/ WritePostmortem(q)

IncidentsSpec == IncidentsInit /\ [][IncidentsNext]_incidentVars

-----------------------------------------------------------------------------
IncidentsTypeOK ==
  /\ \A c \in Cases : \A e \in timeline[c] : e.to \in DOMAIN Transitions /\ e.at \in 1..ticks
  /\ lessons \subseteq Cases
  /\ lock \in [Cases -> Requests \cup {NoRequest}]
  /\ \A q \in Requests : ticket[q].case \in Cases \cup {0}
  /\ ticks \in 0..(Cardinality(Cases) + Cardinality(Requests))

\* However stale the status a request decides on: an incident once closed, or
\* reviewed in a postmortem, was resolved at some time.
ResolvedFirst ==
  \A c \in Opened :
    (c \in lessons \/ \E e \in timeline[c] : e.to = "CLOSED")
      => \E e \in timeline[c] : e.to = "RESOLVED"

\* What docs/operations/reliability-review-t83.md says of createIncident:
\* duplicate active incidents of a source are blocked, by the advisory lock and
\* the lookup.  It does not hold: a request that waited for the record writes
\* after a RESOLVED it did not see, and revives the incident beside one that was
\* created in between.
OneActiveIncident == Cardinality(Active) <= 1

\* What remains of it: of the incidents of one source that were never resolved,
\* at most one is active.
Unresolved == {c \in Active : \A e \in timeline[c] : e.to # "RESOLVED"}

OneUnresolvedIncident == Cardinality(Unresolved) <= 1

\* What the locks and the transition table keep of the monitored source's
\* incidents: ResolvedFirst and OneUnresolvedIncident.
IncidentsAgree == ResolvedFirst /\ OneUnresolvedIncident
=============================================================================
