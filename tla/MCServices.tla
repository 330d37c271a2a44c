------------------------------ MODULE MCServices ------------------------------
(***************************************************************************)
(* One small instance of each service that keeps tables of its own, for    *)
(* TLC.  The services share no table: a step of one neither reads nor       *)
(* writes what another one has, so every behaviour of all of them together, *)
(* seen through one service's variables, is a behaviour of that service     *)
(* alone.  part says which one moves; the others stay as they began.       *)
(* NgoTasks is here with a single NGO, for its liveness and its deposits.  *)
(***************************************************************************)
EXTENDS NgoTasks, Settlement, PayoutAccounts, Outbox, Trust, Incidents, Moderation,
        WebhookLog, Membership, Sessions, Capacity

CONSTANTS r1, q1, v1, ann

VARIABLE part

OneNgo   == [r \in Res |-> ann]
AskHer   == [q \in Reqs |-> ann]
Due      == <<1, 2, 1>>
\* the third event comes after the two weeks that let a penalty decay
Created  == <<1, 2, 400>>
Episodes == [volunteer |-> {"volunteer_delivery_completed", "volunteer_delivery_failed"},
             provider  |-> {"provider_successful_fulfillment", "provider_report_validated"}]

\* two NGOs: two requests to join the first, one to join the second, which invites
TwoNgos == [q \in {"j1", "j2", "j3", "i1"} |-> IF q \in {"j1", "j3"} THEN 1 ELSE 2]

\* an NGO: two rows at once while trusted, one that it pays for when less so
Baskets == [w \in {"w1", "w2", "w3"} |->
              CASE w = "w1" -> {"e1", "e2"} [] w = "w2" -> {"e3"} [] w = "w3" -> {"e4"}]
NgoLimits == [trusted |-> 2, paying |-> 1, blocked |-> 0]

servicesVars == <<part, vars, settlementVars, accountVars, outboxVars, trustVars,
                  incidentVars, moderationVars, webhookVars,
                  membershipVars, sessionVars, capacityVars>>

Parts == {"ngo", "settlement", "accounts", "outbox", "trust", "incidents",
          "moderation", "webhook", "membership", "sessions", "capacity"}

ServicesInit ==
    /\ part \in Parts
    /\ Init /\ SettlementInit /\ AccountsInit /\ OutboxInit
    /\ TrustInit /\ IncidentsInit /\ ModerationInit /\ WebhookInit
    /\ MembershipInit /\ SessionInit /\ CapacityInit
    /\ part # "trust" => subject = "provider"
    /\ part # "settlement" => payable
    /\ part # "capacity" => level = "trusted"

\* p moves, and the others do not.
Only(p) ==
    /\ part = p /\ UNCHANGED part
    /\ p # "ngo"        => UNCHANGED vars
    /\ p # "settlement" => UNCHANGED settlementVars
    /\ p # "accounts"   => UNCHANGED accountVars
    /\ p # "outbox"     => UNCHANGED outboxVars
    /\ p # "trust"      => UNCHANGED trustVars
    /\ p # "incidents"  => UNCHANGED incidentVars
    /\ p # "moderation" => UNCHANGED moderationVars
    /\ p # "webhook"    => UNCHANGED webhookVars
    /\ p # "membership" => UNCHANGED membershipVars
    /\ p # "sessions"   => UNCHANGED sessionVars
    /\ p # "capacity"   => UNCHANGED capacityVars

ServicesNext ==
    \/ Only("ngo")        /\ Next
    \/ Only("settlement") /\ SettlementNext
    \/ Only("accounts")   /\ AccountsNext
    \/ Only("outbox")     /\ OutboxNext
    \/ Only("trust")      /\ TrustNext
    \/ Only("incidents")  /\ IncidentsNext
    \/ Only("moderation") /\ ModerationNext
    \/ Only("webhook")    /\ WebhookNext
    \/ Only("membership") /\ MembershipNext
    \/ Only("sessions")   /\ SessionNext
    \/ Only("capacity")   /\ CapacityNext

\* Fairness of NgoTasks and OutboxFairness, of the part that moves.
ServicesFairness ==
    /\ WF_vars(Only("ngo") /\ Tick) /\ WF_vars(Only("ngo") /\ ExpireListing)
    /\ \A r \in Res :
        /\ WF_vars(Only("ngo") /\ SchedulePickup(r))
        /\ WF_vars(Only("ngo") /\ ScheduleDelivery(r))
        /\ WF_vars(Only("ngo") /\ PickupTimeout(r))
        /\ WF_vars(Only("ngo") /\ DeliveryTimeout(r))
        /\ WF_vars(Only("ngo") /\ (ReleaseHold(r) \/ ProcessPaid(r)))
        /\ WF_vars(Only("ngo") /\ QueueRefund(r))
    /\ \A m \in Mails : WF_outboxVars(Only("outbox") /\ LeaseEnds(m))
    /\ \A w \in Sweepers :
        /\ WF_outboxVars(Only("outbox") /\ Sweep(w))
        /\ WF_outboxVars(Only("outbox") /\ Mark(w))
        /\ WF_outboxVars(Only("outbox") /\ \E m \in Mails : Deliver(w, m))

ServicesSpec == ServicesInit /\ [][ServicesNext]_servicesVars /\ ServicesFairness

\* Every column and every local of the handlers keeps to the values the schema
\* and the handlers know, in each service.
ServicesTyped ==
    /\ SettlementTypeOK /\ AccountsTypeOK /\ OutboxTypeOK /\ TrustTypeOK
    /\ IncidentsTypeOK /\ ModerationTypeOK /\ WebhookTypeOK
    /\ MembershipTypeOK /\ SessionTypeOK /\ CapacityTypeOK

===============================================================================
