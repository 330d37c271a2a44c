-------------------------- MODULE MCServicesProofs --------------------------
(***************************************************************************)
(* The services together.  A step of one leaves the tables of every other  *)
(* as they are, so that seen through its own variables each behaves as it  *)
(* does alone: what is proved of a service by itself holds of the           *)
(* composition, for every value of every service's constants.              *)
(***************************************************************************)
EXTENDS MCServices, ServicesProofs, LockingProofs, TrustProofs

LEMMA EachStarts ==
  ServicesInit => /\ Init /\ SettlementInit /\ AccountsInit /\ OutboxInit
                  /\ TrustInit /\ IncidentsInit /\ ModerationInit /\ WebhookInit
                  /\ MembershipInit /\ SessionInit /\ CapacityInit
  BY DEF ServicesInit

LEMMA EachMovesAlone ==
  [ServicesNext]_servicesVars =>
    /\ [Next]_vars /\ [SettlementNext]_settlementVars /\ [AccountsNext]_accountVars
    /\ [OutboxNext]_outboxVars /\ [TrustNext]_trustVars /\ [IncidentsNext]_incidentVars
    /\ [ModerationNext]_moderationVars /\ [WebhookNext]_webhookVars
    /\ [MembershipNext]_membershipVars /\ [SessionNext]_sessionVars /\ [CapacityNext]_capacityVars
  BY Zenon DEF ServicesNext, Only, servicesVars

\* Composed, with whatever fairness: every service keeps to its own specification.
THEOREM EachServiceAlone ==
  ServicesSpec => /\ Spec /\ SettlementSpec /\ PayoutSpec /\ OutboxSpec /\ TrustSpec
                  /\ IncidentsSpec /\ ModerationSpec /\ WebhookSpec
                  /\ MembershipSpec /\ SessionSpec /\ CapacitySpec
  BY EachStarts, EachMovesAlone, PTL
     DEF ServicesSpec, Spec, SettlementSpec, PayoutSpec, OutboxSpec, TrustSpec, IncidentsSpec,
         ModerationSpec, WebhookSpec, MembershipSpec, SessionSpec, CapacitySpec

\* In every service, whatever the others do, the columns and the handlers' locals
\* keep to the values that the schema and the handlers know.
THEOREM ServicesAlwaysTyped == ServicesSpec => []ServicesTyped
  <1>1. /\ SettlementTypeOK /\ AccountsTypeOK /\ OutboxTypeOK /\ TrustTypeOK
        /\ IncidentsTypeOK /\ ModerationTypeOK /\ WebhookTypeOK
        /\ MembershipTypeOK /\ SessionTypeOK /\ CapacityTypeOK
        => ServicesTyped
    BY DEF ServicesTyped
  <1> QED
    BY <1>1, EachServiceAlone, SettlementTyped, AccountsTyped, OutboxTyped, TrustTyped,
       IncidentsTyped, ModerationTyped, WebhookTyped, MembershipTyped, SessionTypes,
       CapacityTyped, PTL
=============================================================================
