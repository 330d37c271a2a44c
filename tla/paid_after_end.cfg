SPECIFICATION Spec
CONSTANTS
    r1 = r1
    r2 = r2
    ann = ann
    bob = bob
    Res = {r1}
    Users = {ann, bob}
    UserOf <- SameCustomer
    Qty <- OneItem
    Quantities = {1}
    Copies = {1}
    FaultKinds = {}
    MaxFaults = 0
    \* with 0 the listing cannot be deleted, and expires instead
    MaxEdits = 1
    EarlyPay = FALSE
    GatewayFails = FALSE
    Recovery = TRUE
CHECK_DEADLOCK FALSE
INVARIANT NoReservationOnEndedListing
