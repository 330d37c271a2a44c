SPECIFICATION FairSpec
CONSTANTS
    r1 = r1
    r2 = r2
    ann = ann
    bob = bob
    Res = {r1}
    Users = {ann, bob}
    UserOf <- SameCustomer
    Qty <- OneItem
    Quantities = {1}
    Copies = {1}
    FaultKinds = {"crash"}
    MaxFaults = 1
    MaxEdits = 0
    EarlyPay = FALSE
    GatewayFails = FALSE
    Recovery = TRUE
CHECK_DEADLOCK FALSE
PROPERTY HoldsResolve
