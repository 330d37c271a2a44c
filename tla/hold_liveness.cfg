SPECIFICATION FairSpec
CONSTANTS
    r1 = r1
    r2 = r2
    ann = ann
    bob = bob
    Res = {r1}
    Users = {ann, bob}
    UserOf <- SameCustomer
    Qty <- OneAndTwo
    Quantities = {2}
    Copies = {1}
    FaultKinds = {"session", "commit"}
    MaxFaults = 1
    MaxEdits = 1
    EarlyPay = FALSE
    GatewayFails = FALSE
    Recovery = TRUE
CHECK_DEADLOCK FALSE
PROPERTIES
    HoldsResolve
    CapturedMoneySettles
    RefundsComplete
