SPECIFICATION Spec
CONSTANTS
    r1 = r1
    r2 = r2
    ann = ann
    bob = bob
    Res = {r1, r2}
    Users = {ann, bob}
    UserOf <- TwoCustomers
    Qty <- OneItem
    Quantities = {1, 2}
    Copies = {1}
    FaultKinds = {}
    MaxFaults = 0
    MaxEdits = 1
    EarlyPay = FALSE
    GatewayFails = FALSE
    Recovery = FALSE
CHECK_DEADLOCK FALSE
INVARIANTS
    StockConserved
    IInv
PROPERTY
    KeepsLedger
