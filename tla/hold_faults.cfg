SPECIFICATION Spec
CONSTANTS
    r1 = r1
    r2 = r2
    ann = ann
    bob = bob
    Res = {r1}
    Users = {ann, bob}
    UserOf <- SameCustomer
    Qty <- OneAndTwo
    Quantities = {2, 3}
    Copies = {1, 2}
    FaultKinds = {"session", "crash", "cleanup", "commit", "enqueue"}
    MaxFaults = 2
    MaxEdits = 0
    EarlyPay = TRUE
    GatewayFails = TRUE
    Recovery = TRUE
CHECK_DEADLOCK FALSE
INVARIANTS
    PaymentsAgree
    StockFollowsReservation
    CapturedOnly
PROPERTIES
    TriggerNeverFires
    ClosedStaysClosed
