SPECIFICATION Spec
CONSTANTS
    r1 = r1
    r2 = r2
    ann = ann
    bob = bob
    Res = {r1, r2}
    Users = {ann, bob}
    UserOf <- SameCustomer
    Qty <- OneItem
    Quantities = {2}
    Copies = {1, 2}
    FaultKinds = {"session"}
    MaxFaults = 1
    MaxEdits = 0
    EarlyPay = FALSE
    GatewayFails = FALSE
    Recovery = FALSE
CHECK_DEADLOCK FALSE
SYMMETRY SwapRows
INVARIANT OneLiveReservation
