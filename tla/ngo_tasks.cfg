SPECIFICATION Spec
CONSTANTS
    ann = ann
    ben = ben
    v1 = v1
    Res = {ann, ben}
    NgoOf <- OwnName
    Reqs = {ann, ben}
    AskedOf <- OwnName
    Vols = {v1}
    Offered = 2
    Deposits = {TRUE}
    MaxStarts = 2
    MaxDeaths = 1
CHECK_DEADLOCK FALSE
SYMMETRY Swap
INVARIANTS
    TypeOK OneTaskEach StatisticsAgree RequestsAgree
PROPERTIES
    DecidedOnce KeepsLedger
