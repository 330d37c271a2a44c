SPECIFICATION FairSpec
CONSTANTS
    MaxIds = 3
    Attempts = 2
    MaxCrashes = 1
    Lose = {TRUE, FALSE}
CHECK_DEADLOCK FALSE
INVARIANTS
    OneRefund SaysTruth RefundHasCause
PROPERTY
    RefundReported
