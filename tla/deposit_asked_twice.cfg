SPECIFICATION Spec
CONSTANTS
    MaxIds = 2
    Attempts = 2
    MaxCrashes = 0
    Lose = {FALSE}
CHECK_DEADLOCK FALSE
INVARIANT
    AskedOnce
