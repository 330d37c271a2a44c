SPECIFICATION IncidentsSpec
CONSTANTS
    Cases = {1, 2}
    Requests = {f1, f2}
CHECK_DEADLOCK FALSE
INVARIANT OneActiveIncident
