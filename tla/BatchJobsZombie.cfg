SPECIFICATION Spec
CONSTANTS
    NumJobs = 1
    NumItems = 1
    Addr = {a1, a2}
    NoAddr = NoAddr
    MaxFaults = 1
    MaxRestarts = 1
    UnexpectedErrors = TRUE
    ListMayTruncate = FALSE
CHECK_DEADLOCK FALSE
INVARIANTS
    StoppedJobResumable
