SPECIFICATION Spec
CONSTANTS
    NumJobs = 1
    NumItems = 1
    Addr = {a1, a2}
    NoAddr = NoAddr
    MaxFaults = 2
    MaxRestarts = 1
    UnexpectedErrors = FALSE
    ListMayTruncate = FALSE
CHECK_DEADLOCK FALSE
PROPERTIES
    CreatedCandidateKept
