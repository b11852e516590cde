SPECIFICATION FairSpec
CONSTANTS
    NumJobs = 2
    NumItems = 2
    Alias = {a1, a2}
    MaxFaults = 1
    MaxErrors = 1
    MaxOps = 1
    MaxRestarts = 1
\* When every job has ended nothing is left to do.
CHECK_DEADLOCK FALSE
INVARIANTS
    IInv
    WritesRequiredState
PROPERTIES
    
    BulkEnds
