SPECIFICATION FairSpec
CONSTANTS
    NumJobs = 2
    NumItems = 2
    Addr = {a1, a2, a3, a4, a5}
    NoAddr = NoAddr
    MaxFaults = 2
    MaxRestarts = 1
    UnexpectedErrors = FALSE
    ListMayTruncate = FALSE
\* Once every job is decided nothing is left to do.
CHECK_DEADLOCK FALSE
INVARIANTS
    NoRepeatedReserve
    SuccessBacked
    OneAliasPerItem
    TerminalSettled
    NoStrandedWork
PROPERTIES
    OnlyPreludeDrops
    JobsSettle
