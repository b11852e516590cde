SPECIFICATION Spec
CONSTANTS
    NumJobs = 1
    NumItems = 2
    Addr = {a1, a2, a3, a4}
    NoAddr = NoAddr
    MaxFaults = 3
    MaxRestarts = 3
    UnexpectedErrors = TRUE
    ListMayTruncate = TRUE
SYMMETRY AddrSymmetry
\* An idle worker whose jobs are all decided stops.
CHECK_DEADLOCK FALSE
INVARIANTS
    WorkerInv
    DoubtStopsReplay
PROPERTIES
    KnownCandidateStaysMarked
