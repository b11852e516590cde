SPECIFICATION FairSpec
CONSTANTS
    Late = {"late"}
    MaxKey = 3
    MaxOps = 2
    MaxFaults = 2
    CloudKeyAtStart = TRUE
\* Without a row in the database no thread of the control has anything to do.
CHECK_DEADLOCK FALSE
INVARIANTS
    IInv
PROPERTIES
    NoFreshReplacement
    NoFreshRemoval
    CloudOnlyKeyGuarded
    FreshIssueInstalled
    FreshMoveForward
    EdgeGetsKey
    ActiveRegistered
