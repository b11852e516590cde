SPECIFICATION FairSpec
CONSTANTS
    Late = {"late"}
    MaxKey = 3
    MaxOps = 2
    MaxFaults = 1
    CloudKeyAtStart = FALSE
\* Without a row in the database no thread of the control has anything to do.
CHECK_DEADLOCK FALSE
PROPERTIES RotationConverges
