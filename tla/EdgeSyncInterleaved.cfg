SPECIFICATION Spec
CONSTANTS
    Late = {}
    MaxKey = 3
    MaxOps = 3
    MaxFaults = 0
    CloudKeyAtStart = FALSE
\* Without a row in the database no thread of the control has anything to do.
CHECK_DEADLOCK FALSE
PROPERTIES NoUnconfirmedReplacement
