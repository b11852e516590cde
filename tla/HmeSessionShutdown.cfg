SPECIFICATION FairSpec
CONSTANTS
    console = console
    worker = worker
    maintenance = maintenance
    Reader = {maintenance}
    Writer = {}
    Creator = {worker}
    Alias = {a1}
    a1 = a1
    None = None
    ShrinkFloor = 0
    MaxChange = 1
    MaxOps = 2
    MaxExternal = 1
\* An idle process has nothing to do once the bounds are reached.
CHECK_DEADLOCK FALSE
PROPERTIES
    StopCompletes
