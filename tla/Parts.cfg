SPECIFICATION PartsSpec
CONSTANTS
    Request = {r1}
    Box = {b1, b2}
    Conn = {c1, c2, c3}
    None = None
    Folders = 2
    FetchLimit = 1
    MaxCodes = 1
    MaxMail = 2
    MaxFaults = 1
    MaxChanges = 1
    Scanner = {s1, s2}
    Slots = 1
    ConsoleSlots = 1
    CycleLimit = 1
    BridgeMail = 3
    Message = {m1, m2}
    Handler = {h1, h2}
    Cron = {k1}
    Page = 1
    MaxRows = 2
    Deliveries = 2
    MaxCaptures = 2
\* Without a configured mailbox nobody has anything to do.
CHECK_DEADLOCK FALSE
INVARIANTS
    PartsInvariant
    NoLostWakeup
    SeenIsIndexed
    ConnectionsAccounted
    PassedWasTaken
    BytesReadable
    KeptBytesNamed
    CaptureAlone
PROPERTIES
    LookupsEnd
    MailReachesIndex
    BridgeDrains
    NothingStays
    CapturesEnd
