SPECIFICATION Spec
CONSTANTS
    Message = {m1}
    Handler = {h1}
    Cron = {k1}
    None = None
    Page = 1
    MaxRows = 1
    MaxMail = 2
    MaxFaults = 0
    MaxChanges = 0
CHECK_DEADLOCK FALSE
INVARIANT AttachmentReadable
