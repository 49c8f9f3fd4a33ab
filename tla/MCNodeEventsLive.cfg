SPECIFICATION FairSpec
CONSTANTS
    None = None
    Disconnect = Disconnect
    Ids = {p}
    Objects = {a}
    Rooms = {r}
    Handlers = {g, h}
    Callers = {c}
    MailboxSize = 1
CHECK_DEADLOCK FALSE
PROPERTIES
    StuckHandlerExplained
    LockStuckOnlyByHandler
    StoppedNodeEnds
