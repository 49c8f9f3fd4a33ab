SPECIFICATION FairSpec
CONSTANTS
    None = None
    Disconnect = Disconnect
    Ids = {p}
    Objects = {a}
    Rooms = {r}
    Handlers = {h}
    Callers = {c}
    MailboxSize = 1
CHECK_DEADLOCK FALSE
PROPERTIES
    EventsDelivered
