SPECIFICATION Spec
CONSTANTS
    None = None
    Disconnect = Disconnect
    Ids = {p}
    Objects = {a, b}
    Rooms = {r}
    Handlers = {g, h}
    Callers = {c}
    MailboxSize = 1
SYMMETRY Symmetry
CHECK_DEADLOCK FALSE
INVARIANTS
    OrphanOnlyByLateSubscribe
    LeakOnlyByRespawn
PROPERTIES
    EventsExact
