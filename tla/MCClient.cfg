SPECIFICATION Spec
CONSTANTS
    None = None
    Callers = {a}
    Calls = {"send", "handlers", "rooms", "close"}
    Connects = 2
    MaxMessages = 2
    BufferSize = 1
    BatchSizes = {1, 2}
    Attempts = 1
CHECK_DEADLOCK FALSE
INVARIANTS
    EndsAccounted
    ClosedIsFinal
    LockAccounted
    WrittenInOrder
PROPERTIES
    PipeSpec
