SPECIFICATION Spec
CONSTANTS
    Callers = {c1, c2}
    Messages = {m1, m2, m3}
    Cap = 1
INVARIANTS
    SingleCloser
    ConnClosedAfterPump
PROPERTIES
    PipeSpec
    CloseCompletes
