SPECIFICATION FairSpec
CONSTANTS
    NoSocket = NoSocket
    Sockets = {s1}
    MaxConcurrency = 1
    MaxDispatch = 1
    MaxNamed = 1
INVARIANTS
    ReportedIsGone
    ZombieOnlyIfMissed
    GhostOnlyByLateJoin
    PanicsOnlyIfNamed
    AnnouncedIsServed
PROPERTIES
    DisconnectReported
CHECK_DEADLOCK FALSE
