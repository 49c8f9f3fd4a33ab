SPECIFICATION FairSpec
CONSTANTS
    Nil = Nil
    Sockets = {s1, s2}
    Names = {lobby}
    Ids = {i1, i2}
    Threads = {t1, t2}
INVARIANTS
    EmptyRoomAccounted
PROPERTIES
    BroadcastReachesMembers
    EmptyRoomResolved
