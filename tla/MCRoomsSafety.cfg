SPECIFICATION Spec
CONSTANTS
    Nil = Nil
    Sockets = {s1}
    Names = {lobby, game}
    Ids = {i1, i2}
    Threads = {t1, t2}
SYMMETRY Symmetry
INVARIANTS
    LostOnlyToRemoveRoom
PROPERTIES
    LeaveAllComplete
    MembershipSpec
