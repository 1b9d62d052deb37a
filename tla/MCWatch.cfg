SPECIFICATION FairSpec
CONSTANTS
    ann = ann
    bob = bob
    a1 = a1
    a2 = a2
    b1 = b1
    Users = {ann, bob}
    Sockets = {a1, a2, b1}
    Rooms = {r1, r2}
    Admins = {bob}
    NoUser = NoUser
    MaxSockets = 2
    Owner <- MCOwner
INVARIANTS
    WatchersArePresent
PROPERTIES
    OthersDoNotEndIt
    KeepsWatchPromise
    LoneWatchersLeave
    HostlessSessionsEnd
