SPECIFICATION FairSpec
CONSTANTS
    ann = ann
    bob = bob
    a1 = a1
    a2 = a2
    b1 = b1
    Users = {ann, bob}
    Sockets = {a1, a2, b1}
    Rooms = {r1, r2}
    NoUser = NoUser
    NoRoom = NoRoom
    MaxSockets = 2
    Owner <- MCOwner
INVARIANTS
    CallersAreMembers
    OneCallAtATime
    SharerIsInTheCall
    AloneTimerMatches
    NoGhostCallers
PROPERTIES
    OtherSocketKeepsTheCall
    KeepsCallPromise
    AloneCallsEnd
    DeadClientsLeave
