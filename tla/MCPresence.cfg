SPECIFICATION FairSpec
CONSTANTS
    ann = ann
    bob = bob
    Users = {ann, bob}
    Sockets = {a1, a2}
    Rooms = {r1, r2}
    NoUser = NoUser
    NoRoom = NoRoom
    MaxSockets = 1
    Owner <- MCOwner
INVARIANTS
    PresenceIsReal
    SocketCap
PROPERTIES
    PresenceEnds
