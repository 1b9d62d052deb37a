SPECIFICATION Spec
CONSTANTS
    ann = ann
    bob = bob
    Names <- MCNames
    Guests = {g1}
    Rooms = {r1}
    Legacy <- MCLegacy
    None = None
INVARIANTS
    TypeOK
    AtMostOneMaster
    MasterIsInGeneral
    CreatorsAreSeated
PROPERTIES
    AdminsAreTheMastersToMake
    MasterStaysWhileThereIsAnAdmin
