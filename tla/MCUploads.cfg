SPECIFICATION Spec
CONSTANTS
    Members = {ann, bob}
    Guests = {gus}
    Admins = {ann}
    Groups = {r1}
    Dms = {d1}
    Party <- MCParty
    Uploads = {f1, f2, f3}
    Avatar = Avatar
    None = None
SYMMETRY MCSymmetry
INVARIANTS
    FilesMatch
    EndedIsGone
    ClosedDmsReopen
CHECK_DEADLOCK FALSE
