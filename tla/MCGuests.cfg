SPECIFICATION Spec
CONSTANTS
    Guests = {g1, g2}
    Invites = {i1}
    Rooms = {r1, r2}
    Old = {r1}
    Busy = {g1}
    Names = {n1, n2}
    Joins = {q1, q2}
    MaxUses = 2
    None = None
CONSTRAINT MCBound
SYMMETRY MCSymmetry
INVARIANTS
    InvitesHold
    GuestsEnterByAdmission
    EndedGuestsAreGone
    OpenGuestsWillEnd
PROPERTIES
    KeepsGuestPromise
