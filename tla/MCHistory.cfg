SPECIFICATION Spec
CONSTANTS
    Members = {ann, bob}
    Guests = {gus}
    Admins = {ann}
    Groups = {r1}
    System = System
    MaxMessages = 3
INVARIANTS
    UnreadIsWhatIsNew
    GuestsSeeFromAdmission
CHECK_DEADLOCK FALSE
