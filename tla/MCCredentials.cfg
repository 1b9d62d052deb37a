SPECIFICATION Spec
CONSTANTS
    Requests = {q1, q2, q3}
    Tokens = {t1, t2}
    Passwords = {p1, p2}
    Device = Device
    None = None
SYMMETRY MCSymmetry
INVARIANTS
    SessionsKnowThePassword
    TokenSpent
    NewestTokenStands
CHECK_DEADLOCK FALSE
