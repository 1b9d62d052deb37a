SPECIFICATION Spec
CONSTANTS
    Requests = {q1, q2}
    Tokens = {t1}
    Passwords = {p1, p2}
    Device = Device
    None = None
INVARIANTS
    OneTimeToken
CHECK_DEADLOCK FALSE
