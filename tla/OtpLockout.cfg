\* Two verifications in flight at the last attempt.
CONSTANTS
    Verifiers = {v1, v2, v3}
    Requesters = {r1, r2}
    Limit = 2
    Width = 2
    Fallible = {}
    Blank = Blank
    None = None
SPECIFICATION Spec
CHECK_DEADLOCK FALSE
INVARIANTS
    LockoutAfterLimit
