\* Three verifications of which two overlap and any may die, and two codes.
CONSTANTS
    Verifiers = {v1, v2, v3}
    Requesters = {r1, r2}
    Limit = 1
    Width = 2
    Fallible = {v1, v2, v3}
    Blank = Blank
    None = None
SPECIFICATION Spec
SYMMETRY Interchangeable
CHECK_DEADLOCK FALSE
INVARIANTS
    TypeOK
    GuessesAreCounted
    LockoutWithinWidth
    LoginsWithinWidth
    TokensAreOfOneAccount
