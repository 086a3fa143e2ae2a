\* One message, two runs of the effect, a rotation, and two members of one name.
SPECIFICATION Spec
CONSTANTS
    x = x
    a = a
    b = b
    u1 = u1
    u2 = u2
    r1 = r1
    r2 = r2
    rot1 = rot1
    h1 = h1
    NoPrint = NoPrint
    NoEntry = NoEntry
    NoRun = NoRun
    OldTrust <- AnyLeft
    Me = Me
    Send = Send
    Names <- OneName
    Others <- TwoUsers
    Prints <- TwoPrints
    Entries <- Namesakes
    Runs <- TwoRuns
    First <- r1
    Rotations <- OneRotation
    Handlers <- OneHandler
    MaxEpoch = 2
    MaxBegun = 1
    MaxRounds = 1
SYMMETRY NamesakeSymmetry
INVARIANTS
    TypeOK
    RotationForgets
    
    NamesakesShareFingerprint
    TrustEndsWithRotation
CHECK_DEADLOCK FALSE
