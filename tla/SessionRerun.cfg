\* Overlapping runs of the mounting effect, a rotation, and no peers.
CONSTANTS
    Peers = {}
    Me = Me
    Mounts = {m1, m2}
    Conns = {m1, m2}
    First = m1
    Rotations = {h1}
    Loads = {}
    Send = Send
    NoOne = NoOne
    MaxRetries = 1
    MaxEpoch = 2
    MaxKeys = 0
    MaxNotices = 1
SPECIFICATION Spec
CHECK_DEADLOCK FALSE
INVARIANTS
    TypeOK
    KeyOfOneEpoch
    OpenHasKeys
    NeverStranded
    RevivedAtMostOnce
    OneConnection
    KeysMatchEpoch
