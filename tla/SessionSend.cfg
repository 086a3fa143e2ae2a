\* A message while the peers, their keys and the epoch change.
CONSTANTS
    Peers = {p1}
    Me = Me
    Mounts = {m1}
    Conns = {m1}
    First = m1
    Rotations = {h1}
    Loads = {l1}
    Send = Send
    NoOne = NoOne
    MaxRetries = 0
    MaxEpoch = 2
    MaxKeys = 2
    MaxNotices = 2
SPECIFICATION Spec
CHECK_DEADLOCK FALSE
PROPERTIES
    SentToVerified
