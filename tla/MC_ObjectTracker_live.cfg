CONSTANTS
    c1 = c1
    c2 = c2
    h1 = h1
    h2 = h2
    p1 = p1
    p2 = p2
    Callers <- MCCallers
    Hashes <- MCHashes
    Peers <- MCOnePeer
    ChanCap = 1
    Timeout = 1
    MaxGroups = 0
    NoGroup = NoGroup
    NoPeer = NoPeer
    NoHash = NoHash
SPECIFICATION Spec
PROPERTIES
    EveryRequestAnswered
