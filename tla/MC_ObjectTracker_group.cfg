CONSTANTS
    c1 = c1
    c2 = c2
    h1 = h1
    h2 = h2
    p1 = p1
    p2 = p2
    Callers <- MCCallers
    Hashes <- MCHashes
    Peers <- MCPeers
    ChanCap = 1
    Timeout = 1
    MaxGroups = 1
    NoGroup = NoGroup
    NoPeer = NoPeer
    NoHash = NoHash
SPECIFICATION Spec
PROPERTY
    GroupCancelOnlyGroup
