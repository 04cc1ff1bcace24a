CONSTANTS
    k1 = k1
    k2 = k2
    None = None
    Keys <- MCKeys
    KeyOrder <- MCKeyOrder
    MaxTopo = 4
SPECIFICATION SpecPrune
INVARIANTS OutputChainKept
