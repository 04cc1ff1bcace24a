CONSTANTS
    a1 = a1
    a2 = a2
    None = None
    Accounts <- MCAccounts
    MaxTopo = 5
SPECIFICATION Spec
SYMMETRY MCSymmetry
INVARIANTS LookupFindsNewest
