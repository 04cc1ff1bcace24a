CONSTANTS
    k1 = k1
    k2 = k2
    i1 = i1
    i2 = i2
    i3 = i3
    Contracts <- MCContracts
    Ids <- MCIds
    Tickers <- MCTickers
    Names <- MCNames
    Supplies = {5}
    NoSupply = NoSupply
    TICKER_LEN = 2
    NameMaxLen = 3
    GasLimit = 2
    COST_PER_TOKEN = 1
SPECIFICATION Spec
SYMMETRY MCSymmetry
INVARIANTS
    AssetCreatedOnce
    StoredAssetsWellFormed
