CONSTANTS
    Width = 10
    MaxLen = 4
    MaxDecimals = 4
    Sizes <- MCSizes
    MaxCount = 2
    MaxDifficulty = 2100
SPECIFICATION Spec
INVARIANTS
    DifficultyShownTruncated
