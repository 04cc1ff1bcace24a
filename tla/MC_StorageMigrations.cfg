CONSTANTS
    Binaries <- MCBinaries
    OldVersions <- MCOldVersions
    NoVersion = NoVersion
SPECIFICATION Spec
INVARIANTS
    MarkedImpliesMigrated
