CONSTANTS
    MainnetNet = MainnetNet
    TestnetNet = TestnetNet
    DevNet = DevNet
    Networks <- MCNetworks
    Mainnet = MainnetNet
    LowHeights = 30
SPECIFICATION Spec
INVARIANT DifficultyAboveMinimum
PROPERTY ScheduleMonotone
