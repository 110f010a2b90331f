CONSTANTS
    MAX_VECTORS = 3
    SECONDS_IN_YEAR = 4
    APR_SCALE = 1
    I64_MAX = 15
    MAX_TIME = 5
    StartTimes = {1, 2, 3, 4, 5}
    BaseTimes = {0, 1, 3, 4}
    VectorShapes <- MCVectorShapes
SPECIFICATION Spec
INVARIANTS
    TypeOK
    UniqueStartTimes
    RepriceNeverBlocked
PROPERTIES
    HistoryKept
    ActiveOnlyMovesForward
    NavHoldsUntilAnnouncedChange
    PriceNeverFallsWithinVector
    AdjustmentHoldsWhileActive
