CONSTANTS
    I64_MAX = 31
    MAX_BASIS_POINTS = 5
    MAX_ALLOWED_FEE_BPS = 2
    PRICE_SCALE = 4
    MAX_TOKEN_SCALE = 4
    Amounts = {0, 1, 2, 3, 5, 7, 10, 13}
    Prices = {0, 1, 3, 4, 6, 9}
    Fees = {0, 1, 2, 5}
    Scales = {1, 2, 4, 8}
SPECIFICATION Spec
INVARIANTS
    FeeNeverExceedsAmount
    SplittingSavesNoFee
    SplittingBuysNoMore
    RoundTripNeverProfits
