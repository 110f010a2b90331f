CONSTANTS
    b = b
    a = a
    u = u
    onyc = onyc
    usdc = usdc
    NoKey = NoKey
    RedemptionVault = RedemptionVault
    ProgramAuthority = ProgramAuthority
    I64_MAX = 7
    MAX_BASIS_POINTS = 4
    MAX_ALLOWED_FEE_BPS = 2
    PRICE_SCALE = 1
    MAX_TOKEN_SCALE = 2
    Keys = {b, a, u}
    Owners = {b, a, u, RedemptionVault}
    Mints = {onyc, usdc}
    MAX_ADMINS = 1
    UpgradeAuthority = b
    OnycMints = {onyc}
    ProposableKeys = {}
    AdminKeys = {}
    ApproverKeys = {}
    RedemptionKeys = {a}
    SupplyCaps = {}
    MintAmounts = {}
    Pairs <- BothWays
    Scale <- MCScale
    InitialBalance <- MCBalance
    Redeemers = {u}
    Amounts = {1, 2}
    Fees = {0, 2}
    Prices = {1}
    VaultAmounts = {1}
    WithdrawAmounts = {1}
    MAX_REQUESTS = 2
SPECIFICATION Spec
INVARIANTS
    LockedFundsCovered
