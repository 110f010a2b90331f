CONSTANTS
    b = b
    a = a
    u = u
    onyc = onyc
    usdc = usdc
    NoKey = NoKey
    ProgramAuthority = ProgramAuthority
    I64_MAX = 3
    MAX_BASIS_POINTS = 4
    MAX_ALLOWED_FEE_BPS = 2
    PRICE_SCALE = 1
    MAX_TOKEN_SCALE = 2
    Keys = {b, a, u}
    Mints = {onyc, usdc}
    MAX_ADMINS = 1
    UpgradeAuthority = b
    OnycMints = {onyc}
    ProposableKeys = {}
    AdminKeys = {}
    ApproverKeys = {a}
    RedemptionKeys = {}
    SupplyCaps = {4}
    MintAmounts = {2}
    Scale <- MCScale
    InitialBalance <- MCBalance
    Amounts = {1, 2}
    Fees = {0, 3, 5}
    Prices = {1}
    VaultAmounts = {1}
    OfferVault = OfferVault
    Intermediary = Intermediary
    Owners = {b, a, u, OfferVault, Intermediary}
    Pairs <- MCPairs
    Users = {u}
    Approvals <- MCApprovals
    MAX_TIME = 2
SPECIFICATION Spec
INVARIANTS
    TypeOK
PROPERTIES
    IntermediaryKeepsNothing
    PermissionlessIsDirect
    PaymentCountsOnce
    SupplyCapHolds
