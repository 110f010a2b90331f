CONSTANTS
    k1 = k1
    k2 = k2
    k3 = k3
    onyc = onyc
    NoKey = NoKey
    Keys = {k1, k2, k3}
    MAX_ADMINS = 2
    UpgradeAuthority = k1
    OnycMints = {onyc}
    ProposableKeys = {k1, k2, k3}
    AdminKeys = {k1, k2, k3}
    ApproverKeys = {k2, k3}
    RedemptionKeys = {k2, k3, NoKey}
    SupplyCaps = {0, 5}
SPECIFICATION Spec
SYMMETRY KeySymmetry
INVARIANTS
    TypeOK
    ProposalIsCurrentBosses
PROPERTIES
    RemovedAdminIsGone
    RemovedApproverIsGone
