CONSTANTS
    r1 = r1
    r2 = r2
    Runs = {r1, r2}
    Assignments <- MCAssignments
    MaxRetries = 2
    Funds = 3
SPECIFICATION Spec
INVARIANTS
    TypeOK
    DoneMeansMinted
    LeftoverApprovalMeansUnfinishedRun
PROPERTIES
    LedgerSpec
    OnlyTheChainRefuses
    RunsEnd
CHECK_DEADLOCK FALSE
