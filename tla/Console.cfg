CONSTANTS
    Squad = squad
    Wallet = wallet
    Spare = spare
    NoKey = nokey
    MaxHandOvers = 2
    MaxBasisPoints = 1
SPECIFICATION Spec
INVARIANTS
    SentMeansLanded
    DangerousNeedsConsent
    PromptedNumberAsTyped
    CopiedForTheBoss
PROPERTY SessionEnds
CHECK_DEADLOCK FALSE
