CONSTANTS
    Squad = squad
    Wallet = wallet
    Spare = spare
    NoKey = nokey
    MaxHandOvers = 2
    MaxBasisPoints = 1
SPECIFICATION Spec
INVARIANT BuildersResolve
CHECK_DEADLOCK FALSE
