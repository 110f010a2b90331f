CONSTANTS
    Squad = squad
    Deployer = deployer
    ProgramMint = programMint
    NoKey = nokey
    MaxDiscards = 2
SPECIFICATION Spec
INVARIANTS
    IntermediaryIsReady
PROPERTY UpgradeCompletes
CHECK_DEADLOCK FALSE
