SPECIFICATION Spec
CONSTANTS
    Validators = {1, 2}
    Policy = "RoundRobin"
    Blocks <- TwoBlocks
    EmptyBlocks = {}
    InvalidBlocks = {}
    NoBlock = NoBlock
    PopsFirst <- HigherRoundFirst
    Running = {1, 2}
    EnvMsgs <- NoEnv
    Eager = {}
    Restarting = {}
    Failing = {2}
    Repeats = TRUE
    MaxRound = 1
CHECK_DEADLOCK FALSE
INVARIANTS
    ChainsAgree
    ProofOfLock
PROPERTIES
    VotingSpec
