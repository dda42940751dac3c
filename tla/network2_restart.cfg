SPECIFICATION Spec
CONSTANTS
    Validators = {1, 2}
    Policy = "RoundRobin"
    Blocks <- SealTwice
    EmptyBlocks = {}
    InvalidBlocks = {}
    NoBlock = NoBlock
    PopsFirst <- HigherRoundFirst
    Running = {1, 2}
    EnvMsgs <- NoEnv
    Eager = {1, 2}
    Restarting = {1}
    Failing = {}
    Repeats = TRUE
    MaxRound = 0
CHECK_DEADLOCK FALSE
INVARIANTS
    ChainsAgree
PROPERTIES
    VotingSpec
