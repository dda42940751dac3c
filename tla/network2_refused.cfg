SPECIFICATION Spec
CONSTANTS
    Validators = {1, 2}
    Policy = "RoundRobin"
    Blocks <- NotStored
    EmptyBlocks <- EmptyBlock
    InvalidBlocks <- BadBlock
    NoBlock = NoBlock
    PopsFirst <- HigherRoundFirst
    Running = {1, 2}
    EnvMsgs <- NoEnv
    Eager = {}
    Restarting = {}
    Failing = {}
    Repeats = TRUE
    MaxRound = 1
CHECK_DEADLOCK FALSE
PROPERTIES
    VotingSpec
    ViewsAdvance
