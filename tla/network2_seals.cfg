SPECIFICATION Spec
CONSTANTS
    Validators = {1, 2}
    Policy = "RoundRobin"
    Blocks <- TwoBlocks
    EmptyBlocks = {}
    InvalidBlocks = {}
    NoBlock = NoBlock
    PopsFirst <- HigherRoundFirst
    Running = {1, 2}
    EnvMsgs <- NoEnv
    Eager = {1, 2}
    Restarting = {}
    Failing = {}
    Repeats = FALSE
    MaxRound = 1
CHECK_DEADLOCK FALSE
INVARIANTS
    ChainVerifies
