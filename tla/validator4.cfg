SPECIFICATION Spec
CONSTANTS
    Validators = {1, 2, 3, 4}
    Policy = "RoundRobin"
    Blocks <- FourBlocks
    EmptyBlocks = {}
    InvalidBlocks = {}
    NoBlock = NoBlock
    PopsFirst <- HigherRoundFirst
    Running = {4}
    EnvMsgs <- FourMsgs
    Eager = {4}
    Restarting = {}
    Failing = {}
    Repeats = TRUE
    MaxRound = 2
CHECK_DEADLOCK FALSE
INVARIANTS
    TypeOK
    OneVote
    LockedProposal
    StoredRequestsLater
    EachProposesOnce
PROPERTIES
    LockReleased
    ViewsAdvance
