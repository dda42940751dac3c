SPECIFICATION Spec
CONSTANTS
    n1 = n1
    n2 = n2
    n3 = n3
    n4 = n4
    Validators = {n1, n2, n3, n4}
    Blocks <- OneHeight
    EmptyBlocks = {}
    Rounds = {0, 1, 2, 3}
    Proposed <- ProposedAlternating
    Unreliable = {n3}
    NoBlock = NoBlock
CONSTRAINT OneSchedule
CHECK_DEADLOCK FALSE
INVARIANTS
    Agreement
