SPECIFICATION Spec
CONSTANTS
    n1 = n1
    n2 = n2
    n3 = n3
    n4 = n4
    Validators = {n1, n2, n3}
    Blocks <- TwoHeights
    EmptyBlocks = {}
    Rounds = {0, 1, 2}
    Proposed <- ProposedPOL
    Unreliable = {n1}
    NoBlock = NoBlock
SYMMETRY Symmetry
CONSTRAINT FewFinished
CHECK_DEADLOCK FALSE
INVARIANTS
    Agreement
    Invariant
