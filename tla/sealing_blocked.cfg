SPECIFICATION Spec
CONSTANTS
    Txs = {t1}
    Ids = {1, 2, 3}
    MaxStops = 0
    MaxEarly = 1
    Nil = Nil
    None = None
PROPERTIES CommitReturns
CHECK_DEADLOCK FALSE
