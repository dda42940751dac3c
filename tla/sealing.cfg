SPECIFICATION Spec
CONSTANTS
    Txs = {t1, t2}
    Ids = {1, 2, 3}
    MaxStops = 1
    MaxEarly = 0
    Nil = Nil
    None = None
INVARIANTS TypeOK PendingKnown
PROPERTIES CommitReturns TxIncluded
