SPECIFICATION Spec
CONSTANTS
    Accounts = {o1, o2, o3}
    Plain = {alice}
    Contracts = {vault}
    Values = {1, 2}
    MaxTx = 2
    MaxDepth = 2
    Funds = 2
SYMMETRY Symmetry
CHECK_DEADLOCK FALSE
INVARIANTS
    TypeOK
    PaidOnce
    ExecutedConfirmed
    PendingUnconfirmed
PROPERTIES
    ConfirmationsFinal
