SPECIFICATION SysSpec
CONSTANTS
    Accounts = {creator}
    Creator = creator
    Names = {root}
    Root = root
    EmptyName = EmptyName
    NoName = NoName
    Nobody = Nobody
    Asked = {{"nodeAdmin"}}
    k1 = k1
    K1 = K1
    k2 = k2
    n1 = n1
    n2 = n2
    Keys = {k1, K1, k2}
    Lower <- LowerCase
    NoKey = NoKey
    Parts = {n1, n2, Blank, dbKey}
    Blank = Blank
    dbKey = dbKey
    JsonText = JsonText
    NodeNames <- SomeNames
    Quoted = {k2}
    NoNode = NoNode
    Endpoints <- OneHost
    MaxListed = 3
CONSTRAINT Work
CHECK_DEADLOCK FALSE
INVARIANTS
    NodeTypeOK
    KeysUnique
    PassedDistinct
PROPERTIES
    RegisteredOnce
    NormalNodesStay
