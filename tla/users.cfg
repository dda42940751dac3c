SPECIFICATION UserSpec
CONSTANTS
    Accounts = {creator, a1, a2}
    Creator = creator
    Names = {root, n1, n2}
    Root = root
    EmptyName = EmptyName
    NoName = NoName
    Nobody = Nobody
    Asked = {{"chainAdmin"}, {"nodeAdmin"}, {"contractCaller"}}
SYMMETRY Symmetry
CONSTRAINT FewDeeds
CHECK_DEADLOCK FALSE
INVARIANTS
    TypeOK
    
    NamesIndexed
    NamesUnique
    UsersApproved
PROPERTIES
    RolesRuled
    DeletedForGood
