\* Two users, two coins, funds frozen for up to three blocks.
SPECIFICATION Spec
CONSTANTS
    u = u
    v = v
    t = t
    User <- MCUser
    Tag <- MCTag
    MaxTime = 3
    MaxMoney = 2
    MaxOp = 1
    MaxHeight = 3
    MaxCalls = 3
SYMMETRY Symmetry
INVARIANTS
    TypeOK
    FundsAreBacked
    UndoRestoresRecords
    TransferMovesAll
