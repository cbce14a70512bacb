\* Checkpoints and blocks in every order, one restart at any point.
SPECIFICATION Spec
CONSTANTS
    g = g
    a1 = a1
    a2 = a2
    a3 = a3
    c2 = c2
    b1 = b1
    b2 = b2
    Nil = Nil
    Block <- MCBlock
    Genesis = g
    Prev <- MCPrev
    Anc <- MCAnc
    Work <- MCWork
    Official = a3
    Address <- MCAddress
    MaxRestarts = 1
INVARIANTS
    TypeOK
    LockedIn
    BestLocked
