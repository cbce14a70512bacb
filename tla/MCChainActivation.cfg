\* Every order of arrival, every choice of bad blocks, one crash or failure.
SPECIFICATION FairSpec
CONSTANTS
    g = g
    a1 = a1
    a2 = a2
    b1 = b1
    b2 = b2
    b3 = b3
    Nil = Nil
    Block <- MCBlock
    Genesis = g
    Prev <- MCPrev
    Anc <- MCAnc
    Work <- MCWork
    Address <- MCAddress
    Verdicts <- MCVerdicts
    MaxCrashes = 1
INVARIANTS
    TypeOK
    BestValidTip
    ActiveNeverFailed
    PoolCheckedAfterReorg
CONSTRAINT
    Unharmed
    OnePlaceAtFirst
PROPERTY
    ActivationEnds
