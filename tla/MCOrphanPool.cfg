\* Every order of arrival, acceptance and restart.
SPECIFICATION Spec
CONSTANTS
    g = g
    a1 = a1
    a2 = a2
    a3 = a3
    a4 = a4
    b1 = b1
    b2 = b2
    b3 = b3
    b4 = b4
    Block <- MCBlock
    Genesis = g
    Prev <- MCPrev
    Height <- MCHeight
    MaxOrphans = 2
INVARIANTS
    TypeOK
    NoDanglingOrphan
    OrphansBounded
    StrandedOnlyByFailure
