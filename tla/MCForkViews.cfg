\* Fork checks in every order with moves of the tip, flushes and bad blocks.
SPECIFICATION SpecFork
CONSTANTS
    g = g
    a1 = a1
    a2 = a2
    a3 = a3
    a4 = a4
    x = x
    b1 = b1
    b2 = b2
    k1 = k1
    k2 = k2
    Nil = Nil
    Unread = Unread
    Block <- MCBlock
    Genesis = g
    Prev <- MCPrev
    Anc <- MCAnc
    Work <- MCWork
    Account = {k1, k2}
    Writes <- MCWrites
    Bad = {x}
    IntervalPos = 3
    MaxViews = 5
CONSTRAINT
    Settled
INVARIANTS
    TypeOKFork
    JudgedOnParent
