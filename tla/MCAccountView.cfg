\* The caches implement the maps, whatever is read, written, flushed or lost.
SPECIFICATION Spec
CONSTANTS
    k1 = k1
    k2 = k2
    i1 = i1
    a1 = a1
    a2 = a2
    None = None
    Uncached = Uncached
    Key <- MCKey
    Id <- MCId
    Acct <- MCAcct
INVARIANTS
    TypeOK
    ResumesAtFlush
PROPERTY
    ImplementsMap
