\* The cache without failures: window of 2 blocks, chains of up to 5 blocks.
SPECIFICATION Spec
CONSTANTS
    t1 = t1
    t2 = t2
    n1 = n1
    Tx <- MCTx
    ValidHeight <- MCValidHeight
    Nonce <- MCNonce
    CacheHeight = 2
    MaxHeight = 5
INVARIANTS
    TypeOK
    NoDoubleConfirm
    CacheIsWindow
