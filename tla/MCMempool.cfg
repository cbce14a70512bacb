\* The pool and the miner over a window of 2 blocks and chains of up to 3.
SPECIFICATION Spec
CONSTANTS
    t1 = t1
    t2 = t2
    t3 = t3
    a = a
    b = b
    Tx <- MCTx
    ValidHeight <- MCValidHeight
    CacheHeight = 2
    MaxHeight = 3
    Account <- MCAccount
    Payer <- MCPayer
    Payee <- MCPayee
    Funds <- MCFunds
    HashOrder <- MCHashOrder
INVARIANTS
    TypeOK
    PoolFitsNextBlock
    PoolViewIsTipAndPool
PROPERTIES
    SolvedBlockConnects
