\* Crashes, aborted blocks, torn writes and restarts: what still holds.
SPECIFICATION SpecC
CONSTANTS
    t1 = t1
    n1 = n1
    Tx <- MCTx
    ValidHeight <- MCValidHeight
    Nonce <- MCNonce
    CacheHeight = 3
    VerifyDepth = 1
    MaxHeight = 4
INVARIANTS
    WindowSurvives
    ScriptsInStep
