\* Two transactions in a block: one of them cannot be undone.
SPECIFICATION Spec
CONSTANTS
    alice = alice
    bob = bob
    None = None
    User = {alice, bob}
    Genesis <- MCGenesis
    Amount = {1}
    Fee = {0, 1}
    Maturity = 1
    PosReward = 1
    IntervalPos = 1
    MaxDay = 2
    RemainHeight = 2
    Width = 64
    MaxHeight = 2
    MaxTxs = 2
INVARIANT
    UndoFindsAccounts
