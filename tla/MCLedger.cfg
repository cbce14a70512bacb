\* Blocks of one transaction, connected and undone in every order.
SPECIFICATION Spec
CONSTANTS
    alice = alice
    bob = bob
    None = None
    User = {alice, bob}
    Genesis <- MCGenesis
    Amount = {0, 1}
    Fee = {0, 1}
    Maturity = 1
    PosReward = 1
    IntervalPos = 1
    MaxDay = 2
    RemainHeight = 2
    Width = 10
    MaxHeight = 3
    MaxTxs = 1
INVARIANTS
    TypeOK
    Conservation
    CoinDaysEarned
    RegisteredIsFound
PROPERTY
    UndoRestoresWorth
