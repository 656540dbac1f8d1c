SPECIFICATION Spec
CONSTANTS
    alice = alice
    bob = bob
    Parties <- MCParties
    Podded = {alice}
    MaxSkip = 1
    MaxSkippedKeys = 1
    MaxTexts = 6
    MaxReloads = 1
CONSTRAINTS
    OneAtATime
    LongOnOnePage
INVARIANTS
    TypeOK
    LoadsNewest
    NoKeyIsReused
    NothingOpensTwice
    SpentKeysAreGone
    EveryMessageOpens
CHECK_DEADLOCK FALSE
