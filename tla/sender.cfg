SPECIFICATION FairSenderSpec
CONSTANTS
    m1 = m1
    m2 = m2
    Msgs = {m1, m2}
    Tries <- MCTries
    Nonces <- MCNonces
    PassLimit = 1
    FlushLimit = 2
    MaxTries = 2
    MaxRestarts = 0
    NoMsg = NoMsg
INVARIANTS
    SenderOpenTypeOK
    WaitingIsKept
PROPERTIES
    OutcomeIsFinal
    WaitingIsSettled
CHECK_DEADLOCK FALSE
