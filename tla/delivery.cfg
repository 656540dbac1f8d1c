SPECIFICATION Spec
CONSTANTS
    m1 = m1
    m2 = m2
    gw = gw
    ann = ann
    bob = bob
    s1 = s1
    Msgs = {m1}
    Tries <- MCTries
    Nonces <- MCNonces
    Users = {bob}
    GatewayDid = gw
    Socks = {s1}
    Dest <- DestBob
    Owner <- MCOwner
    QueueCap = 2
    RecipientCap = 2
    TotalCap = 4
    MayBlock = {bob}
    MaxKills = 1
    MaxRevokes = 1
    PassLimit = 2
    FlushLimit = 2
    MaxTries = 2
    MaxRestarts = 1
    NoMsg = NoMsg
INVARIANTS
    RowsAreWaiting
PROPERTIES
    DeliveryPromise
CHECK_DEADLOCK FALSE
