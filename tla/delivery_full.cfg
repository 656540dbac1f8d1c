SPECIFICATION Spec
CONSTANTS
    m1 = m1
    m2 = m2
    gw = gw
    ann = ann
    bob = bob
    s1 = s1
    Msgs = {m1, m2}
    Tries <- MCTries
    Nonces <- MCNonces
    Users = {ann, bob}
    GatewayDid = gw
    Socks = {s1}
    Dest <- DestBoth
    Owner <- MCOwner
    QueueCap = 2
    RecipientCap = 2
    TotalCap = 1
    MayBlock = {}
    MaxKills = 0
    MaxRevokes = 0
    PassLimit = 2
    FlushLimit = 2
    MaxTries = 2
    MaxRestarts = 0
    NoMsg = NoMsg
INVARIANTS DeliveredIsTaken
CHECK_DEADLOCK FALSE
