SPECIFICATION FairReceiverSpec
CONSTANTS
    m0 = m0
    m1 = m1
    m2 = m2
    m3 = m3
    n1 = n1
    n2 = n2
    gw = gw
    ann = ann
    bob = bob
    s1 = s1
    s2 = s2
    Msgs = {m0, m1, m2}
    Nonces = {n1, n2}
    Tries = {1}
    Users = {ann, bob}
    GatewayDid = gw
    Socks = {s1}
    Dest <- DestBoth
    Owner <- OwnerBob
    QueueCap = 1
    RecipientCap = 1
    TotalCap = 2
    MayBlock = {bob}
    MaxKills = 1
    MaxRevokes = 1
INVARIANTS
    ReceiverOpenTypeOK
    OneCopy
    DroppedStaysDropped
    QueueInOrder
PROPERTIES QueuedIsDrained
CHECK_DEADLOCK FALSE
