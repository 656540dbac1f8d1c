SPECIFICATION FairSpec
CONSTANTS
    a = a
    b = b
    ann = ann
    bob = bob
    cat = cat
    s1 = s1
    s2 = s2
    s3 = s3
    Gateways = {a, b}
    Users = {ann, bob, cat}
    Home <- MCHome
    Socks = {s1, s2, s3}
    Owner <- MCOwner
    Calls = {1, 3}
    From <- MCFrom
    To <- MCTo
    Burst = 1
    Ordered = TRUE
    MayLose = {"offer","reply","answer"}
    MayClose = {s1, s3}
    NoSock = NoSock
    NoCall = NoCall
INVARIANTS
    TypeOK
    ClosedIsGone
    TalkHasSession
    ConnectedMayRedial
PROPERTIES
    NobodyIsLeftTalking
CHECK_DEADLOCK FALSE
