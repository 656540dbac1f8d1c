SPECIFICATION Spec
CONSTANTS
    h = h
    g1 = g1
    g2 = g2
    ann = ann
    bob = bob
    meg = meg
    m1 = m1
    m2 = m2
    Gateways = {h, g1, g2}
    Host = h
    Users = {ann, bob, meg}
    Home <- MCHome
    Owner = ann
    Msgs = {m1, m2}
    Author <- MCAuthor
    Moderated = {meg}
    MaxEdits = 1
    MaxCommands = 4
    MaxFails = 1
INVARIANTS
    TypeOK
    DeletedStaysDeleted
    RefusedStaysOut
    EveryMessageArrives
    HistoriesMeet
CHECK_DEADLOCK FALSE
