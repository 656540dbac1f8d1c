SPECIFICATION Spec
CONSTANTS
    h = h
    g1 = g1
    g2 = g2
    ann = ann
    bob = bob
    cat = cat
    meg = meg
    ned = ned
    NoUser = NoUser
    Gateways = {h, g1}
    Host = h
    Users = {ann, bob, cat, meg}
    Home <- MCHome
    Creator = ann
    Joined = {ann, bob, cat, meg}
    Uses = 1
    Late = {"kick","ban","unban","member_joined","member_left","owner_changed","delete_room","admitted","leave","join"}
    MayFail = {"join","admitted"}
    Slow = {"ban","delete","join","evict"}
    MaxCommands = 4
INVARIANTS
    TypeOK
    MirrorNeverHosts
    BannedIsOut
PROPERTIES
    OwnerHandsOver
CHECK_DEADLOCK FALSE
