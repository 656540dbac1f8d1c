SPECIFICATION Spec
CONSTANTS
    h = h
    g1 = g1
    g2 = g2
    ann = ann
    bob = bob
    cat = cat
    meg = meg
    ned = ned
    NoUser = NoUser
    Gateways = {h, g1, g2}
    Host = h
    Users = {ann, bob, meg, ned}
    Home <- MCHome
    Creator = ann
    Joined = {ann, bob, meg}
    Uses = 2
    Late = {}
    MayFail = {"join"}
    Slow = {"leave"}
    MaxCommands = 4
INVARIANTS
    MirrorsAgree
CHECK_DEADLOCK FALSE
