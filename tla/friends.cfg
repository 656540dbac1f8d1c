SPECIFICATION Spec
CONSTANTS
    a = a
    b = b
    r1 = r1
    r2 = r2
    Gateways = {a, b}
    Requests = {r1, r2}
    Issuer <- MCIssuer
    Target <- MCTarget
    Insecure = {}
    Lossy = {"invite", "decline", "withdraw"}
    EarlyAnswers = FALSE
    AskContacts = TRUE
    Expiring = {"decline", "withdraw"}
    MaxRestarts = 0
    NoRow = NoRow
INVARIANTS
    FriendTypeOK
    ContactIsMutual
    WithdrawnAddsNobody
CHECK_DEADLOCK FALSE
