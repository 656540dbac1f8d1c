SPECIFICATION FairSpec
CONSTANTS
    a = a
    b = b
    r1 = r1
    r2 = r2
    Gateways = {a, b}
    Requests = {r1}
    Issuer <- MCIssuer
    Target <- MCTarget
    Insecure = {}
    Lossy = {"accept", "decline", "withdraw"}
    EarlyAnswers = FALSE
    AskContacts = FALSE
    Expiring = {}
    MaxRestarts = 0
    NoRow = NoRow
PROPERTIES
    DeclineIsHeard
    WithdrawalIsHeard
CHECK_DEADLOCK FALSE
