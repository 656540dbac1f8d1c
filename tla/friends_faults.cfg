SPECIFICATION Spec
CONSTANTS
    a = a
    b = b
    r1 = r1
    r2 = r2
    Gateways = {a, b}
    Requests = {r1, r2}
    Issuer <- MCIssuer
    Target <- MCTarget
    Insecure = {}
    Lossy = {"invite", "accept"}
    EarlyAnswers = TRUE
    AskContacts = FALSE
    Expiring = {"invite"}
    MaxRestarts = 1
    NoRow = NoRow
INVARIANTS
    OnePerRequest
    FailedAddsNobody
PROPERTIES
    AnswersAreFinal
CHECK_DEADLOCK FALSE
