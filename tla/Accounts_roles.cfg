SPECIFICATION Spec
CONSTANTS
    e1 = e1
    e2 = e2
    Email = {e1, e2}
    Request = {r1, r2}
    Ask <- Asks
    LastId = 2
    NoEmail = NoEmail
    NoAsk = NoAsk
    NoRow = NoRow
INVARIANTS
    TypeOK
    RegisteredOnce
    AdminsComeFromOperators
    RegisteredAreUsers
PROPERTIES
    AnswersAreTrue
    ChangedByAdmins
