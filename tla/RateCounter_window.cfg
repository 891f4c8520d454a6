SPECIFICATION LoginSpec
CONSTANTS
    Client = {c1}
    Limit = 2
    Window = 4
    Horizon = 6
    MaxCount = 3
    Replica = {p1}
    e1 = e1
    Email = {e1}
    Mail <- OneMail
    Burst = 2
    Refill = 2
INVARIANTS
    TypeOK
    WindowBound
    PauseClears
    RetryAfterSuffices
    BucketBound
