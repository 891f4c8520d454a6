SPECIFICATION Spec
CONSTANTS
    s1 = s1
    s2 = s2
    Replica = {a, b}
    Token = {t1}
    Kid <- Kids
    Secret = {s1, s2}
    Releases <- Steps
    TTL = 4
    AdminTTL = {0, 1}
    Hour = 6
    Horizon = 14
    NoKid = NoKid
    NoSecret = NoSecret
    NoToken = NoToken
SYMMETRY Interchangeable
INVARIANTS
    TypeOK
    LiveTokensAccepted
    LogoutHolds
PROPERTIES
    LooksLikeOneServer
