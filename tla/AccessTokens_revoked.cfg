SPECIFICATION Spec
CONSTANTS
    s1 = s1
    s2 = s2
    Replica = {a}
    Token = {t1}
    Kid <- Kids
    Secret = {s1, s2}
    Releases <- OneRelease
    TTL = 2
    AdminTTL = {0}
    Hour = 2
    Horizon = 7
    NoKid = NoKid
    NoSecret = NoSecret
    NoToken = NoToken
PROPERTIES
    RevokedRefused
