SPECIFICATION FairSpec
CONSTANTS
    Token = {t1, t2, t3}
    User = {u1}
    Request = {r1, r2}
    NoToken = NoToken
    NoUser = NoUser
INVARIANTS
    TypeOK
    OneUsableToken
    NoSurvivor
PROPERTIES
    ActsAtomically
    EveryRefreshEnds
