SPECIFICATION FairSpec
CONSTANTS
    Request = {r1, r2}
    MaxOpen = 2
    MaxUses = 2
    Grace = 1
INVARIANTS
    TypeOK
    AnsweredIsLogged
    NoneCutEarly
PROPERTIES
    ShutdownEnds
    DeadlinesHold
    EveryRequestEnds
