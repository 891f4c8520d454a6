SPECIFICATION Spec
CONSTANTS
    Client = {c1}
    Limit = 2
    Window = 4
    Horizon = 6
    MaxCount = 4
INVARIANTS
    ServedWithinRate
