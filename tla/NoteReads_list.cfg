SPECIFICATION Spec
CONSTANTS
    LastId = 2
    Text <- Plain
    TitleRank <- Rank
    Digest <- Collide
    x = x
    y = y
    Page = {1}
    Size = {2}
    Query = {""}
    Like <- All
    Sort = {"updated"}
    Request = {r1, r2}
    Kept = {}
    Horizon = 0
    NoNote = NoNote
    NoCopy = NoCopy
INVARIANTS
    PageNotModified
