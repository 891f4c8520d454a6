SPECIFICATION Spec
CONSTANTS
    LastId = 2
    Text <- Plain
    TitleRank <- Rank
    Digest <- Collide
    x = x
    y = y
    Page = {1}
    Size = {1}
    Query = {""}
    Like <- All
    Sort = {"newest"}
    Request = {r1, r2}
    Kept = {1}
    Horizon = 1
    NoNote = NoNote
    NoCopy = NoCopy
SYMMETRY Alike
INVARIANTS
    TypeOK
    NoteNotModified
    CreatedOwn
    NewestKnown
    TotalDrift
    PagesFit
