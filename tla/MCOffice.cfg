SPECIFICATION MCSpec
CONSTANTS
    None = None
    Ids = {e1}
    RequirementIds = {i1, i2}
    Papers = {p1}
    MaxOther = 1
    Hotels = {h1, h2}
    Numbers = {n1}
    Types = {k1, k2}
    Old = {k1}
    Names = {n1}
    Modes = {"full", "other"}
    Members = {m1}
    MaxPolls = 1
    Slots = {s1}
    Pictures = {p1, p2}
    MaxCalls = 2
    Values = {0, 1}
    MaxVersion = 1
    Far = 99
    Roles = {"housekeeping"}
    InUse = {"housekeeping"}
    MaxNotes = 2
    Limit = 2
    MaxTaps = 1
    Users = {u1, u2}
    MaxAttempts = 1
    MaxReloads = 1
    People = {t1, t2}
    MemberLimit = 2
    Forgetful = {t1}
    MaxAsks = 2
INVARIANTS
    TypesOK
    ReceiptAsAdded
    UntouchedRowsKept
    OwnRecordSaved
    CreatedAsFilled
    LatestShown
    RingsOnce
CHECK_DEADLOCK FALSE
