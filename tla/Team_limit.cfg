SPECIFICATION Spec
CONSTANTS
    None = None
    People = {t1, t2}
    MemberLimit = 1
    Forgetful = {t1}
    MaxAsks = 1
    MaxCalls = 1
    MaxOther = 1
INVARIANTS
    ActiveWithinLimit
CHECK_DEADLOCK FALSE
