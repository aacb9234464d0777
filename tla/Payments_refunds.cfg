SPECIFICATION Spec
CONSTANTS
    None = None
    Slots = {1, 2}
    Amounts = {1, 2}
    MaxRefunds = 2
    MaxOther = 1
    MaxFilters = 0
INVARIANTS
    RefundsCovered
CHECK_DEADLOCK FALSE
