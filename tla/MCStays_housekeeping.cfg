CONSTANTS
    Rooms = {r1}
    Bookings = {b1, b2}
    Windows <- HousekeepingWindows
    UsualIn = 1
    UsualOut = 0
    ManualStatuses <- RoomStatuses
    LastDay = 1
    MaxMaintenance = 2
SPECIFICATION Spec
SYMMETRY Symmetry
CHECK_DEADLOCK FALSE
INVARIANTS
    TypeOK
    InHouseNotFree
    OccupiedHasGuest
    DirtyHasTask
    MaintenanceHasRecord
PROPERTIES
    RoomStepsLegal
