SPECIFICATION MCSpec
CONSTANTS
    None = None
    Users = {u1, u2}
    MaxAttempts = 2
    MaxReloads = 0
    Hotels = {h1}
    Roles = {"owner", "manager", "admin", "receptionist", "housekeeping",
             "general_staff"}
    PagesInUse = {"/dashboard", "/my-attendance", "/expenses"}
    Rooms = {r1}
    FiltersInUse = {"all", "cleaning"}
    MaxOther = 1
INVARIANTS
    TypesOK
    ShownUserOwnsSession
PROPERTIES
    StartUpEnds
    RedirectsEnd
    DesksConverge
CHECK_DEADLOCK FALSE
