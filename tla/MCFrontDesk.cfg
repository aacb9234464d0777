SPECIFICATION MCSpec
CONSTANTS
    None = None
    Bookings = {b1}
    Rest = 59
    Extra = 59
    MaxOther = 1
    OneGuest = {g1}
    Guests = {g1, g2}
    NewGuests = {g2}
    MaxEntries = 2
    Rent = 1019
    LongRent = 2038
    Advance = 300
    GstRate = 5
    MaxTries = 2
    MaxScans = 2
    Tabs = {t1}
    DraftHotels = {h1, h2}
    MAX_DRAFTS = 2
    MaxSaves = 2
    Files = {f1, f2}
    Old = Old
    MaxAsks = 2
    OneRoom = {r1}
    Rooms = {r1, r2}
    Dates = {d1, d2}
    Sheets = {s1, s2}
    MaxJobs = 2
    MaxSends = 2
    Stays = {s1}
    MaxPrints = 1
    ListedBookings = {b1, b2}
    Named = {b1}
    Recent = {b2}
    PageSize = 1
    MaxTyped = 2
    WithPhone = {b1}
    Linked = {b1}
    MaxInvoices = 2
    Slots = {1, 2}
    Amounts = {1, 2}
    MaxRefunds = 2
    Hotels = {h1, h2}
    OneHotel = {h1}
    Roles = {"owner", "manager", "admin", "receptionist", "housekeeping",
             "general_staff"}
    FewRoles = {"owner", "general_staff"}
    PagesInUse = {"/dashboard", "/my-attendance"}
INVARIANTS
    TypesOK
    NoSilentDue
    CheckedOutOnce
    DoneOnce
    MoneyAddsUp
    OwnDetails
    DraftsStayInHotel
    ScanHonest
    DocumentsHonest
    GuestErrorStopsAll
    ListsAgree
    PagesReachable
PROPERTIES
    SurvivorsKeepPhotos
CHECK_DEADLOCK FALSE
