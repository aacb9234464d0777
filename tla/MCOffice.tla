------------------------------ MODULE MCOffice ------------------------------
(***************************************************************************)
(* The screens of the office for TLC: the hotel and its settings, the      *)
(* super admin's forms, the pictures, the bell, the team, the session of   *)
(* two users and the expense ledger.  A sum of screens like MCFrontDesk;   *)
(* here the expense page has its own variables.                            *)
(***************************************************************************)
EXTENDS Expenses

CONSTANTS
    RequirementIds, Hotels, Numbers, Types, Old, Names, Modes, Members,
    MaxPolls, Slots, Pictures, MaxCalls, Values, MaxVersion, Far, Roles,
    InUse, MaxNotes, Limit, MaxTaps, Users, MaxAttempts, MaxReloads,
    People, MemberLimit, Forgetful, MaxAsks

VARIABLES
    screen,
    m1, m2, m3, m4, m5, m6, m7, m8, m9, m10, m11, m12, m13, m14, m15, m16,
    m17, m18, m19, m20

\* Photographs that are wide and high, frames that are wide and square.
Photographs == {[w |-> 4, h |-> 2], [w |-> 2, h |-> 3]}
Frames == {[w |-> 3, h |-> 2], [w |-> 2, h |-> 2]}

HotelPage == INSTANCE EditHotel WITH
    active <- m1, named <- m2, types <- m3, rooms <- m4, roomsCopy <- m5,
    identity <- m6, rows <- m7, originals <- m8, roomsInit <- m9,
    newType <- m10, touched <- m11, saving <- m12

RequirementsPage == INSTANCE RequirementList WITH
    services <- m1, copy <- m2, rows <- m3, fresh <- m4, originals <- m5,
    pressed <- m6, sent <- m7, refilling <- m8, edited <- m9, made <- m10,
    Ids <- RequirementIds

AdminHotelPage == INSTANCE AdminEditHotel WITH
    page <- m1, named <- m2, types <- m3, rooms <- m4, roomsCopy <- m5,
    identity <- m6, rows <- m7, originals <- m8, roomsInit <- m9,
    newType <- m10, touched <- m11, saving <- m12, mode <- m13,
    detail <- m14, accessMode <- m15, seeded <- m16, sending <- m17,
    wanted <- m18, Types <- {}, Old <- {}

NewHotelPage == INSTANCE AddHotel WITH
    names <- m1, rows <- m2, members <- m3, upi <- m4, pictures <- m5,
    canSubmit <- m6, sent <- m7, step <- m8, made <- m9, failed <- m10,
    createdHotelId <- m11, hotels <- m12, serverRooms <- m13,
    serverMembers <- m14, serverUpi <- m15, qr <- m16, polls <- m17

PicturesPanel == INSTANCE HotelImages WITH
    pictures <- m1, filled <- m2, version <- m3, src <- m4, reads <- m5,
    calls <- m6, refetching <- m7, made <- m8, unsure <- m9

SettingsPage == INSTANCE HotelSettings WITH
    rights <- m1, tab <- m2, server <- m3, copy <- m4, shown <- m5,
    touched <- m6, saving <- m7, other <- m8, drawn <- m9, version <- m10,
    uploading <- m11, polls <- m12, reads <- m13, images <- m14, src <- m15

PaymentSettings == INSTANCE HotelSettings WITH
    rights <- m1, tab <- m2, server <- m3, copy <- m4, shown <- m5,
    touched <- m6, saving <- m7, other <- m8, drawn <- m9, version <- m10,
    uploading <- m11, polls <- m12, reads <- m13, images <- m14,
    src <- m15, Values <- {0}, MaxOther <- 0, MaxVersion <- 3

PictureEditor == INSTANCE ImageEditor WITH
    natural <- m1, cropBox <- m2, scale <- m3, minScale <- m4,
    offset <- m5, coarseSteps <- m6, editorOpen <- m7,
    Pictures <- Photographs

Bell == INSTANCE Notifications WITH
    role <- m1, notes <- m2, read <- m3, cache <- m4, fresh <- m5,
    known <- m6, rings <- m7, quiet <- m8, marking <- m9, sound <- m10,
    permission <- m11, enabled <- m12, cooling <- m13, shown <- m14,
    tab <- m15, collapsed <- m16, opened <- m17, category <- m18,
    page <- m19, taps <- m20

TeamPage == INSTANCE Team WITH
    member <- m1, request <- m2, asked <- m3, answered <- m4, list <- m5,
    requests <- m6, adding <- m7, editing <- m8, resetting <- m9,
    acting <- m10, dismissing <- m11, other <- m12

SessionScreen == INSTANCE Session WITH
    cookie <- m1, access <- m2, refreshToken <- m3, cachedMe <- m4,
    status <- m5, user <- m6, pc <- m7, tok <- m8, attempt <- m9,
    shown <- m10, refreshing <- m11, reloads <- m12, old <- m13,
    crossed <- m14

\* The super admin's form of a new hotel, as it is sent.
NewHotels ==
    [names : [NewHotelPage!TypeKeys -> {"gone", "blank", "named"}],
     rows : [Numbers -> NewHotelPage!TypeKeys \union {NewHotelPage!NoType, None}],
     members : [Members -> {"none", "partial", "complete"}],
     upi : BOOLEAN, pictures : BOOLEAN]

\* None is null: no name, type, row, list or save is null.
ASSUME NoneAssumption ==
    /\ None \notin [active : BOOLEAN, profile : People]
    /\ None \notin Names \union RequirementIds
    /\ \A l \in [RequirementIds -> Names \union {None}] : l # None
    /\ \A s \in SUBSET (RequirementIds \union {None}) : s # None
    /\ None \notin Types \union {"", "new"}
    /\ None \notin HotelPage!Saves \union AdminHotelPage!Form!Saves
    /\ None \notin RequirementsPage!Forms
    /\ None \notin NewHotelPage!Steps \union NewHotels

\* A room type that exists at first is one, and no type has the form's words.
ASSUME TypesAssumption ==
    Old \subseteq Types /\ {"", "new"} \intersect Types = {}

\* The logo is none of the gallery's slots.
ASSUME SlotsAssumption == PicturesPanel!Logo \notin Slots

\* A drag has a length.
ASSUME FarAssumption == Far \in Nat

\* What Session assumes of its constants.
ASSUME SignInAssumption ==
    None \notin Users /\ MaxAttempts \in Nat \ {0} /\ MaxReloads \in Nat

ASSUME LimitAssumption == Limit \in Nat

\* What the form says before it knows is a mode.
ASSUME ModesAssumption == "full" \in Modes

\* Bounds of what the screens do; a QR code, an entry and a try are the least.
ASSUME BoundsAssumption ==
    /\ MaxAsks \in Nat /\ MaxCalls \in Nat /\ MaxPolls \in Nat \ {0}
    /\ MaxVersion \in Nat \ {0} /\ MaxNotes \in Nat \ {0}

memory ==
    <<m1, m2, m3, m4, m5, m6, m7, m8, m9, m10, m11, m12, m13, m14, m15,
      m16, m17, m18, m19, m20>>
mcVars == <<screen, vars, memory>>

\* The cells that a screen does not use stay empty.
MCInit ==
    \/ /\ screen = "expenses" /\ Init
       /\ m1 = None /\ m2 = None /\ m3 = None /\ m4 = None /\ m5 = None
       /\ m6 = None /\ m7 = None /\ m8 = None /\ m9 = None /\ m10 = None
       /\ m11 = None /\ m12 = None /\ m13 = None /\ m14 = None /\ m15 = None
       /\ m16 = None /\ m17 = None /\ m18 = None /\ m19 = None /\ m20 = None
    \/ /\ screen = "hotel" /\ Init
       /\ HotelPage!Init /\ m13 = None /\ m14 = None /\ m15 = None
       /\ m16 = None /\ m17 = None /\ m18 = None /\ m19 = None /\ m20 = None
    \/ /\ screen = "requirements" /\ Init
       /\ RequirementsPage!Init /\ m11 = None /\ m12 = None
       /\ m13 = None /\ m14 = None /\ m15 = None /\ m16 = None /\ m17 = None
       /\ m18 = None /\ m19 = None /\ m20 = None
    \/ /\ screen = "admin's hotel" /\ Init
       /\ AdminHotelPage!Init /\ m19 = None /\ m20 = None
    \/ /\ screen = "new hotel" /\ Init
       /\ NewHotelPage!Init /\ m18 = None /\ m19 = None /\ m20 = None
    \/ /\ screen = "pictures" /\ Init
       /\ PicturesPanel!Init /\ m10 = None /\ m11 = None /\ m12 = None
       /\ m13 = None /\ m14 = None /\ m15 = None /\ m16 = None /\ m17 = None
       /\ m18 = None /\ m19 = None /\ m20 = None
    \/ /\ screen = "settings" /\ Init
       /\ SettingsPage!Init /\ m16 = None /\ m17 = None /\ m18 = None
       /\ m19 = None /\ m20 = None
    \/ /\ screen = "payment settings" /\ Init
       /\ PaymentSettings!Init /\ m16 = None /\ m17 = None /\ m18 = None
       /\ m19 = None /\ m20 = None
    \/ /\ screen = "picture editor" /\ Init
       /\ PictureEditor!Init /\ m8 = None /\ m9 = None /\ m10 = None
       /\ m11 = None /\ m12 = None /\ m13 = None /\ m14 = None /\ m15 = None
       /\ m16 = None /\ m17 = None /\ m18 = None /\ m19 = None /\ m20 = None
    \/ /\ screen = "bell" /\ Init
       /\ Bell!Init
    \/ /\ screen = "team" /\ Init
       /\ TeamPage!Init /\ m13 = None /\ m14 = None /\ m15 = None
       /\ m16 = None /\ m17 = None /\ m18 = None /\ m19 = None /\ m20 = None
    \/ /\ screen = "sign-in" /\ Init
       /\ SessionScreen!Init /\ m15 = None /\ m16 = None /\ m17 = None
       /\ m18 = None /\ m19 = None /\ m20 = None

ExpensesStep == screen = "expenses" /\ Next /\ UNCHANGED <<screen, memory>>
HotelPageStep ==
    /\ screen = "hotel" /\ HotelPage!Next
    /\ UNCHANGED <<screen, vars, m13, m14, m15, m16, m17, m18, m19, m20>>
RequirementsPageStep ==
    /\ screen = "requirements" /\ RequirementsPage!Next
    /\ UNCHANGED <<screen, vars, m11, m12, m13, m14, m15, m16, m17,
                   m18, m19, m20>>
AdminHotelPageStep ==
    /\ screen = "admin's hotel" /\ AdminHotelPage!Next
    /\ UNCHANGED <<screen, vars, m19, m20>>
NewHotelPageStep ==
    /\ screen = "new hotel" /\ NewHotelPage!Next
    /\ UNCHANGED <<screen, vars, m18, m19, m20>>
PicturesPanelStep ==
    /\ screen = "pictures" /\ PicturesPanel!Next
    /\ UNCHANGED <<screen, vars, m10, m11, m12, m13, m14, m15, m16, m17,
                   m18, m19, m20>>
SettingsPageStep ==
    /\ screen = "settings" /\ SettingsPage!Next
    /\ UNCHANGED <<screen, vars, m16, m17, m18, m19, m20>>
PaymentSettingsStep ==
    /\ screen = "payment settings" /\ PaymentSettings!Next
    /\ UNCHANGED <<screen, vars, m16, m17, m18, m19, m20>>
PictureEditorStep ==
    /\ screen = "picture editor" /\ PictureEditor!Next
    /\ UNCHANGED <<screen, vars, m8, m9, m10, m11, m12, m13, m14, m15, m16,
                   m17, m18, m19, m20>>
BellStep == screen = "bell" /\ Bell!Next /\ UNCHANGED <<screen, vars>>
TeamPageStep ==
    /\ screen = "team" /\ TeamPage!Next
    /\ UNCHANGED <<screen, vars, m13, m14, m15, m16, m17, m18, m19, m20>>
SessionScreenStep ==
    /\ screen = "sign-in" /\ SessionScreen!Next
    /\ UNCHANGED <<screen, vars, m15, m16, m17, m18, m19, m20>>

MCNext ==
    \/ ExpensesStep \/ HotelPageStep \/ RequirementsPageStep
    \/ AdminHotelPageStep \/ NewHotelPageStep \/ PicturesPanelStep
    \/ SettingsPageStep \/ PaymentSettingsStep \/ PictureEditorStep
    \/ BellStep \/ TeamPageStep \/ SessionScreenStep

MCSpec == MCInit /\ [][MCNext]_mcVars

-----------------------------------------------------------------------------
\* Every screen's variables have their types.
TypesOK ==
    /\ TypeOK
    /\ screen = "hotel" => HotelPage!TypeOK
    /\ screen = "requirements" => RequirementsPage!TypeOK
    /\ screen = "admin's hotel" => AdminHotelPage!TypeOK
    /\ screen = "new hotel" => NewHotelPage!TypeOK
    /\ screen = "pictures" => PicturesPanel!TypeOK
    /\ screen = "settings" => SettingsPage!TypeOK
    /\ screen = "payment settings" => PaymentSettings!TypeOK
    /\ screen = "picture editor" => PictureEditor!TypeOK
    /\ screen = "bell" => Bell!TypeOK
    /\ screen = "team" => TeamPage!TypeOK
    /\ screen = "sign-in" => SessionScreen!TypeOK

\* A save writes and deletes only the rows that the user changed: the rooms
\* of a hotel and its special requirements, when the form had been filled with
\* them at the click; see EditHotel and RequirementList.
UntouchedRowsKept ==
    /\ screen = "hotel" => HotelPage!UntouchedRoomsKept
    /\ screen = "requirements" => RequirementsPage!UntouchedRequirementsKept

\* What is saved, and what is answered, is the hotel's, the member's or the
\* request it was meant for: see EditHotel, AdminEditHotel and Team.
OwnRecordSaved ==
    /\ screen = "hotel" => HotelPage!OwnHotelSaved
    /\ screen = "admin's hotel" =>
         AdminHotelPage!OwnHotelSaved /\ AdminHotelPage!ModeWasWanted
    /\ screen = "team" => TeamPage!OwnProfiles /\ TeamPage!RequestsHeard

\* A form that creates several things one after the other creates each as it
\* was filled in, once, and says what is missing: see AddHotel and
\* RequirementList.
CreatedAsFilled ==
    /\ screen = "new hotel" =>
         /\ NewHotelPage!RoomsHaveChosenType
         /\ NewHotelPage!MissingReported /\ NewHotelPage!OneHotel
    /\ screen = "requirements" => RequirementsPage!CreatedOnce

\* A picture on screen is the one that is stored, no older preview takes the
\* place of a newer one, and a picture can be framed whole: see HotelImages,
\* HotelSettings and ImageEditor.
LatestShown ==
    /\ screen = "pictures" => PicturesPanel!StoredPictureShown
    /\ screen = "settings" =>
         SettingsPage!PreviewNotOlder /\ SettingsPage!RefreshedShown
    /\ screen = "payment settings" => PaymentSettings!PreviewNotOlder
    /\ screen = "picture editor" =>
         PictureEditor!WholeReachable /\ PictureEditor!FrameKept
    /\ screen = "sign-in" => SessionScreen!ShownUserOwnsSession

\* An entry raises at most one alert, see Notifications.
RingsOnce == screen = "bell" => Bell!RingsOnce
=============================================================================
