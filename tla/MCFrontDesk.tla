----------------------------- MODULE MCFrontDesk -----------------------------
(***************************************************************************)
(* The screens of the front desk for TLC.  A tab shows one of them at a    *)
(* time and each starts anew when it is opened, so the instance is the sum *)
(* of the screens: one variable says which is shown, the check-out page    *)
(* has its own variables, and the others keep theirs in the cells m1, m2,  *)
(* and so on, the memory of the screen shown.  Four have a second instance, *)
(* in which another desk, the search or the hotel switcher is busy and the *)
(* rest is smaller.                                                        *)
(***************************************************************************)
EXTENDS Checkout, FiniteSets

CONSTANTS
    OneGuest, Guests, NewGuests, MaxEntries, Rent, LongRent, Advance,
    GstRate, MaxTries, MaxScans, Tabs, DraftHotels, MAX_DRAFTS, MaxSaves,
    Files, Old, MaxAsks, OneRoom, Rooms, Dates, Sheets, MaxJobs, MaxSends,
    Stays, MaxPrints, ListedBookings, Named, Recent, PageSize, MaxTyped, Slots,
    Amounts, MaxRefunds, Hotels, OneHotel, Roles, FewRoles, PagesInUse,
    WithPhone, Linked, MaxInvoices

VARIABLES
    screen,
    m1, m2, m3, m4, m5, m6, m7, m8, m9, m10, m11, m12, m13, m14, m15, m16

SavedDrafts == INSTANCE CheckinDrafts WITH
    stored <- m1, global <- m2, photoOf <- m3, madeIn <- m4, server <- m5,
    hotelOf <- m6, drafts <- m7, restoredId <- m8, restoring <- m9,
    photo <- m10, savingDraft <- m11, saves <- m12, count <- m13

CoGuestCards == INSTANCE CoGuests WITH
    added <- m1, guestKeys <- m2, coGuests <- m3, mode <- m4,
    resolved <- m5, form <- m6, flights <- m7, hasty <- m8, party <- m9

CheckinPage == INSTANCE CheckinForm WITH
    kind <- m1, gst <- m2, guest <- m3, profile <- m4, pgBaseline <- m5,
    typed <- m6, fetching <- m7, creating <- m8, room <- m9, stage <- m10,
    sent <- m11, tries <- m12, server <- m13, walkIns <- m14,
    Guests <- OneGuest

ScanPanel == INSTANCE IdScan WITH
    idType <- m1, front <- m2, back <- m3, pendingFront <- m4,
    waiting <- m5, scanning <- m6, accepted <- m7, form <- m8, task <- m9,
    tile <- m10, editor <- m11, outlived <- m12

DocumentPanel == INSTANCE GuestDocs WITH
    tile <- m1, known <- m2, loading <- m3, stored <- m4, preview <- m5,
    uploaded <- m6, busy <- m7, calls <- m8, crossed <- m9,
    cameraOpen <- m10, asking <- m11, late <- m12, streams <- m13

GuestCard == INSTANCE AdvanceGuest WITH
    guest <- m1, pgName <- m2, profile <- m3, pgBaseline <- m4,
    pgEditing <- m5, showNewGuest <- m6, answers <- m7, fills <- m8,
    creating <- m9, registered <- m10, record <- m11, booked <- m12,
    hasty <- m13, revealing <- m14, Blank <- NewGuests

BookingPage == INSTANCE AdvanceBooking WITH
    dates <- m1, lists <- m2, asked <- m3, availData <- m4, selected <- m5,
    advance <- m6, collected <- m7, sent <- m8, step <- m9, error <- m10,
    tries <- m11, taken <- m12, bookings <- m13, voucher <- m14,
    told <- m15, hasty <- m16, Rooms <- OneRoom, MaxOther <- 1

VoucherPage == INSTANCE Voucher WITH
    title <- m1, jobs <- m2, started <- m3, fetches <- m4, saved <- m5,
    shared <- m6, chats <- m7, asking <- m8, claimed <- m9, told <- m10,
    sends <- m11

GuestsPage == INSTANCE CurrentGuests WITH
    record <- m1, room <- m2, others <- m3, bookingCopy <- m4,
    guestCopy <- m5, transferCopy <- m6, dialog <- m7, settled <- m8,
    printedFor <- m9, asked <- m10, printed <- m11, form <- m12,
    touched <- m13, saving <- m14, moving <- m15, MaxOther <- 0

AdvanceList == INSTANCE AdvanceBookings WITH
    status <- m1, lists <- m2, reads <- m3, statusFilter <- m4,
    filters <- m5, url <- m6, nav <- m7, page <- m8, dialog <- m9,
    target <- m10, calls <- m11, other <- m12, Bookings <- ListedBookings,
    MaxOther <- 0

CompletedList == INSTANCE CompletedBookings WITH
    status <- m1, shown <- m2, url <- m3, nav <- m4, landing <- m5,
    page <- m6, list <- m7, viewing <- m8, parts <- m9, target <- m10,
    reason <- m11, call <- m12, typed <- m13, led <- m14,
    Bookings <- ListedBookings

InvoicesPage == INSTANCE Invoices WITH
    made <- m1, lists <- m2, filter <- m3, selected <- m4, target <- m5,
    cancelling <- m6, generating <- m7, sharing <- m8, phone <- m9,
    message <- m10, Bookings <- ListedBookings

PaymentsPage == INSTANCE Payments WITH
    pays <- m1, advance <- m2, deposit <- m3, refunds <- m4, list <- m5,
    selected <- m6, dialog <- m7, call <- m8, other <- m9, draft <- m10,
    applied <- m11, page <- m12, turns <- m13, MaxOther <- 0,
    MaxFilters <- 0

SharedGuestsPage == INSTANCE CurrentGuests WITH
    record <- m1, room <- m2, others <- m3, bookingCopy <- m4,
    guestCopy <- m5, transferCopy <- m6, dialog <- m7, settled <- m8,
    printedFor <- m9, asked <- m10, printed <- m11, form <- m12,
    touched <- m13, saving <- m14, moving <- m15, Rooms <- OneRoom,
    MaxPrints <- 0, MaxOther <- 1

AdvanceSearch == INSTANCE AdvanceBookings WITH
    status <- m1, lists <- m2, reads <- m3, statusFilter <- m4,
    filters <- m5, url <- m6, nav <- m7, page <- m8, dialog <- m9,
    target <- m10, calls <- m11, other <- m12, MaxOther <- 1

MenusOfRoles == INSTANCE Navigation WITH
    signedIn <- m1, super <- m2, mustReset <- m3, role <- m4, active <- m5,
    permsOf <- m6, hotelStatus <- m7, mode <- m8, plan <- m9, path <- m10,
    nav <- m11, greeted <- m12, returnTo <- m13, Hotels <- OneHotel

MenusOfHotels == INSTANCE Navigation WITH
    signedIn <- m1, super <- m2, mustReset <- m3, role <- m4, active <- m5,
    permsOf <- m6, hotelStatus <- m7, mode <- m8, plan <- m9, path <- m10,
    nav <- m11, greeted <- m12, returnTo <- m13, Roles <- FewRoles

PaymentsSearch == INSTANCE Payments WITH
    pays <- m1, advance <- m2, deposit <- m3, refunds <- m4, list <- m5,
    selected <- m6, dialog <- m7, call <- m8, other <- m9, draft <- m10,
    applied <- m11, page <- m12, turns <- m13, Slots <- {1}, MaxOther <- 1,
    MaxRefunds <- 1, MaxFilters <- 2

\* None is null: no call of a submission, no place of a picture, no filters and
\* no answer of a scan are null.
ASSUME NoneAssumption ==
    /\ None \notin {"guest", "booking", "payment"}
    /\ None \notin {"preparing", "editing", "sending"}
    /\ None \notin CompletedList!Filters
    /\ None \notin ScanPanel!Scan

\* A longer stay costs no less.
ASSUME MoneyAssumption ==
    {Rent, LongRent, Extra, Advance, GstRate} \subseteq Nat /\ Rent <= LongRent

\* No guest is the null of the pages.
ASSUME GuestsAssumption == None \notin Guests \union OneGuest /\ MaxEntries \in Nat

ASSUME ListsAssumption ==
    /\ PageSize \in Nat \ {0}
    /\ IsFiniteSet(Bookings) /\ IsFiniteSet(ListedBookings)

\* The drafts that a hotel keeps, and those that are made.
ASSUME DraftsAssumption == {MAX_DRAFTS, MaxSaves} \subseteq Nat

ASSUME ScansAssumption == MaxScans \in Nat

\* Bounds of what the desk does.
ASSUME BoundsAssumption ==
    {MaxTries, MaxAsks, MaxJobs, MaxSends, MaxPrints, MaxTyped, MaxRefunds,
     MaxInvoices} \subseteq Nat

\* The payments of a booking have an order; none of them is null.
ASSUME PaymentsAssumption ==
    /\ Slots \subseteq Nat /\ IsFiniteSet(Slots) /\ Amounts \subseteq Nat
    /\ None \notin PaymentsPage!Payment

\* Users belong to a hotel, and visit pages there are.
ASSUME MenusAssumption ==
    Hotels # {} /\ OneHotel # {} /\ PagesInUse \subseteq MenusOfRoles!Paths

memory ==
    <<m1, m2, m3, m4, m5, m6, m7, m8, m9, m10, m11, m12, m13, m14, m15, m16>>
mcVars == <<screen, checkoutVars, memory>>

\* The cells that a screen does not use stay empty.  Super admins and new
\* passwords are in the instance of one hotel.
MCInit ==
    \/ /\ screen = "check-out" /\ Init
       /\ m1 = None /\ m2 = None /\ m3 = None /\ m4 = None /\ m5 = None
       /\ m6 = None /\ m7 = None /\ m8 = None /\ m9 = None /\ m10 = None
       /\ m11 = None /\ m12 = None /\ m13 = None /\ m14 = None /\ m15 = None
       /\ m16 = None
    \/ /\ screen = "drafts" /\ Init /\ link = None
       /\ SavedDrafts!Init /\ m14 = None /\ m15 = None /\ m16 = None
    \/ /\ screen = "co-guests" /\ Init /\ link = None
       /\ CoGuestCards!Init /\ m10 = None /\ m11 = None /\ m12 = None
       /\ m13 = None /\ m14 = None /\ m15 = None /\ m16 = None
    \/ /\ screen = "check-in" /\ Init /\ link = None
       /\ CheckinPage!Init /\ m15 = None /\ m16 = None
    \/ /\ screen = "scan" /\ Init /\ link = None
       /\ ScanPanel!Init /\ m13 = None /\ m14 = None /\ m15 = None
       /\ m16 = None
    \/ /\ screen = "documents" /\ Init /\ link = None
       /\ DocumentPanel!Init /\ m14 = None /\ m15 = None /\ m16 = None
    \/ /\ screen = "booking guest" /\ Init /\ link = None
       /\ GuestCard!Init /\ m15 = None /\ m16 = None
    \/ /\ screen = "booking" /\ Init /\ link = None
       /\ BookingPage!Init
    \/ /\ screen = "voucher" /\ Init /\ link = None
       /\ VoucherPage!Init /\ m12 = None /\ m13 = None /\ m14 = None
       /\ m15 = None /\ m16 = None
    \/ /\ screen = "guests" /\ Init /\ link = None
       /\ GuestsPage!Init /\ m16 = None
    \/ /\ screen = "advance bookings" /\ Init /\ link = None
       /\ AdvanceList!Init /\ m13 = None /\ m14 = None /\ m15 = None
       /\ m16 = None
    \/ /\ screen = "completed bookings" /\ Init /\ link = None
       /\ CompletedList!Init /\ m15 = None /\ m16 = None
    \/ /\ screen = "invoices" /\ Init /\ link = None
       /\ InvoicesPage!Init /\ m11 = None /\ m12 = None /\ m13 = None
       /\ m14 = None /\ m15 = None /\ m16 = None
    \/ /\ screen = "payments" /\ Init /\ link = None
       /\ PaymentsPage!Init /\ m14 = None /\ m15 = None /\ m16 = None
    \/ /\ screen = "shared guests" /\ Init /\ link = None
       /\ SharedGuestsPage!Init /\ m16 = None
    \/ /\ screen = "advance bookings found" /\ Init /\ link = None
       /\ AdvanceSearch!Init /\ m13 = None /\ m14 = None /\ m15 = None
       /\ m16 = None
    \/ /\ screen = "menus" /\ Init /\ link = None
       /\ MenusOfRoles!Init /\ m14 = None /\ m15 = None /\ m16 = None
    \/ /\ screen = "menus of two hotels" /\ Init /\ link = None
       /\ MenusOfHotels!Init /\ m2 = FALSE /\ m3 = FALSE
       /\ m14 = None /\ m15 = None /\ m16 = None
    \/ /\ screen = "payments found" /\ Init /\ link = None
       /\ PaymentsSearch!Init /\ m14 = None /\ m15 = None /\ m16 = None

CheckoutStep == screen = "check-out" /\ Next /\ UNCHANGED <<screen, memory>>
SavedDraftsStep ==
    /\ screen = "drafts" /\ SavedDrafts!Next
    /\ UNCHANGED <<screen, checkoutVars, m14, m15, m16>>
CoGuestCardsStep ==
    /\ screen = "co-guests" /\ CoGuestCards!Next
    /\ UNCHANGED <<screen, checkoutVars, m10, m11, m12, m13, m14, m15, m16>>
CheckinPageStep ==
    /\ screen = "check-in" /\ CheckinPage!Next
    /\ UNCHANGED <<screen, checkoutVars, m15, m16>>
ScanPanelStep ==
    /\ screen = "scan" /\ ScanPanel!Next
    /\ UNCHANGED <<screen, checkoutVars, m13, m14, m15, m16>>
DocumentPanelStep ==
    /\ screen = "documents" /\ DocumentPanel!Next
    /\ UNCHANGED <<screen, checkoutVars, m14, m15, m16>>
GuestCardStep ==
    /\ screen = "booking guest" /\ GuestCard!Next
    /\ UNCHANGED <<screen, checkoutVars, m15, m16>>
BookingPageStep ==
    /\ screen = "booking" /\ BookingPage!Next
    /\ UNCHANGED <<screen, checkoutVars>>
VoucherPageStep ==
    /\ screen = "voucher" /\ VoucherPage!Next
    /\ UNCHANGED <<screen, checkoutVars, m12, m13, m14, m15, m16>>
GuestsPageStep ==
    /\ screen = "guests" /\ GuestsPage!Next
    /\ UNCHANGED <<screen, checkoutVars, m16>>
AdvanceListStep ==
    /\ screen = "advance bookings" /\ AdvanceList!Next
    /\ UNCHANGED <<screen, checkoutVars, m13, m14, m15, m16>>
CompletedListStep ==
    /\ screen = "completed bookings" /\ CompletedList!Next
    /\ UNCHANGED <<screen, checkoutVars, m15, m16>>
InvoicesPageStep ==
    /\ screen = "invoices" /\ InvoicesPage!Next
    /\ UNCHANGED <<screen, checkoutVars, m11, m12, m13, m14, m15, m16>>
PaymentsPageStep ==
    /\ screen = "payments" /\ PaymentsPage!Next
    /\ UNCHANGED <<screen, checkoutVars, m14, m15, m16>>
SharedGuestsPageStep ==
    /\ screen = "shared guests" /\ SharedGuestsPage!Next
    /\ UNCHANGED <<screen, checkoutVars, m16>>
AdvanceSearchStep ==
    /\ screen = "advance bookings found" /\ AdvanceSearch!Next
    /\ UNCHANGED <<screen, checkoutVars, m13, m14, m15, m16>>
MenusOfRolesStep ==
    /\ screen = "menus" /\ MenusOfRoles!Next
    /\ UNCHANGED <<screen, checkoutVars, m14, m15, m16>>
MenusOfHotelsStep ==
    /\ screen = "menus of two hotels" /\ MenusOfHotels!Next
    /\ UNCHANGED <<screen, checkoutVars, m14, m15, m16>>
PaymentsSearchStep ==
    /\ screen = "payments found" /\ PaymentsSearch!Next
    /\ UNCHANGED <<screen, checkoutVars, m14, m15, m16>>

MCNext ==
    \/ CheckoutStep \/ SavedDraftsStep \/ CoGuestCardsStep \/ CheckinPageStep
    \/ ScanPanelStep \/ DocumentPanelStep \/ GuestCardStep \/ BookingPageStep
    \/ VoucherPageStep \/ GuestsPageStep \/ AdvanceListStep
    \/ CompletedListStep \/ InvoicesPageStep \/ PaymentsPageStep
    \/ SharedGuestsPageStep \/ AdvanceSearchStep \/ MenusOfRolesStep
    \/ MenusOfHotelsStep \/ PaymentsSearchStep

MCSpec == MCInit /\ [][MCNext]_mcVars

-----------------------------------------------------------------------------
\* Every screen's variables have their types.
TypesOK ==
    /\ TypeOK
    /\ screen = "drafts" => SavedDrafts!TypeOK
    /\ screen = "co-guests" => CoGuestCards!TypeOK
    /\ screen = "check-in" => CheckinPage!TypeOK
    /\ screen = "scan" => ScanPanel!TypeOK
    /\ screen = "documents" => DocumentPanel!TypeOK
    /\ screen = "booking guest" => GuestCard!TypeOK
    /\ screen = "booking" => BookingPage!TypeOK
    /\ screen = "voucher" => VoucherPage!TypeOK
    /\ screen = "guests" => GuestsPage!TypeOK
    /\ screen = "advance bookings" => AdvanceList!TypeOK
    /\ screen = "completed bookings" => CompletedList!TypeOK
    /\ screen = "invoices" => InvoicesPage!TypeOK
    /\ screen = "payments" => PaymentsPage!TypeOK
    /\ screen = "shared guests" => SharedGuestsPage!TypeOK
    /\ screen = "advance bookings found" => AdvanceSearch!TypeOK
    /\ screen = "menus" => MenusOfRoles!TypeOK
    /\ screen = "menus of two hotels" => MenusOfHotels!TypeOK
    /\ screen = "payments found" => PaymentsSearch!TypeOK

\* What a desk does twice, because an answer was late or lost or a page was
\* drawn again, is done once: a check-in's payment is recorded, a receipt and
\* each sheet of a voucher printed once, and a booking is only made again
\* after the desk was told that it failed.
DoneOnce ==
    /\ screen = "check-in" => CheckinPage!PaidOnce
    /\ screen = "voucher" => VoucherPage!PrintsOnce
    /\ screen = "guests" => GuestsPage!PrintsOnce
    /\ screen = "booking" => BookingPage!SecondBookingAfterFailure

\* The sums that are shown are those that the server has: the balance of a
\* check-in, the advance on a voucher, what a booking paid in and got back, the
\* rows of a bill.
MoneyAddsUp ==
    /\ screen = "check-in" => CheckinPage!BalanceAgrees
    /\ screen = "booking" => BookingPage!VoucherHonest
    /\ screen = "payments" => PaymentsPage!MoneyAccounted
    /\ screen = "payments found" => PaymentsSearch!MoneyAccounted
    /\ screen = "invoices" => InvoicesPage!PrintedAddsUp

\* Nobody's details end up with somebody else: the profile of a booking's
\* guest, and the guests of a party each in the place of their card.
OwnDetails ==
    /\ screen = "booking guest" => GuestCard!OwnDetails
    /\ screen = "co-guests" => CoGuestCards!OrderlyParty

\* Drafts stay with the hotel they were saved for, see CheckinDrafts.
DraftsStayInHotel == screen = "drafts" => SavedDrafts!DraftsStayInHotel

\* A draft that stays keeps its photograph, see CheckinDrafts.
SurvivorsKeepPhotos == [][screen = "drafts" => SavedDrafts!SurvivorsKept]_mcVars

\* A scan's spinner turns exactly while something is read, and the address
\* on the form follows what was read, see IdScan.
ScanHonest ==
    screen = "scan" => ScanPanel!SpinnerHonest /\ ScanPanel!AddressKeepsUp

\* A tile that says a document is there is right, a camera that no panel shows
\* is off, and a bill that is sent is the one that was on screen: see GuestDocs
\* and Invoices.
DocumentsHonest ==
    /\ screen = "documents" =>
         DocumentPanel!ShownDocIsStored /\ DocumentPanel!CameraReleased
    /\ screen = "invoices" => InvoicesPage!SharedAsAsked

\* An edit whose guest half is refused writes nothing else, see CurrentGuests.
GuestErrorStopsAll ==
    /\ screen = "guests" => GuestsPage!GuestErrorStopsAll
    /\ screen = "shared guests" => SharedGuestsPage!GuestErrorStopsAll

\* A list shows rows when it has any, a selected room is on offer, a bill shown
\* is of the list beside it, and an address names the search and the chip of its
\* page, and the dates too when the page wrote it.
ListsAgree ==
    /\ screen = "advance bookings" => AdvanceList!PageHasRows
    /\ screen = "advance bookings found" => AdvanceSearch!PageHasRows
    /\ screen = "completed bookings" => CompletedList!AddressAgrees
    /\ screen = "invoices" => InvoicesPage!ShownIsListed
    /\ screen = "booking" => BookingPage!SelectedOffered

\* Every item of a menu opens a page that admits the user, and an expired
\* hotel can still wind down: see Navigation.
PagesReachable ==
    /\ screen = "menus" =>
         MenusOfRoles!MenuOpens /\ MenusOfRoles!WindDownReachable
    /\ screen = "menus of two hotels" =>
         MenusOfHotels!MenuOpens /\ MenusOfHotels!WindDownReachable
=============================================================================
