------------------------------- MODULE CheckinForm -------------------------------
(***************************************************************************)
(* The check-in form of checkin/page.tsx in both modes: the walk-in, which *)
(* books and checks in with one request, and the arrival of an advance     *)
(* booking, which is a chain of requests.  Modelled are the identity of    *)
(* the primary guest, which is fetched and written back, the bill that the *)
(* form shows, and the submission, any request of which may fail before or *)
(* after the server has acted.                                             *)
(***************************************************************************)
EXTENDS Integers

CONSTANTS Guests, None,
          Rooms,            \* those a walk-in may choose
          Rent, LongRent,   \* the rooms for the dates booked and for others
          Extra, Advance,   \* what the desk may enter
          GstRate,          \* per cent
          MaxTries          \* bound: submissions

\* Minutes of the day: the hotel's check-in time, its grace, its hourly fee.
Standard == 720
Grace == 60
HourlyFee == 100
Times == {580, 720}

VARIABLES
    kind,         \* the mode of the form
    gst,          \* is tax added for the customer (gst_mode)
    guest,        \* the guest selected
    profile,      \* whose data the identity fields hold
    pgBaseline,   \* whose data they are compared with
    typed,        \* did the desk change them
    fetching,     \* profiles under way
    creating,     \* is a new primary guest being created
    room,         \* walk-in: None, or the room chosen
    stage,        \* of the submission
    sent,         \* what the submission took from the form
    tries,
    server,       \* the booking there, of a walk-in the one made last
    walkIns       \* there, per room: the bookings of walk-ins and their advances

formVars == <<kind, gst, guest, profile, pgBaseline, typed, fetching, creating,
              room, stage, sent, tries, server, walkIns>>
bookingVars == <<server, walkIns>>
identityVars == <<guest, profile, pgBaseline, typed, fetching, creating>>

\* What the desk entered for the bill.
Bills == [extra : {0, Extra}, advance : {0, Advance}, received : BOOLEAN,
          time : Times, dates : {"asBooked", "changed"}]

TypeOK ==
    /\ kind \in {"walkIn", "booking"} /\ gst \in BOOLEAN
    /\ {guest, profile, pgBaseline} \subseteq Guests \union {None}
    /\ typed \in BOOLEAN /\ fetching \subseteq Guests /\ creating \in BOOLEAN
    /\ room \in Rooms \union {None}
    /\ stage \in {"form", "guest", "coGuests", "booking", "checkIn", "note", "done"}
    /\ tries \in 0 .. MaxTries
    /\ server.status \in {"none", "confirmed", "checked_in"} /\ server.paid \in Nat
    /\ walkIns \in [Rooms -> [bookings : Nat, advances : Nat]]

\* x / d to the nearest rupee, half a rupee up.
Rounded(x, d) == (2 * x + d) \div (2 * d)

\* The tax of a sum as the page shows it.
gstAmount(amount) == IF gst THEN Rounded(amount * GstRate, 100) ELSE 0

\* One line as the server charges it, with the tax of the centre and that of the
\* state, each half of the rate and rounded by itself.
calculate_gst(amount) ==
    amount + IF gst THEN 2 * Rounded(amount * GstRate, 200) ELSE 0

Init ==
    /\ kind \in {"walkIn", "booking"} /\ gst \in BOOLEAN
    /\ guest \in IF kind = "walkIn" THEN {None} ELSE Guests
    /\ profile = guest /\ pgBaseline = guest
    /\ typed = FALSE /\ fetching = {} /\ creating = FALSE
    /\ room = None
    /\ stage = "form" /\ sent = None /\ tries = 0
    /\ server = IF kind = "walkIn" THEN [status |-> "none", dates |-> "asBooked", total |-> 0, paid |-> 0]
                ELSE [status |-> "confirmed", dates |-> "asBooked", total |-> calculate_gst(Rent), paid |-> 0]
    /\ walkIns = [r \in Rooms |-> [bookings |-> 0, advances |-> 0]]

(***************************************************************************)
(* The primary guest of a walk-in.                                         *)
(***************************************************************************)

\* Name and phone are those of the guest selected; the rest stays until the
\* profile has come.
SelectGuest(g) ==
    /\ guest' = g
    /\ fetching' = fetching \union {g}

handleGuestSelected(g) ==
    /\ stage = "form" /\ kind = "walkIn" /\ guest = None
    /\ SelectGuest(g)
    /\ UNCHANGED <<kind, gst, profile, pgBaseline, typed, creating, room, stage,
                   sent, tries, bookingVars>>

\* The selection is cleared, "but KEEP all the pre-filled form data".
ClearGuest ==
    /\ stage = "form" /\ kind = "walkIn" /\ guest # None
    /\ guest' = None /\ pgBaseline' = None
    /\ UNCHANGED <<kind, gst, profile, typed, fetching, creating, room,
                   stage, sent, tries, bookingVars>>

\* A new guest is created with the queued documents, then selected.
createPrimaryGuest ==
    /\ stage = "form" /\ kind = "walkIn" /\ guest = None /\ ~creating
    /\ creating' = TRUE
    /\ UNCHANGED <<kind, gst, guest, profile, pgBaseline, typed, fetching,
                   room, stage, sent, tries, bookingVars>>

GuestCreated(g) ==
    /\ creating /\ creating' = FALSE
    /\ SelectGuest(g) \/ UNCHANGED <<guest, fetching>>
    /\ UNCHANGED <<kind, gst, profile, pgBaseline, typed, room, stage, sent,
                   tries, bookingVars>>

\* The auto-fill button of the guest's card.
AutofillGuest ==
    /\ stage = "form" /\ kind = "walkIn" /\ guest # None /\ guest \notin fetching
    /\ fetching' = fetching \union {guest}
    /\ UNCHANGED <<kind, gst, guest, profile, pgBaseline, typed, creating,
                   room, stage, sent, tries, bookingVars>>

\* Fields and baseline become those of the guest the profile was asked for.
FillProfile(g) == profile' = g /\ pgBaseline' = g

ProfileComes(g) ==
    /\ g \in fetching /\ fetching' = fetching \ {g}
    /\ \/ FillProfile(g) /\ typed' = FALSE
       \/ pgBaseline' = None /\ UNCHANGED <<profile, typed>>
    /\ UNCHANGED <<kind, gst, guest, creating, room, stage, sent, tries, bookingVars>>

EditIdentity ==
    /\ stage = "form" /\ guest # None /\ profile = guest /\ typed' = TRUE
    /\ UNCHANGED <<kind, gst, guest, profile, pgBaseline, fetching, creating,
                   room, stage, sent, tries, bookingVars>>

(***************************************************************************)
(* The bill.                                                               *)
(***************************************************************************)

\* Whole hours begun before the grace.
calcEarlyCheckinFee(chosen, standard, grace, rate) ==
    LET early == standard - chosen
    IN IF early <= grace THEN 0 ELSE ((early - grace + 59) \div 60) * rate

EarlyFee(b) == calcEarlyCheckinFee(b.time, Standard, Grace, HourlyFee)
RentOf(b) == IF b.dates = "asBooked" THEN Rent ELSE LongRent
collectedAdvance(b) == IF b.received THEN b.advance ELSE 0

\* Walk-in: tax on everything.  Arrival: the total of the form's copy of the
\* booking has its tax, and only what is added is taxed here.
displayExtra(b) == b.extra + EarlyFee(b)
payableWalkIn(b) ==
    RentOf(b) + displayExtra(b) + gstAmount(RentOf(b) + displayExtra(b))
payableArrival(b, bookingTotal) ==
    bookingTotal + displayExtra(b) + gstAmount(displayExtra(b))
payable(b) == IF kind = "walkIn" THEN payableWalkIn(b) ELSE payableArrival(b, calculate_gst(Rent))
Positive(x) == IF x > 0 THEN x ELSE 0
balance(b) == Positive(payable(b) - collectedAdvance(b))

\* From a list of free rooms that may be old.
ChooseRoom(r) ==
    /\ stage = "form" /\ kind = "walkIn" /\ room # r /\ room' = r
    /\ UNCHANGED <<kind, gst, identityVars, stage, sent, tries, bookingVars>>

(***************************************************************************)
(* The submission.                                                         *)
(***************************************************************************)

\* Only what differs from the baseline is written to the guest's profile; the
\* arrival's form writes every field that is filled in.
WritesProfile ==
    profile # None /\ (typed \/ profile # pgBaseline \/ kind = "booking")

\* With what the desk has entered by then.
validateAndSubmit(b) ==
    /\ stage = "form" /\ guest # None /\ (kind = "booking" \/ room # None) /\ tries < MaxTries
    /\ stage' = "guest" /\ tries' = tries + 1
    /\ sent' = [guest |-> guest, profile |-> profile, writes |-> WritesProfile,
                room |-> room, bill |-> b, balance |-> balance(b),
                note |-> b.extra # 0]
    /\ UNCHANGED <<kind, gst, guest, profile, pgBaseline, typed, fetching, creating, 
                   room, bookingVars>>

\* The request is refused or lost before or after the server acted: the form
\* is back with an error.
Fails == stage' = "form" /\ sent' = None
GoesOnTo(next) == stage' = next /\ UNCHANGED sent

\* 1. The guest's profile.
PatchGuest ==
    /\ stage = "guest"
    /\ GoesOnTo("coGuests") \/ Fails
    /\ UNCHANGED <<kind, gst, identityVars, room, tries, bookingVars>>

\* 2. A profile for the new co-guest; the form keeps it as new.
CreateCoGuests ==
    /\ stage = "coGuests"
    /\ \/ GoesOnTo(IF kind = "booking" THEN "booking" ELSE "checkIn")
       \/ Fails
    /\ UNCHANGED <<kind, gst, identityVars, room, tries, bookingVars>>

\* 3. Arrival: a check-in date other than that of the form's copy is written,
\* and the server prices the rooms anew; not after check-in.
PatchBooking ==
    /\ stage = "booking"
    /\ LET changed == sent.bill.dates = "changed"
           priced == [status |-> server.status, dates |-> "changed",
                      total |-> calculate_gst(LongRent), paid |-> server.paid]
       IN IF changed /\ server.status = "checked_in"
          THEN Fails /\ UNCHANGED server
          ELSE \/ GoesOnTo("checkIn") /\ server' = IF changed THEN priced ELSE server
               \/ Fails /\ server' \in {server, IF changed THEN priced ELSE server}
    /\ UNCHANGED <<kind, gst, identityVars, room, tries, walkIns>>

\* The walk-in puts the early fee among the charges of the request, the arrival
\* passes it by itself.
chargedFee(b) == IF kind = "walkIn" THEN EarlyFee(b) ELSE 0

\* Faulty variant: the room of a walk-in may be taken.
CheckinableAgain == TRUE

\* stay.check_in takes bookings that wait for their guest.  book_and_check_in
\* makes a booking each time it is asked to; it looks at the room only.
Checkinable ==
    IF kind = "walkIn" THEN walkIns[sent.room].bookings = 0
    ELSE server.status # "checked_in"

\* The server: each charge with its tax, the fee without, the advance.
CheckedInServer(b) ==
    IF kind = "walkIn"
    THEN [status |-> "checked_in", dates |-> b.dates,
          total |-> calculate_gst(RentOf(b)) + calculate_gst(b.extra)
                      + calculate_gst(chargedFee(b)),
          paid |-> collectedAdvance(b)]
    ELSE [status |-> "checked_in", dates |-> server.dates,
          total |-> server.total + EarlyFee(b) + calculate_gst(b.extra)
                      + calculate_gst(chargedFee(b)),
          paid |-> server.paid + collectedAdvance(b)]

ServerChecksIn ==
    /\ server' = CheckedInServer(sent.bill)
    /\ walkIns' = IF kind = "booking" THEN walkIns
                  ELSE [walkIns EXCEPT ![sent.room] =
                          [bookings |-> @.bookings + 1,
                           advances |-> @.advances + collectedAdvance(sent.bill)]]

\* 4. The check-in with charges and advance, in one transaction.  A walk-in's
\* room that is taken is cleared in the form; after any other error it stays.
CheckIn ==
    /\ stage = "checkIn"
    /\ IF Checkinable
       THEN /\ \/ /\ GoesOnTo(IF kind = "booking" /\ sent.note THEN "note" ELSE "done")
                  /\ ServerChecksIn
               \/ Fails /\ (ServerChecksIn \/ UNCHANGED bookingVars)
            /\ UNCHANGED room
       ELSE Fails /\ room' = None /\ UNCHANGED bookingVars
    /\ UNCHANGED <<kind, gst, identityVars, tries>>

\* 5. Arrival: special instructions, by another change of the booking.
WriteNote ==
    /\ stage = "note"
    /\ GoesOnTo("done") \/ Fails
    /\ UNCHANGED <<kind, gst, identityVars, room, tries, bookingVars>>

Next ==
    \/ \E g \in Guests : handleGuestSelected(g) \/ GuestCreated(g) \/ ProfileComes(g)
    \/ ClearGuest \/ createPrimaryGuest \/ AutofillGuest \/ EditIdentity
    \/ (\E r \in Rooms : ChooseRoom(r)) \/ \E b \in Bills : validateAndSubmit(b)
    \/ PatchGuest \/ CreateCoGuests \/ PatchBooking \/ CheckIn \/ WriteNote

Spec == Init /\ [][Next]_formVars

(***************************************************************************)
(* Properties.                                                             *)
(***************************************************************************)

\* However often the submission fails, is lost and is tried again, an arrival
\* pays its advance and is charged once, and so is a walk-in in each room: only
\* when the desk chooses another room does a walk-in pay again.
PaidOnce ==
    /\ server.status = "checked_in" =>
         /\ server.paid <= Advance
         /\ server.total <= calculate_gst(LongRent) + calculate_gst(Extra)
                              + calculate_gst(2 * HourlyFee)
    /\ \A r \in Rooms : walkIns[r].bookings <= 1 /\ walkIns[r].advances <= Advance

\* Sums differ by no more than so many rupees.
Near(x, y, rupees) == x - y \in -rupees .. rupees

\* When the form reports the check-in, the balance it had shown is what the
\* booking owes: for a walk-in always, for an arrival when its dates were
\* kept and no taxed fee was added.  With tax it may be off by a rupee for the
\* rooms and one for the extra charge, which are rounded one by one.
BalanceAgrees ==
    stage = "done" /\ (kind = "walkIn" \/ (server.dates = "asBooked"
                                             /\ (~gst \/ EarlyFee(sent.bill) = 0)))
        => Near(sent.balance, Positive(server.total - server.paid),
                IF ~gst THEN 0 ELSE IF kind = "walkIn" THEN 2 ELSE 1)

\* Why: before the check-in nothing is paid and the total is that of the rooms.
ChargedOnce ==
    /\ kind \in {"walkIn", "booking"} /\ gst \in BOOLEAN
    /\ stage \in {"form", "guest", "coGuests", "booking", "checkIn", "note", "done"}
    /\ room \in Rooms \union {None}
    /\ stage # "form" => /\ sent.bill \in Bills
                         /\ kind = "walkIn" => sent.room \in Rooms
    /\ server \in [status : {"none", "confirmed", "checked_in"}, dates : {"asBooked", "changed"},
                   total : Nat, paid : Nat]
    /\ walkIns \in [Rooms -> [bookings : Nat, advances : Nat]]
    /\ \A r \in Rooms : walkIns[r].bookings = 0 => walkIns[r].advances = 0
    /\ PaidOnce
    /\ server.status # "checked_in" =>
         server.paid = 0 /\ server.total <= calculate_gst(LongRent)

\* Why: the balance that a submission took is that of its bill, and the server
\* has charged that bill once it answers.
BalanceKept ==
    /\ stage # "form" => sent.balance = balance(sent.bill)
    /\ kind = "booking" /\ server.status # "checked_in" /\ server.dates = "asBooked"
         => server.total = calculate_gst(Rent)
    /\ stage \in {"note", "done"} =>
         /\ server.paid = collectedAdvance(sent.bill)
         /\ kind = "walkIn" =>
              server.total = calculate_gst(RentOf(sent.bill)) + calculate_gst(sent.bill.extra)
                               + calculate_gst(EarlyFee(sent.bill))
         /\ kind = "booking" /\ server.dates = "asBooked" =>
              server.total = calculate_gst(Rent) + EarlyFee(sent.bill)
                               + calculate_gst(sent.bill.extra)
=============================================================================
