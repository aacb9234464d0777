------------------------------ MODULE AdvanceBooking ------------------------------
(***************************************************************************)
(* Rooms, payment and voucher of the advance-booking page                  *)
(* (advance-booking/page.tsx), with the room picker                        *)
(* (room-availability-picker.tsx) and the voucher                          *)
(* (advance-booking-voucher-modal.tsx).                                    *)
(*                                                                         *)
(* The picker keeps one list per dates; the page is told the list when     *)
(* there is a new one and keeps the last it was told.  Making the booking  *)
(* is three calls, of the guest's profile, the booking and the advance;    *)
(* nothing is locked meanwhile.  The guest is AdvanceGuest's.              *)
(***************************************************************************)
EXTENDS Naturals, Sequences, FiniteSets

CONSTANTS Rooms, Dates, None,
          MaxOther,   \* bound: rooms other desks book
          MaxTries    \* bound: submissions

VARIABLES
    dates,        \* the stay's dates
    lists,        \* the picker's list of free rooms for each dates, or None
    asked,        \* dates whose list is being fetched
    availData,    \* availDataState: the last list the page was told
    selected,     \* selectedRooms
    advance, collected,  \* an amount is entered; it is ticked as collected
    sent,         \* what mutationFn reads, None while nothing is pending
    step,         \* the call that is out
    error,
    tries,
    taken,        \* server: the rooms other desks booked, by dates
    bookings,     \* server: the bookings this page made
    voucher,      \* the place of the booking whose voucher is shown, or 0
    told,         \* history: a failure was reported
    hasty         \* history: the payment fields were changed after the button was pressed

pickerVars == <<dates, lists, asked, availData, selected>>
payVars == <<advance, collected, hasty>>
sendVars == <<sent, step, error, told, tries, voucher>>
serverVars == <<taken, bookings>>
advanceVars == <<pickerVars, payVars, sendVars, serverVars>>

TypeOK ==
    /\ dates \in Dates /\ lists \in [Dates -> (SUBSET Rooms) \union {None}] /\ asked \subseteq Dates
    /\ availData \in (SUBSET Rooms) \union {None} /\ selected \subseteq Rooms
    /\ {advance, collected, told, hasty} \subseteq BOOLEAN
    /\ step \in {None, "guest", "booking", "payment"} /\ error \in {None, "failed", "double_booking"}
    /\ tries \in 0 .. MaxTries /\ taken \subseteq Rooms \X Dates
    /\ voucher \in 0 .. Len(bookings)
    /\ \A i \in DOMAIN bookings : bookings[i].rooms \subseteq Rooms /\ bookings[i].paid \in BOOLEAN

Init ==
    /\ dates \in Dates /\ lists = [d \in Dates |-> None] /\ asked = {dates}
    /\ availData = None /\ selected = {}
    /\ advance = FALSE /\ collected = FALSE /\ hasty = FALSE
    /\ sent = None /\ step = None /\ error = None /\ told = FALSE /\ tries = 0 /\ voucher = 0
    /\ taken = {} /\ bookings = <<>>

\* The server's free rooms (Stays models them in detail).
Mine(d) == UNION {bookings[i].rooms : i \in {j \in DOMAIN bookings : bookings[j].dates = d}}
Free(d) == {r \in Rooms : <<r, d>> \notin taken /\ r \notin Mine(d)}

OtherDesk(r, d) ==
    /\ Cardinality(taken) < MaxOther /\ r \in Free(d) /\ taken' = taken \union {<<r, d>>}
    /\ UNCHANGED <<pickerVars, payVars, sendVars, bookings>>

(***************************************************************************)
(* The picker.                                                             *)
(***************************************************************************)
data == lists[dates]

\* Faulty variant: the selection is not looked at again.
PrunedNever(list) == selected

\* A new list drops the selected rooms it does not offer.
Pruned(list) == selected \intersect list

Told(list) == availData' = list /\ selected' = Pruned(list)

\* A list the picker still has is used at once; while there is none, the page keeps the old one.
setDates(d) ==
    /\ d # dates /\ dates' = d /\ asked' = asked \union {d}
    /\ IF lists[d] = None THEN UNCHANGED <<availData, selected>> ELSE Told(lists[d])
    /\ UNCHANGED <<lists, payVars, sendVars, serverVars>>

ListArrives(d) ==
    /\ d \in asked /\ asked' = asked \ {d}
    /\ \/ /\ lists' = [lists EXCEPT ![d] = Free(d)]
          /\ IF d = dates THEN Told(Free(d)) ELSE UNCHANGED <<availData, selected>>
       \/ UNCHANGED <<lists, availData, selected>>
    /\ UNCHANGED <<dates, payVars, sendVars, serverVars>>

\* Every 30 seconds, when the window is looked at again and on refreshKey.
Refetch == asked' = asked \union {dates} /\ UNCHANGED <<dates, lists, availData, selected, payVars, sendVars, serverVars>>

toggleRoom(r) ==
    /\ data # None /\ (data # None => r \in data)
    /\ selected' = (IF r \in selected THEN selected \ {r} ELSE selected \union {r})
    /\ UNCHANGED <<dates, lists, asked, availData, payVars, sendVars, serverVars>>

(***************************************************************************)
(* The payment fields.                                                     *)
(***************************************************************************)
Pay == voucher = 0 /\ hasty' = (hasty \/ step # None) /\ UNCHANGED <<pickerVars, sendVars, serverVars>>
setAdvanceAmount == Pay /\ advance' = ~advance /\ UNCHANGED collected
setPaymentCollected == Pay /\ advance /\ collected' = ~collected /\ UNCHANGED advance

(***************************************************************************)
(* Making the booking.                                                     *)
(***************************************************************************)
\* Faulty variant: the button stays enabled while a booking is being made.
canSubmitAlways == selected # {}

canSubmit == selected # {} /\ step = None

Submit ==
    /\ canSubmit /\ voucher = 0 /\ tries < MaxTries /\ tries' = tries + 1
    /\ sent' = [rooms |-> selected, dates |-> dates, advance |-> advance /\ collected]
    /\ step' = "guest" /\ error' = None /\ hasty' = FALSE
    /\ UNCHANGED <<pickerVars, advance, collected, told, voucher, serverVars>>

Fails(why) ==
    /\ step' = None /\ sent' = None /\ error' = why /\ told' = TRUE
    /\ selected' = (IF why = "double_booking" THEN {} ELSE selected)
    /\ asked' = (IF why = "double_booking" THEN asked \union {dates} ELSE asked)
    /\ UNCHANGED <<dates, lists, availData, payVars, tries, voucher, taken>>

Succeeds ==
    /\ step' = None /\ sent' = None /\ error' = None /\ voucher' = Len(bookings)
    /\ asked' = asked \union {dates}
    /\ UNCHANGED <<dates, lists, availData, selected, payVars, told, tries, taken>>

PatchGuest ==
    /\ step = "guest"
    /\ \/ step' = "booking" /\ UNCHANGED <<pickerVars, payVars, sent, error, told, tries, voucher, serverVars>>
       \/ Fails("failed") /\ UNCHANGED bookings

\* The answer may be lost although the booking was made.
CreateBooking ==
    /\ step = "booking"
    /\ IF sent.rooms \subseteq Free(sent.dates)
       THEN /\ bookings' = Append(bookings, [rooms |-> sent.rooms, dates |-> sent.dates, paid |-> FALSE])
            /\ \/ step' = "payment" /\ UNCHANGED <<pickerVars, payVars, sent, error, told, tries, voucher, taken>>
               \/ Fails("failed")
       ELSE Fails("double_booking") /\ UNCHANGED bookings

Paid == [bookings EXCEPT ![Len(bookings)].paid = TRUE]

\* Faulty variant: a failed payment does not stop the voucher.
RecordAdvanceAnyway ==
    /\ step = "payment" /\ Succeeds
    /\ bookings' \in (IF sent.advance THEN {bookings, Paid} ELSE {bookings})

\* Only an advance that was ticked as collected is recorded; its answer may be lost.
RecordAdvance ==
    /\ step = "payment"
    /\ \/ Succeeds /\ bookings' = (IF sent.advance THEN Paid ELSE bookings)
       \/ sent.advance /\ Fails("failed") /\ bookings' \in {bookings, Paid}

Next ==
    \/ \E r \in Rooms, d \in Dates : OtherDesk(r, d)
    \/ \E d \in Dates : setDates(d) \/ ListArrives(d)
    \/ Refetch \/ (\E r \in Rooms : toggleRoom(r))
    \/ setAdvanceAmount \/ setPaymentCollected
    \/ Submit \/ PatchGuest \/ CreateBooking \/ RecordAdvance

Spec == Init /\ [][Next]_advanceVars

-----------------------------------------------------------------------------
\* What the voucher states (paymentInfo is read from the form when it is shown).
ShownAdvance == advance /\ collected

\* The rooms about to be booked are rooms that the list for their dates offers, as soon
\* as there is one: whichever rooms were chosen for other dates or taken by others.
SelectedOffered == data # None => selected \subseteq data

\* A receipt voucher for an advance is shown exactly if the advance is recorded; unless
\* the payment fields were changed while the booking was being made.
VoucherHonest == voucher # 0 /\ ~hasty => (ShownAdvance <=> bookings[voucher].paid)

\* A second booking is made only after the desk was told that a submission failed
\* (the booking it was for may exist for all that).
SecondBookingAfterFailure == Len(bookings) > 1 => told

\* Why: until a failure was reported, a booking was made exactly if its payment is due or
\* its voucher shown; and a list that is there was pruned by.
OneUnlessTold ==
    /\ bookings \in Seq([rooms : SUBSET Rooms, dates : Dates, paid : BOOLEAN]) /\ voucher \in Nat
    /\ voucher # 0 => step = None
    /\ step = "payment" => Len(bookings) > 0
    /\ step # None => sent \in [rooms : SUBSET Rooms, dates : Dates, advance : BOOLEAN]
    /\ ~told => Len(bookings) = IF voucher # 0 \/ step = "payment" THEN 1 ELSE 0
    /\ dates \in Dates /\ selected \subseteq Rooms /\ lists \in [Dates -> (SUBSET Rooms) \union {None}]

\* Why: what is recorded is what the form said when the button was pressed.
VoucherKept ==
    /\ OneUnlessTold
    /\ {advance, collected, hasty} \subseteq BOOLEAN /\ voucher \in 0 .. Len(bookings)
    /\ step # None /\ ~hasty => (sent.advance <=> ShownAdvance)
    /\ step = "payment" => ~bookings[Len(bookings)].paid
    /\ VoucherHonest
=============================================================================
