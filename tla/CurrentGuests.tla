------------------------------- MODULE CurrentGuests -------------------------------
(***************************************************************************)
(* The dialogs of the in-house guests page                                 *)
(* (app/(partner)/current-guests/page.tsx): they show, print, edit and     *)
(* move a stay.  They read bookings and guests from the query   *)
(* cache: a copy that is there is shown at once, and replaced when a       *)
(* refetch answers (components/providers.tsx: a copy is fresh for 60 s).   *)
(* The edit form is filled once from the copies, and a save sends the      *)
(* fields in which the form differs from the copies of that moment.        *)
(***************************************************************************)
EXTENDS Integers

CONSTANTS Stays, Rooms, None,
          MaxPrints,   \* bound: prints asked for
          MaxOther     \* bound: edits by another desk

BookingFields == {"stay"}                    \* "stay": the fields of the booking
Fields == BookingFields \union {"profile"}   \* "profile": the fields of the guest record
Was == 0
Mine == 1     \* what this desk types
Theirs == 2   \* what another desk writes
Values == {Was, Mine, Theirs}

VARIABLES
    record,         \* server: the fields of a stay and of its guest
    room,           \* server: the room of a stay
    others,         \* count of the other desk's edits
    bookingCopy,    \* cache ["booking", id, "detail"]
    guestCopy,      \* cache ["guest", id]
    transferCopy,   \* cache ["booking", id]: the current room
    dialog,         \* the dialog that is open, and its stay
    settled,        \* which queries of the dialog have come to an end
    printedFor,     \* printedForRef
    asked, printed, \* history: registration prints asked for in the list, and made
    form, touched,  \* the edit form; history: the fields the desk changed
    saving,         \* PATCHes under way
    moving          \* POST /room-transfers under way

serverVars == <<record, room, others>>
copies == <<bookingCopy, guestCopy, transferCopy>>
printVars == <<printedFor, asked, printed>>
editVars == <<form, touched, saving>>
currentGuestsVars == <<serverVars, copies, dialog, settled, printVars, editVars, moving>>

Closed == [kind |-> "none", stay |-> None]
Kinds == {"view", "print", "edit", "transfer"}
Maybe(S) == S \union {None}

TypeOK ==
    /\ record \in [Stays -> [Fields -> Values]] /\ room \in [Stays -> Rooms] /\ others \in 0 .. MaxOther
    /\ bookingCopy \in [Stays -> Maybe([BookingFields -> Values])]
    /\ guestCopy \in [Stays -> Maybe(Values)] /\ transferCopy \in [Stays -> Maybe(Rooms)]
    /\ dialog \in {Closed} \union [kind : Kinds, stay : Stays]
    /\ settled \subseteq {"payments", "guest"} /\ printedFor \in Maybe(Stays)
    /\ {asked, printed} \subseteq 0 .. MaxPrints + 1
    /\ touched \subseteq Fields

Init ==
    /\ record = [s \in Stays |-> [f \in Fields |-> Was]] /\ room \in [Stays -> Rooms] /\ others = 0
    /\ \A s, r \in Stays : room[s] = room[r] => s = r
    /\ bookingCopy = [s \in Stays |-> None] /\ guestCopy = [s \in Stays |-> None]
    /\ transferCopy = [s \in Stays |-> None]
    /\ dialog = Closed /\ settled = {} /\ printedFor = None /\ asked = 0 /\ printed = 0
    /\ form = None /\ touched = {} /\ saving = None /\ moving = None

(***************************************************************************)
(* The row menu and the dialogs.                                           *)
(***************************************************************************)
Open(k, s) ==
    /\ dialog.kind \in {"none", "print"}   \* a print shows no dialog
    /\ dialog' = [kind |-> k, stay |-> s] /\ settled' = {}
    /\ printedFor' = IF s = dialog.stay THEN printedFor ELSE None
    /\ form' = None /\ touched' = {}
    /\ UNCHANGED <<serverVars, copies, printed, saving, moving>>

View(s) == Open("view", s) /\ UNCHANGED asked
PrintSlip(s) ==
    /\ asked < MaxPrints /\ dialog # [kind |-> "print", stay |-> s]
    /\ Open("print", s) /\ asked' = asked + 1
Edit(s) == Open("edit", s) /\ UNCHANGED asked
Transfer(s) == Open("transfer", s) /\ UNCHANGED asked

Close == dialog' = Closed /\ settled' = {} /\ printedFor' = None /\ form' = None /\ touched' = {}
dialogVars == <<dialog, settled, printedFor, form, touched>>

CloseDialog ==
    /\ dialog.kind \in {"view", "edit", "transfer"} /\ Close
    /\ UNCHANGED <<serverVars, copies, asked, printed, saving, moving>>

\* GET /bookings/{id} answers the dialog that shows it.
BookingComes ==
    LET s == dialog.stay IN
    /\ dialog # Closed
    /\ IF dialog.kind = "transfer"
         THEN transferCopy' = [transferCopy EXCEPT ![s] = room[s]] /\ UNCHANGED bookingCopy
         ELSE bookingCopy' = [bookingCopy EXCEPT ![s] = [f \in BookingFields |-> record[s][f]]]
              /\ UNCHANGED transferCopy
    /\ UNCHANGED <<serverVars, guestCopy, dialog, settled, printVars, editVars, moving>>

\* GET /guests/{id} answers the edit dialog, or fails.
GuestComes ==
    LET s == dialog.stay IN
    /\ dialog.kind = "edit" /\ bookingCopy[s] # None
    /\ settled' = settled \union {"guest"}
    /\ guestCopy' \in {guestCopy, [guestCopy EXCEPT ![s] = record[s].profile]}
    /\ UNCHANGED <<serverVars, bookingCopy, transferCopy, dialog, printVars, editVars, moving>>

\* The payments of the booking, its guests and Form C records come, or fail.
PaymentsCome ==
    /\ dialog.kind \in {"view", "print"} /\ "payments" \notin settled
    /\ settled' = settled \union {"payments"}
    /\ UNCHANGED <<serverVars, copies, dialog, printVars, editVars, moving>>

\* Faulty variant: the effect prints each time it runs.
AutoPrintAgain ==
    /\ dialog.kind = "print" /\ bookingCopy[dialog.stay] # None /\ "payments" \in settled
    /\ printed <= MaxPrints
    /\ printed' = printed + 1 /\ printedFor' = dialog.stay
    /\ UNCHANGED <<serverVars, copies, dialog, settled, asked, editVars, moving>>

\* The effect of the print-only flow: with booking and payments, print once and close.
AutoPrint ==
    /\ dialog.kind = "print" /\ bookingCopy[dialog.stay] # None /\ "payments" \in settled
    /\ printedFor # dialog.stay
    /\ printed' = printed + 1 /\ Close
    /\ UNCHANGED <<serverVars, copies, asked, saving, moving>>

\* "Print registration" of the detail dialog: close, then print.
printRegistration ==
    /\ dialog.kind = "view" /\ bookingCopy[dialog.stay] # None /\ Close
    /\ UNCHANGED <<serverVars, copies, asked, printed, saving, moving>>

(***************************************************************************)
(* Editing a stay.                                                         *)
(***************************************************************************)
guestSettled(s) == guestCopy[s] # None \/ "guest" \in settled
guestKnown(s) == guestCopy[s] # None

\* EditStayForm mounts and takes its values from the copies, once.
FillForm ==
    LET s == dialog.stay IN
    /\ dialog.kind = "edit" /\ form = None /\ bookingCopy[s] # None /\ guestSettled(s)
    /\ form' = [f \in Fields |-> IF f # "profile" THEN bookingCopy[s][f]
                                 ELSE IF guestKnown(s) THEN guestCopy[s] ELSE Was]
    /\ UNCHANGED <<serverVars, copies, dialog, settled, printVars, touched, saving, moving>>

Change(f) ==
    /\ form' = [form EXCEPT ![f] = Mine] /\ touched' = touched \union {f}
    /\ UNCHANGED <<serverVars, copies, dialog, settled, printVars, saving, moving>>

\* Dates, heads, requests, contact and vehicle; the guest's own data.
EditBooking == form # None /\ saving = None /\ Change("stay")
EditGuest == form # None /\ saving = None /\ guestKnown(dialog.stay) /\ Change("profile")

bookingPatch(s) == {f \in BookingFields : form[f] # bookingCopy[s][f]}
guestPatch(s) == {f \in {"profile"} : guestKnown(s) /\ form[f] # guestCopy[s]}

\* Faulty variant: the booking goes first.
FirstPartBooking(booking, guest) == IF booking # {} THEN "booking" ELSE "guest"

\* The order of the two requests: the guest first.
FirstPart(booking, guest) == IF guest # {} THEN "guest" ELSE "booking"

submit ==
    LET s == dialog.stay  b == bookingPatch(s)  g == guestPatch(s) IN
    /\ form # None /\ saving = None
    /\ IF b \union g = {}
         THEN Close /\ UNCHANGED saving
         ELSE /\ saving' = [stay |-> s, part |-> FirstPart(b, g), done |-> {}, fields |-> b \union g,
                            values |-> form, changed |-> touched]
              /\ UNCHANGED dialogVars
    /\ UNCHANGED <<serverVars, copies, asked, printed, moving>>

FieldsOf(part) == IF part = "guest" THEN {"profile"} ELSE BookingFields

OtherPart(part) == IF part = "guest" THEN "booking" ELSE "guest"

\* The server takes a part; after the last one the copies are invalidated (the refetch
\* answers now or when the copy is shown again), and an edit dialog that is open closes.
PartSaved ==
    LET s == saving.stay  fields == saving.fields \intersect FieldsOf(saving.part) IN
    /\ saving # None
    /\ record' = [record EXCEPT ![s] = [f \in Fields |-> IF f \in fields THEN saving.values[f] ELSE @[f]]]
    /\ IF saving.fields = fields \/ saving.done # {}
         THEN /\ saving' = None
              /\ \/ UNCHANGED copies
                 \/ /\ bookingCopy' = [bookingCopy EXCEPT ![s] = [f \in BookingFields |-> record'[s][f]]]
                    /\ guestCopy' = [guestCopy EXCEPT ![s] = record'[s].profile] /\ UNCHANGED transferCopy
              /\ IF dialog.kind = "edit" THEN Close ELSE UNCHANGED dialogVars
         ELSE /\ saving' = [saving EXCEPT !.part = OtherPart(@), !.done = {saving.part}]
              /\ UNCHANGED <<copies, dialogVars>>
    /\ UNCHANGED <<room, others, asked, printed, moving>>

\* The server refuses a part: an error is shown and the form stays.
PartRefused ==
    /\ saving # None
    /\ saving' = None
    /\ UNCHANGED <<serverVars, copies, dialog, settled, printVars, form, touched, moving>>

(***************************************************************************)
(* Moving a guest, and the other desk.                                     *)
(***************************************************************************)
Free == {r \in Rooms : \A s \in Stays : room[s] # r}

\* The transfer form: from the rooms of the copy to one that the list calls free.
SendTransfer(to) ==
    LET s == dialog.stay IN
    /\ dialog.kind = "transfer" /\ moving = None /\ transferCopy[s] # None /\ to # transferCopy[s]
    /\ moving' = [stay |-> s, from |-> transferCopy[s], to |-> to]
    /\ UNCHANGED <<serverVars, copies, dialog, settled, printVars, editVars>>

\* It answers; only the room and money lists are invalidated.
TransferAnswers ==
    /\ moving # None
    /\ IF moving.from = room[moving.stay] /\ moving.to \in Free
         THEN /\ room' = [room EXCEPT ![moving.stay] = moving.to]
              /\ IF dialog.kind = "transfer" THEN Close ELSE UNCHANGED dialogVars
         ELSE UNCHANGED <<room, dialogVars>>
    /\ moving' = None
    /\ UNCHANGED <<record, others, copies, asked, printed, saving>>

OtherDesk(s, f) ==
    /\ others < MaxOther /\ record[s][f] # Theirs
    /\ record' = [record EXCEPT ![s][f] = Theirs] /\ others' = others + 1
    /\ UNCHANGED <<room, copies, dialog, settled, printVars, editVars, moving>>

Next ==
    \/ \E s \in Stays : View(s) \/ PrintSlip(s) \/ Edit(s) \/ Transfer(s)
    \/ CloseDialog \/ BookingComes \/ GuestComes \/ PaymentsCome
    \/ AutoPrint \/ printRegistration \/ FillForm
    \/ EditBooking \/ EditGuest \/ submit \/ PartSaved \/ PartRefused
    \/ \E r \in Rooms : SendTransfer(r)
    \/ TransferAnswers
    \/ \E s \in Stays, f \in Fields : OtherDesk(s, f)

Spec == Init /\ [][Next]_currentGuestsVars

(***************************************************************************)
(* What should hold.                                                       *)
(***************************************************************************)

\* A print asked for in the list makes one window at most.
PrintsOnce == printed <= asked

\* A guest error stops the save before the booking is written: while the guest part can
\* still be refused, no part has been saved.
GuestErrorStopsAll == saving # None /\ saving.part = "guest" => saving.done = {}

\* Why: a save that goes on has the guest's part behind it or none of it, and one print was
\* asked for more than was made while the dialog that prints is there.
GuestFirst ==
    saving # None =>
        /\ {"stay", "part", "done", "fields", "values"} \subseteq DOMAIN saving
        /\ saving.part \in {"guest", "booking"} /\ saving.fields \subseteq Fields
        /\ saving.part = "guest" => saving.done = {}
        /\ saving.part = "booking" /\ saving.done = {} => "profile" \notin saving.fields
PrintsAskedFor ==
    /\ asked \in Nat /\ printed \in Nat
    /\ IF dialog.kind = "print" THEN printed < asked ELSE printed <= asked
====================================================================================
