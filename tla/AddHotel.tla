--------------------------------- MODULE AddHotel ---------------------------------
(***************************************************************************)
(* The super admin's Add Hotel page                                        *)
(* (app/(super-admin)/admin/add-hotel/page.tsx): one button creates the    *)
(* hotel and then, call by call, its pictures and payment setup, its room  *)
(* types and rooms, its services, its staff and its settings.  Only the    *)
(* first call can fail the whole; the other steps are reported.  What is   *)
(* sent is the form as it was when the button was pressed; the fields are  *)
(* not locked meanwhile.  The payment QR is then asked for until it is     *)
(* ready, or the page gives up.                                            *)
(***************************************************************************)
EXTENDS Naturals

CONSTANTS Numbers,      \* room numbers
          Members,      \* staff accounts
          None,
          MaxPolls      \* the tries to read the QR (14 in the code)

NoType == ""
TypeKeys == {"type_1", "type_2"}    \* the type rows, in the order of the form
First(S) == IF "type_1" \in S THEN "type_1" ELSE "type_2"
Steps == {"hotel", "extras", "types", "rooms", "members", "settings", "done"}

VARIABLES
    names,      \* typeEntries: "gone", "blank" or "named"
    rows,       \* rooms: the key of the type chosen for each number, NoType, or None for no row
    members,    \* additionalMembers: "none", "partial" or "complete"
    upi,        \* upiId is filled in
    pictures,   \* a logo or a picture of the gallery is chosen
    canSubmit,  \* the hotel's name and the owner's are filled in, with email and password
    sent,       \* the form when the button was pressed, None before
    step,       \* the step of the submission, None while there is none
    made,       \* createdTypeMap
    failed,     \* failedSteps
    createdHotelId,  \* BOOLEAN: a hotel was created and this page knows
    hotels,     \* server: hotels of this owner
    serverRooms, serverMembers, serverUpi,  \* server: what the hotel has
    qr, polls   \* the QR: "none", "polling", "shown" or "late"; the tries so far

formVars == <<names, rows, members, upi, pictures, canSubmit>>
serverVars == <<hotels, serverRooms, serverMembers, serverUpi>>
qrVars == <<qr, polls>>
addHotelVars == <<formVars, sent, step, made, failed, createdHotelId, serverVars, qrVars>>

TypeOK ==
    /\ names \in [TypeKeys -> {"gone", "blank", "named"}]
    /\ rows \in [Numbers -> TypeKeys \union {NoType, None}]
    /\ members \in [Members -> {"none", "partial", "complete"}] /\ {upi, pictures, canSubmit} \subseteq BOOLEAN
    /\ step \in Steps \union {None} /\ (step # None => sent # None)
    /\ made \in [TypeKeys -> TypeKeys \union {None}] /\ failed \subseteq Steps \union Members
    /\ createdHotelId \in BOOLEAN /\ hotels \in Nat
    /\ serverRooms \in [Numbers -> TypeKeys \union {None}] /\ serverMembers \subseteq Members
    /\ serverUpi \in BOOLEAN /\ qr \in {"none", "polling", "shown", "late"} /\ polls \in 0 .. MaxPolls

Init ==
    /\ names = [k \in TypeKeys |-> "named"] /\ rows = [n \in Numbers |-> None]
    /\ members = [m \in Members |-> "none"] /\ upi = FALSE
    /\ pictures = FALSE /\ canSubmit = FALSE
    /\ sent = None /\ step = None /\ made = [k \in TypeKeys |-> None] /\ failed = {}
    /\ createdHotelId = FALSE /\ hotels = 0
    /\ serverRooms = [n \in Numbers |-> None] /\ serverMembers = {} /\ serverUpi = FALSE
    /\ qr = "none" /\ polls = 0

(***************************************************************************)
(* The form.                                                               *)
(***************************************************************************)
\* Bound: of the edits during a submission only those of the room rows are enumerated.
EditRooms == ~createdHotelId /\ UNCHANGED <<sent, step, made, failed, createdHotelId, serverVars, qrVars>>
Edit == step = None /\ EditRooms

updateTypeEntry(k, name) ==
    /\ Edit /\ names[k] \notin {"gone", name} /\ names' = [names EXCEPT ![k] = name]
    /\ UNCHANGED <<rows, members, upi, pictures, canSubmit>>

\* The rooms that chose the type lose it.
removeTypeEntry(k) ==
    /\ Edit /\ names[k] # "gone" /\ names' = [names EXCEPT ![k] = "gone"]
    /\ rows' = [n \in Numbers |-> IF rows[n] = k THEN NoType ELSE rows[n]]
    /\ UNCHANGED <<members, upi, pictures, canSubmit>>

\* A new row gets the first type of the list; the list offers all that are there.
addRoomEntry(n) ==
    /\ EditRooms /\ rows[n] = None
    /\ LET there == {k \in TypeKeys : names[k] # "gone"}
       IN  rows' = [rows EXCEPT ![n] = IF there = {} THEN NoType ELSE First(there)]
    /\ UNCHANGED <<names, members, upi, pictures, canSubmit>>

updateRoomEntry(n, k) ==
    /\ EditRooms /\ rows[n] \notin {None, k} /\ (k \in TypeKeys => names[k] # "gone")
    /\ rows' = [rows EXCEPT ![n] = k] /\ UNCHANGED <<names, members, upi, pictures, canSubmit>>

removeRoomEntry(n) ==
    /\ EditRooms /\ rows[n] # None /\ rows' = [rows EXCEPT ![n] = None] /\ UNCHANGED <<names, members, upi, pictures, canSubmit>>

addMember(m) ==
    /\ Edit /\ members[m] = "none" /\ members' = [members EXCEPT ![m] = "partial"]
    /\ UNCHANGED <<names, rows, upi, pictures, canSubmit>>
updateMember(m) ==
    /\ Edit /\ members[m] = "partial" /\ members' = [members EXCEPT ![m] = "complete"]
    /\ UNCHANGED <<names, rows, upi, pictures, canSubmit>>

setUpiId == Edit /\ ~upi /\ upi' = TRUE /\ UNCHANGED <<names, rows, members, pictures, canSubmit>>

\* A chosen picture passes the editor first.
handleLogoChange == Edit /\ ~pictures /\ pictures' = TRUE /\ UNCHANGED <<names, rows, members, upi, canSubmit>>
removeGallerySlot == Edit /\ pictures /\ pictures' = FALSE /\ UNCHANGED <<names, rows, members, upi, canSubmit>>

FillRequired == Edit /\ ~canSubmit /\ canSubmit' = TRUE /\ UNCHANGED <<names, rows, members, upi, pictures>>

(***************************************************************************)
(* The submission.                                                         *)
(***************************************************************************)
Submit ==
    /\ step = None /\ ~createdHotelId /\ canSubmit
    /\ sent' = [names |-> names, rows |-> rows, members |-> members, upi |-> upi, pictures |-> pictures]
    /\ step' = "hotel" /\ failed' = {} /\ made' = [k \in TypeKeys |-> None]
    /\ UNCHANGED <<formVars, createdHotelId, serverVars, qrVars>>

\* Faulty variant: the server takes a second hotel of the same owner.
EmailFreeAlways == TRUE

\* The owner's email must not be registered yet (create_user).
EmailFree == hotels = 0

\* The first call fails the whole; the hotel may have been created for all that.
CreateHotel ==
    /\ step = "hotel"
    /\ \/ EmailFree /\ hotels' = hotels + 1 /\ step' \in {"extras", None}
       \/ UNCHANGED hotels /\ step' = None
    /\ UNCHANGED <<formVars, sent, made, failed, createdHotelId, serverRooms, serverMembers, serverUpi, qrVars>>

\* Faulty variant: a failed call is only caught.
FailsQuietly(what) == UNCHANGED failed

Fails(what) == failed' = failed \union {what}

\* Logo, payment setup, gallery.
Extras ==
    /\ step = "extras" /\ step' = "types"
    /\ serverUpi' \in {FALSE, sent.upi}
    /\ failed' \in {failed, IF sent.upi \/ sent.pictures THEN failed \union {"extras"} ELSE failed}
    /\ (serverUpi' # sent.upi => "extras" \in failed')
    /\ UNCHANGED <<formVars, sent, made, createdHotelId, hotels, serverRooms, serverMembers, qrVars>>

validTypes == {k \in TypeKeys : sent.names[k] = "named"}
validRooms == {n \in Numbers : sent.rows[n] \notin {None, NoType}}

\* Faulty variant: the types are found again by their place in the form, so that without the
\* first name the second row has the place of the first.
madeForByPlace(k) ==
    IF k = "type_1" /\ validTypes = {"type_2"} THEN made["type_2"] ELSE made[k]

\* The type that was made for the row a room chose; None when the row had no name.
madeFor(k) == made[k]

\* One call after the other; the first that fails ends types and rooms.
CreateType ==
    /\ step = "types"
    /\ LET todo == {k \in validTypes : made[k] = None}
       IN  IF todo = {}
           THEN step' = "rooms" /\ UNCHANGED <<made, failed>>
           ELSE \/ made' = [made EXCEPT ![First(todo)] = First(todo)] /\ UNCHANGED <<step, failed>>
                \/ step' = "members" /\ Fails("rooms") /\ UNCHANGED made
    /\ UNCHANGED <<formVars, sent, createdHotelId, serverVars, qrVars>>

\* Rooms whose type was not made are passed over.
CreateRoom ==
    /\ step = "rooms"
    /\ LET todo == {n \in validRooms : madeFor(sent.rows[n]) # None /\ serverRooms[n] = None}
       IN  IF todo = {}
           THEN step' = "members" /\ UNCHANGED <<serverRooms, failed>>
           ELSE \/ /\ \E n \in todo : serverRooms' = [serverRooms EXCEPT ![n] = madeFor(sent.rows[n])]
                   /\ UNCHANGED <<step, failed>>
                \/ step' = "members" /\ Fails("rooms") /\ UNCHANGED serverRooms
    /\ UNCHANGED <<formVars, sent, made, createdHotelId, hotels, serverMembers, serverUpi, qrVars>>

\* Incomplete accounts are passed over; each other one succeeds or is reported.
CreateMembers ==
    /\ step = "members" /\ step' = "settings"
    /\ \E done \in SUBSET {m \in Members : sent.members[m] = "complete"} :
         /\ serverMembers' = done
         /\ failed' = failed \union {m \in Members \ done : sent.members[m] = "complete"}
    /\ UNCHANGED <<formVars, sent, made, createdHotelId, hotels, serverRooms, serverUpi, qrVars>>

\* A failure of the settings is passed over; then the page shows the hotel as created.
Created ==
    /\ step = "settings" /\ step' = None /\ createdHotelId' = TRUE
    /\ qr' = IF sent.upi THEN "polling" ELSE "none"
    /\ UNCHANGED <<formVars, sent, made, failed, serverVars, polls>>

TryFailed == polls' = polls + 1 /\ qr' = IF polls' = MaxPolls THEN "late" ELSE "polling"

\* A try shows the QR, finds it but not its picture, or has to be repeated.
pollAndLoadQr ==
    /\ qr = "polling"
    /\ \/ serverUpi /\ qr' \in {"shown", "late"} /\ UNCHANGED polls
       \/ TryFailed
    /\ UNCHANGED <<formVars, sent, step, made, failed, createdHotelId, serverVars>>

Next ==
    \/ \E k \in TypeKeys : removeTypeEntry(k) \/ \E name \in {"blank", "named"} : updateTypeEntry(k, name)
    \/ \E n \in Numbers : addRoomEntry(n) \/ removeRoomEntry(n)
    \/ \E n \in Numbers, k \in TypeKeys \union {NoType} : updateRoomEntry(n, k)
    \/ \E m \in Members : addMember(m) \/ updateMember(m)
    \/ setUpiId \/ handleLogoChange \/ removeGallerySlot \/ FillRequired \/ Submit \/ CreateHotel \/ Extras \/ CreateType \/ CreateRoom \/ CreateMembers
    \/ Created \/ pollAndLoadQr

Spec == Init /\ [][Next]_addHotelVars /\ WF_addHotelVars(pollAndLoadQr)

(***************************************************************************)
(* What should hold.                                                       *)
(***************************************************************************)

\* A room has the type that its row chose when the button was pressed, whatever other rows
\* were left blank or removed.
RoomsHaveChosenType == \A n \in Numbers : serverRooms[n] # None => serverRooms[n] = sent.rows[n]

NoMemberMissing ==
    \A m \in Members : sent.members[m] = "complete" /\ m \notin serverMembers => m \in failed

NoRoomMissing ==
    "rooms" \notin failed =>
        \A n \in validRooms : sent.names[sent.rows[n]] = "named" => serverRooms[n] # None

\* A hotel that the page shows as created has all its complete staff accounts, and all its
\* rooms of named types, or the failure is reported.
MissingReported == createdHotelId => NoMemberMissing /\ NoRoomMissing

\* Pressing the button again after an error, or after a lost answer, makes no second hotel.
OneHotel == hotels <= 1

\* Why: a type is made for its own row, nothing is created before the steps that create it,
\* and a step that went on without creating everything said so.
CreatedSoFar ==
    /\ rows \in [Numbers -> TypeKeys \union {NoType, None}] /\ step \in Steps \union {None}
    /\ step # None \/ createdHotelId => sent.rows \in [Numbers -> TypeKeys \union {NoType, None}]
    /\ made \in [TypeKeys -> TypeKeys \union {None}] /\ \A k \in TypeKeys : made[k] \in {k, None}
    /\ serverRooms \in [Numbers -> TypeKeys \union {None}] /\ hotels \in Nat
    /\ step \in {None, "hotel", "extras", "types"} /\ ~createdHotelId =>
           \A n \in Numbers : serverRooms[n] = None
    /\ step = "rooms" /\ "rooms" \notin failed => \A k \in validTypes : made[k] # None
    /\ step \in {"members", "settings"} => NoRoomMissing
    /\ step = "settings" => NoMemberMissing
    /\ createdHotelId => step = None
    /\ RoomsHaveChosenType /\ MissingReported /\ OneHotel

====================================================================================
