------------------------------ MODULE AdminEditHotel ------------------------------
(***************************************************************************)
(* The super admin's form of one hotel                                     *)
(* (app/(super-admin)/admin/hotels/[id]/edit/page.tsx).  Identity, flags,  *)
(* room types and rooms are filled and saved as on the partner's page      *)
(* (EditHotel), but every call names the hotel of the route, and another   *)
(* hotel is another page.  The access mode, the owner's phone and the size *)
(* of the team come from a query of their own that nothing waits for; one  *)
(* field, the mode, stands for the three.                                  *)
(***************************************************************************)
CONSTANTS Hotels, Numbers, Types, None, Old,
          Modes       \* the access modes

Full == "full"        \* what the form says before it knows

VARIABLES
    page,         \* hotelId of the route
    named, types, rooms, roomsCopy, identity, rows, originals, roomsInit, newType, touched, saving,
                  \* as in EditHotel, of the route's hotel
    mode,         \* server: the access mode of each hotel
    detail,       \* adminDetail: the copy of the mode, None before it came
    accessMode,   \* hotelAccessMode
    seeded,       \* adminDetailInit
    sending,      \* the mode that the update under way will send, or None
    wanted        \* history: the modes that some admin wanted for a hotel

Form == INSTANCE EditHotel WITH active <- page

roomsForm == <<named, types, rooms, roomsCopy, identity, rows, originals, roomsInit, newType, touched, saving>>
detailForm == <<detail, accessMode, seeded, sending>>
detailVars == <<mode, wanted, detailForm>>
adminVars == <<page, roomsForm, detailVars>>

TypeOK ==
    /\ Form!TypeOK /\ mode \in [Hotels -> Modes] /\ detail \in Modes \union {None}
    /\ accessMode \in Modes /\ seeded \in BOOLEAN
    /\ sending \in Modes \union {None} /\ wanted \in [Hotels -> SUBSET Modes]

Init ==
    /\ Form!Init /\ mode \in [Hotels -> Modes]
    /\ detail = None /\ accessMode = Full /\ seeded = FALSE
    /\ sending = None /\ wanted = [h \in Hotels |-> {mode[h]}]

(***************************************************************************)
(* The parts that are the partner's.                                       *)
(***************************************************************************)
HotelComes == Form!HotelComes /\ UNCHANGED detailVars
RoomsCome == Form!RoomsCome /\ UNCHANGED detailVars
FillRooms == Form!FillRooms /\ UNCHANGED detailVars
addRoom(n) == Form!addRoomEntry(n) /\ UNCHANGED detailVars
removeRoom(n) == Form!removeRoomEntry(n) /\ UNCHANGED detailVars
updateRoom(n, choice) == Form!updateRoomEntry(n, choice) /\ UNCHANGED detailVars
addType == Form!addTypeEntry /\ UNCHANGED detailVars
updateType(name) == Form!updateTypeEntry(name) /\ UNCHANGED detailVars
removeType == (Form!removeTypeEntry \/ \E k \in Types : Form!deleteSavedType(k)) /\ UNCHANGED detailVars
SaveIdentity == Form!SaveIdentity /\ UNCHANGED detailVars
SaveTypes == sending = None /\ Form!SaveTypes /\ UNCHANGED detailVars
SaveRooms == Form!SaveRooms /\ UNCHANGED detailVars

(***************************************************************************)
(* The page and the admin details.                                         *)
(***************************************************************************)

\* Faulty variant: the page stays as it is when the hotel changes.
OpenHotelKeeps(h) ==
    /\ h # page /\ saving = None /\ page' = h /\ roomsCopy' = None /\ detail' = None
    /\ UNCHANGED <<named, types, rooms, identity, rows, originals, roomsInit, newType, touched,
                   saving, mode, wanted, accessMode, seeded, sending>>

\* Another hotel's page is mounted anew.
OpenHotel(h) ==
    /\ Form!SwitchHotel(h)
    /\ detail' = None /\ accessMode' = Full /\ seeded' = FALSE
    /\ UNCHANGED <<mode, wanted, sending>>

\* The details come, and come again when the network is back.
DetailComes == detail' = mode[page] /\ UNCHANGED <<page, roomsForm, mode, wanted, accessMode, seeded, sending>>

FillDetail ==
    /\ ~seeded /\ detail # None /\ seeded' = TRUE /\ accessMode' = detail
    /\ UNCHANGED <<page, roomsForm, mode, wanted, detail, sending>>

\* The three cards are there before the details are.
ChooseMode(m) ==
    /\ saving = None /\ m # accessMode /\ (seeded \/ detail = None)
    /\ accessMode' = m /\ wanted' = [wanted EXCEPT ![page] = @ \union {m}]
    /\ UNCHANGED <<page, roomsForm, mode, detail, seeded, sending>>

\* Faulty variant: a mode that is not known counts as changed.
modeChangedUnknown == accessMode # detail

modeChanged == accessMode # (IF detail = None THEN Full ELSE detail)

\* What is sent is settled with the click.
Update ==
    /\ Form!Update /\ (seeded \/ detail = None)
    /\ sending' = IF modeChanged THEN accessMode ELSE None
    /\ UNCHANGED <<mode, wanted, detail, accessMode, seeded>>

\* Between identity and room types; a success is put into the cache.
SaveDetails ==
    /\ saving # None /\ saving.stage = "types" /\ sending # None /\ sending' = None
    /\ \/ mode' = [mode EXCEPT ![page] = sending] /\ detail' = sending
       \/ UNCHANGED <<mode, detail>>
    /\ UNCHANGED <<page, roomsForm, wanted, accessMode, seeded>>

\* The details are fetched again with the rest, and fill the form again.
Refill ==
    /\ Form!Refill /\ detail' \in {detail, mode[page]} /\ seeded' = FALSE
    /\ UNCHANGED <<mode, wanted, accessMode, sending>>

OtherAdmin(m) ==
    /\ mode' = [mode EXCEPT ![page] = m] /\ wanted' = [wanted EXCEPT ![page] = @ \union {m}]
    /\ UNCHANGED <<page, roomsForm, detailForm>>

Next ==
    \/ HotelComes \/ RoomsCome \/ FillRooms \/ addType \/ removeType
    \/ \E n \in Numbers : addRoom(n) \/ removeRoom(n) \/ \E c \in Form!Choices : updateRoom(n, c)
    \/ \E k \in Types \union {Form!NoType} : updateType(k)
    \/ Update \/ SaveIdentity \/ SaveDetails \/ SaveTypes \/ SaveRooms \/ Refill
    \/ \E h \in Hotels : OpenHotel(h)
    \/ DetailComes \/ FillDetail \/ \E m \in Modes : ChooseMode(m) \/ OtherAdmin(m)

Spec == Init /\ [][Next]_adminVars

(***************************************************************************)
(* What should hold.                                                       *)
(***************************************************************************)

\* A hotel keeps its own identity, whichever page the admin opens next.
OwnHotelSaved == Form!OwnHotelSaved

\* No hotel gets a mode that no admin wanted for it: not the form's default, when it is
\* saved before its details came, and not another hotel's.
ModeWasWanted == \A h \in Hotels : mode[h] \in wanted[h]

\* Why: as on the partner's page, its fields are of the hotel of the route.
FieldsOfPage == Form!FieldsOfHotel

\* Why: the form holds its default until the details came, and a default is not sent.
ModesOfPage ==
    /\ page \in Hotels /\ mode \in [Hotels -> Modes] /\ wanted \in [Hotels -> SUBSET Modes]
    /\ saving \in Form!Maybe(Form!Saves)
    /\ sending # None => saving # None /\ saving.stage \in {"identity", "types"}
    /\ {detail, sending} \subseteq wanted[page] \union {None}
    /\ accessMode \in wanted[page] \union {Full} /\ (seeded => accessMode \in wanted[page])
    /\ ModeWasWanted
====================================================================================
